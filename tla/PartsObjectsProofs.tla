------------------------- MODULE PartsObjectsProofs -------------------------
(***************************************************************************)
(* Safety of the machines behind every object, as parts of Parts:          *)
(* ObjectRefs, for every set of holders, and SignalHandler, for every set  *)
(* of threads and callbacks and signals nested to any depth; and of the    *)
(* media source with its thread, MediaPlayback, for any number of   *)
(* frames and requests.                                                    *)
(***************************************************************************)
EXTENDS Parts, FiniteSetTheorems, TLAPS

----------------------------------------------------------------------------
(* References.                                                             *)

\* The instance counts as the library does.
LEMMA SameCount ==
  \A S : (Refs!IsFiniteSet(S) <=> IsFiniteSet(S)) /\ Refs!Cardinality(S) = Cardinality(S)
<1>1. \A S : Refs!IsFiniteSet(S) <=> IsFiniteSet(S)
  BY DEF IsFiniteSet, Refs!IsFiniteSet
<1>2. \A S : Refs!Cardinality(S) = Cardinality(S)
  BY DEF Cardinality, Refs!Cardinality
<1>3. QED
  BY <1>1, <1>2

\* One more holder.
LEMMA OneMore ==
  ASSUME NEW S, NEW h, Refs!IsFiniteSet(S), h \notin S
  PROVE  /\ Refs!IsFiniteSet(S \cup {h})
         /\ Refs!Cardinality(S \cup {h}) = Refs!Cardinality(S) + 1
BY SameCount, FS_AddElement

\* One holder less.
LEMMA OneLess ==
  ASSUME NEW S, NEW h, Refs!IsFiniteSet(S), h \in S
  PROVE  /\ Refs!IsFiniteSet(S \ {h})
         /\ Refs!Cardinality(S \ {h}) = Refs!Cardinality(S) - 1
BY SameCount, FS_RemoveElement

\* Nobody is left when the count is 0.
LEMMA NoneLeft ==
  ASSUME NEW S, Refs!IsFiniteSet(S)
  PROVE  /\ Refs!Cardinality(S) \in Nat
         /\ Refs!Cardinality(S) = 0 <=> S = {}
BY SameCount, FS_CardinalityType, FS_EmptySet

LEMMA RefsInit == Refs!Init => Refs!IInv
<1> SUFFICES ASSUME Refs!Init PROVE Refs!IInv
  OBVIOUS
<1> USE HoldersAssumption DEF Refs!Init, Refs!None
<1>1. Refs!TypeOK
  BY DEF Refs!TypeOK
<1>2. strong # {} /\ \A h \in Holders : ~Refs!Destroying(h)
  BY DEF Refs!Destroying
<1>3. Refs!Counted
  <2>1. /\ Refs!IsFiniteSet(strong) /\ Refs!Cardinality(strong) = 1
        /\ Refs!IsFiniteSet(weak) /\ Refs!Cardinality(weak) = 0
    BY SameCount, FS_Singleton, FS_EmptySet
  <2>2. QED
    BY <1>2, <2>1 DEF Refs!Counted, Refs!Owned
<1>4. Refs!NeverRevived
  BY <1>2 DEF Refs!NeverRevived
<1>5. Refs!Present
  BY <1>2 DEF Refs!Present, Refs!Owned
<1>6. Refs!Asking
  BY DEF Refs!Asking
<1>7. QED
  BY <1>1, <1>3, <1>4, <1>5, <1>6 DEF Refs!IInv

LEMMA RefsTypeOK ==
  ASSUME Refs!TypeOK, [Refs!Next]_refVars
  PROVE  Refs!TypeOK'
<1> USE HoldersAssumption DEF Refs!None, Refs!TypeOK, Refs!Goto, Refs!memory, Refs!held
<1>1. CASE UNCHANGED refVars
  BY <1>1 DEF refVars
<1> SUFFICES ASSUME Refs!Next PROVE Refs!TypeOK'
  BY <1>1
<1> PICK h \in Holders :
       \/ \E g \in Holders : Refs!AddRef(h, g) \/ Refs!WeakAddRef(h, g)
       \/ Refs!Release(h) \/ Refs!WeakRelease(h)
       \/ Refs!Unlist(h) \/ Refs!Free(h) \/ Refs!DropControl(h)
       \/ Refs!Promote(h) \/ Refs!Find(h) \/ Refs!Read(h) \/ Refs!Swap(h)
  BY DEF Refs!Next
<1>2. ASSUME NEW g \in Holders, Refs!AddRef(h, g) PROVE Refs!TypeOK'
  BY <1>2 DEF Refs!AddRef
<1>3. ASSUME NEW g \in Holders, Refs!WeakAddRef(h, g) PROVE Refs!TypeOK'
  BY <1>3 DEF Refs!WeakAddRef
<1>4. CASE Refs!Release(h)
  BY <1>4 DEF Refs!Release
<1>5. CASE Refs!WeakRelease(h)
  BY <1>5 DEF Refs!WeakRelease, Refs!DropWeak
<1>6. CASE Refs!Unlist(h)
  BY <1>6 DEF Refs!Unlist
<1>7. CASE Refs!Free(h)
  BY <1>7 DEF Refs!Free
<1>8. CASE Refs!DropControl(h)
  BY <1>8 DEF Refs!DropControl, Refs!DropWeak
<1>9. CASE Refs!Promote(h)
  BY <1>9 DEF Refs!Promote
<1>10. CASE Refs!Find(h)
  BY <1>10 DEF Refs!Find
<1>11. CASE Refs!Read(h)
  BY <1>11 DEF Refs!Read, Refs!Unlock
<1>12. CASE Refs!Swap(h)
  BY <1>12 DEF Refs!Swap, Refs!Granted, Refs!Unlock
<1> QED
  BY <1>2, <1>3, <1>4, <1>5, <1>6, <1>7, <1>8, <1>9, <1>10, <1>11, <1>12

\* Each action keeps the invariant.  Of those who destroy there is one.
LEMMA RefsStep ==
  ASSUME Refs!IInv, [Refs!Next]_refVars
  PROVE  Refs!IInv'
<1> USE HoldersAssumption DEF Refs!None, Refs!Goto, Refs!memory, Refs!held, Refs!Destroying,
                              Refs!NeverRevived, Refs!Present, Refs!Asking, Refs!Owned
<1>t. Refs!TypeOK /\ Refs!TypeOK'
  BY RefsTypeOK DEF Refs!IInv
<1>i. Refs!Counted /\ Refs!NeverRevived /\ Refs!Present /\ Refs!Asking
  BY DEF Refs!IInv
<1>c. /\ Refs!IsFiniteSet(strong) /\ Refs!IsFiniteSet(weak)
      /\ Refs!Cardinality(strong) \in Nat /\ (Refs!Cardinality(strong) = 0 <=> strong = {})
      /\ Refs!Cardinality(weak) \in Nat /\ (Refs!Cardinality(weak) = 0 <=> weak = {})
      /\ ref.refs = Refs!Cardinality(strong) - 1
      /\ ref.weak_refs = Refs!Cardinality(weak) + (IF Refs!Owned THEN 1 ELSE 0) - 1
  BY <1>i, NoneLeft DEF Refs!Counted
<1>1. CASE UNCHANGED refVars
  BY <1>t, <1>i, <1>1 DEF refVars, Refs!IInv, Refs!Counted
<1>2. ASSUME NEW h \in Holders, NEW g \in Holders, Refs!AddRef(h, g) PROVE Refs!IInv'
  <2> USE <1>2 DEF Refs!AddRef
  <2>1. Refs!IsFiniteSet(strong') /\ Refs!Cardinality(strong') = Refs!Cardinality(strong) + 1
    BY <1>c, OneMore
  <2>2. Refs!Counted'
    BY <1>t, <1>c, <2>1 DEF Refs!Counted, Refs!TypeOK
  <2>3. Refs!NeverRevived' /\ Refs!Present' /\ Refs!Asking'
    BY <1>t, <1>i DEF Refs!TypeOK
  <2>4. QED
    BY <1>t, <2>2, <2>3 DEF Refs!IInv
<1>3. ASSUME NEW h \in Holders, NEW g \in Holders, Refs!WeakAddRef(h, g) PROVE Refs!IInv'
  <2> USE <1>3 DEF Refs!WeakAddRef
  <2>1. Refs!IsFiniteSet(weak') /\ Refs!Cardinality(weak') = Refs!Cardinality(weak) + 1
    BY <1>c, OneMore
  <2>2. Refs!Counted'
    BY <1>t, <1>c, <2>1 DEF Refs!Counted, Refs!TypeOK
  <2>3. Refs!NeverRevived' /\ Refs!Present' /\ Refs!Asking'
    BY <1>t, <1>i DEF Refs!TypeOK
  <2>4. QED
    BY <1>t, <2>2, <2>3 DEF Refs!IInv
<1>4. ASSUME NEW h \in Holders, Refs!Release(h) PROVE Refs!IInv'
  <2> USE <1>4 DEF Refs!Release
  <2>1. /\ Refs!IsFiniteSet(strong') /\ Refs!Cardinality(strong') = Refs!Cardinality(strong) - 1
        /\ Refs!Cardinality(strong') = 0 <=> strong' = {}
    BY <1>c, OneLess, NoneLeft
  <2>2. ref'.refs = Refs!Cardinality(strong') - 1 /\ ref'.weak_refs = ref.weak_refs
    BY <1>t, <1>c, <2>1 DEF Refs!TypeOK
  <2>3. pc' = [pc EXCEPT ![h] = IF strong' = {} THEN "destroy" ELSE "idle"]
    <3>1. ref'.refs = -1 <=> strong' = {}
      BY <1>c, <2>1, <2>2
    <3>2. QED
      BY <3>1, Zenon
  <2>4. Refs!Owned /\ Refs!Owned'
    BY <1>t, <2>3 DEF Refs!TypeOK
  <2>5. Refs!Counted'
    BY <1>c, <2>1, <2>2, <2>4 DEF Refs!Counted
  <2>6. Refs!NeverRevived' /\ Refs!Present' /\ Refs!Asking'
    BY <1>t, <1>i, <2>3 DEF Refs!TypeOK
  <2>7. QED
    BY <1>t, <2>5, <2>6 DEF Refs!IInv
<1>5. ASSUME NEW h \in Holders, Refs!WeakRelease(h) PROVE Refs!IInv'
  <2> USE <1>5 DEF Refs!WeakRelease, Refs!DropWeak
  <2>1. /\ Refs!IsFiniteSet(weak') /\ Refs!Cardinality(weak') = Refs!Cardinality(weak) - 1
        /\ Refs!Cardinality(weak') = 0 <=> weak' = {}
        /\ Refs!Cardinality(weak') \in Nat
    BY <1>c, OneLess, NoneLeft
  <2>2. ref'.refs = ref.refs /\ ref'.weak_refs = ref.weak_refs - 1
    BY <1>t DEF Refs!TypeOK
  <2>3. Refs!Counted'
    BY <1>t, <1>c, <2>1, <2>2 DEF Refs!Counted
  <2>4. ref'.weak_refs = -1 <=> weak' = {} /\ ~Refs!Owned
    BY <1>c, <2>1, <2>2
  <2>5. Refs!NeverRevived' /\ Refs!Present' /\ Refs!Asking'
    BY <1>t, <1>i, <2>4 DEF Refs!TypeOK
  <2>6. QED
    BY <1>t, <2>3, <2>5 DEF Refs!IInv
<1>6. ASSUME NEW h \in Holders, Refs!Unlist(h) PROVE Refs!IInv'
  <2> USE <1>6 DEF Refs!Unlist
  <2>1. Refs!Counted'
    BY <1>t, <1>c DEF Refs!Counted, Refs!TypeOK
  <2>2. Refs!NeverRevived' /\ Refs!Present' /\ Refs!Asking'
    BY <1>t, <1>i DEF Refs!TypeOK
  <2>3. QED
    BY <1>t, <2>1, <2>2 DEF Refs!IInv
<1>7. ASSUME NEW h \in Holders, Refs!Free(h) PROVE Refs!IInv'
  <2> USE <1>7 DEF Refs!Free
  <2>1. Refs!Counted'
    BY <1>t, <1>c DEF Refs!Counted, Refs!TypeOK
  <2>2. Refs!NeverRevived' /\ Refs!Present' /\ Refs!Asking'
    BY <1>t, <1>i DEF Refs!TypeOK
  <2>3. QED
    BY <1>t, <2>1, <2>2 DEF Refs!IInv
<1>8. ASSUME NEW h \in Holders, Refs!DropControl(h) PROVE Refs!IInv'
  <2> USE <1>8 DEF Refs!DropControl, Refs!DropWeak
  <2>1. Refs!Owned /\ ~Refs!Owned'
    BY <1>t, <1>i DEF Refs!TypeOK
  <2>2. ref'.refs = ref.refs /\ ref'.weak_refs = ref.weak_refs - 1
    BY <1>t DEF Refs!TypeOK
  <2>3. Refs!Counted'
    BY <1>c, <2>1, <2>2 DEF Refs!Counted
  <2>4. ref'.weak_refs = -1 <=> weak = {}
    BY <1>c, <2>1, <2>2
  <2>5. Refs!NeverRevived' /\ Refs!Present' /\ Refs!Asking'
    BY <1>t, <1>i, <2>1, <2>4 DEF Refs!TypeOK
  <2>6. QED
    BY <1>t, <2>3, <2>5 DEF Refs!IInv
<1>9. ASSUME NEW h \in Holders, Refs!Promote(h) PROVE Refs!IInv'
  <2> USE <1>9 DEF Refs!Promote
  <2>1. Refs!Counted'
    BY <1>t, <1>c DEF Refs!Counted, Refs!TypeOK
  <2>2. Refs!NeverRevived' /\ Refs!Present' /\ Refs!Asking'
    BY <1>t, <1>i DEF Refs!TypeOK
  <2>3. QED
    BY <1>t, <2>1, <2>2 DEF Refs!IInv
<1>10. ASSUME NEW h \in Holders, Refs!Find(h) PROVE Refs!IInv'
  <2> USE <1>10 DEF Refs!Find
  <2>1. Refs!Counted'
    BY <1>t, <1>c DEF Refs!Counted, Refs!TypeOK
  <2>2. Refs!NeverRevived' /\ Refs!Present' /\ Refs!Asking'
    BY <1>t, <1>i DEF Refs!TypeOK
  <2>3. QED
    BY <1>t, <2>1, <2>2 DEF Refs!IInv
<1>11. ASSUME NEW h \in Holders, Refs!Read(h) PROVE Refs!IInv'
  <2> USE <1>11 DEF Refs!Read, Refs!Unlock
  <2>1. Refs!Counted'
    BY <1>t, <1>c DEF Refs!Counted, Refs!TypeOK
  <2>2. Refs!NeverRevived' /\ Refs!Present' /\ Refs!Asking'
    BY <1>t, <1>i DEF Refs!TypeOK
  <2>3. QED
    BY <1>t, <2>1, <2>2 DEF Refs!IInv
<1>12. ASSUME NEW h \in Holders, Refs!Swap(h) PROVE Refs!IInv'
  <2> USE <1>12 DEF Refs!Swap, Refs!Granted, Refs!Unlock
  <2>1. CASE ref.refs = owners[h]
    <3>1. strong # {} /\ h \notin strong
      BY <1>i, <1>c, <2>1
    <3>2. Refs!IsFiniteSet(strong') /\ Refs!Cardinality(strong') = Refs!Cardinality(strong) + 1
      BY <1>c, <2>1, <3>1, OneMore
    <3>3. Refs!Counted'
      BY <1>t, <1>c, <2>1, <3>1, <3>2 DEF Refs!Counted, Refs!TypeOK
    <3>4. Refs!NeverRevived' /\ Refs!Present' /\ Refs!Asking'
      BY <1>t, <1>i, <2>1, <3>1 DEF Refs!TypeOK
    <3>5. QED
      BY <1>t, <3>3, <3>4 DEF Refs!IInv
  <2>2. CASE ref.refs # owners[h]
    <3>1. Refs!Counted'
      BY <1>t, <1>c, <2>2 DEF Refs!Counted, Refs!TypeOK
    <3>2. Refs!NeverRevived' /\ Refs!Present' /\ Refs!Asking'
      BY <1>t, <1>i, <2>2 DEF Refs!TypeOK
    <3>3. QED
      BY <1>t, <3>1, <3>2 DEF Refs!IInv
  <2>3. QED
    BY <2>1, <2>2
<1>13. QED
  BY <1>1, <1>2, <1>3, <1>4, <1>5, <1>6, <1>7, <1>8, <1>9, <1>10, <1>11, <1>12 DEF Refs!Next

\* Whatever machine is in focus, the invariant of the references is kept.
THEOREM RefsInvariant == Spec => []Refs!IInv
<1>1. Init => Refs!IInv
  BY RefsInit DEF Init
<1>2. Refs!IInv /\ [Next]_vars => Refs!IInv'
  <2>1. [Next]_vars => [Refs!Next]_refVars
    BY DEF Next, Objects, Raw, Encoded, vars, objectVars, refVars
  <2>2. QED
    BY <2>1, RefsStep
<1>3. QED
  BY <1>1, <1>2, PTL DEF Spec

\* A reference is only given to an object that nobody has begun to destroy, and
\* an object is destroyed once: obs_weak_ref_get_ref and the list of contexts.
THEOREM NeverRevivedHolds == Spec => []NeverRevived
<1>1. Refs!IInv => NeverRevived
  BY DEF Refs!IInv, NeverRevived
<1>2. QED
  BY <1>1, RefsInvariant, PTL

\* The object and its counters are there for all who may touch them, and for
\* nobody else: obs_source_release, obs_weak_source_release, bfree of both.
THEOREM FreedInTimeHolds == Spec => []FreedInTime
<1>1. Refs!IInv => Refs!FreedInTime
  <2> SUFFICES ASSUME Refs!IInv PROVE Refs!FreedInTime
    OBVIOUS
  <2> USE DEF Refs!IInv, Refs!Present, Refs!Asking, Refs!Owned, Refs!Destroying
  <2>1. \A h \in Holders : h \in weak \/ Refs!Destroying(h) \/ pc[h] \in {"read", "swap"} => control
    BY HoldersAssumption DEF Refs!None
  <2>2. QED
    BY <2>1 DEF Refs!FreedInTime
<1>2. Refs!IInv => FreedInTime
  BY <1>1 DEF FreedInTime
<1>3. QED
  BY <1>2, RefsInvariant, PTL

----------------------------------------------------------------------------
(* Signals.                                                                *)

\* The instance counts as the library does, here too.
LEMMA CountOfSignals ==
  \A S : (Signals!IsFiniteSet(S) <=> IsFiniteSet(S)) /\ Signals!Cardinality(S) = Cardinality(S)
<1>1. \A S : Signals!IsFiniteSet(S) <=> IsFiniteSet(S)
  BY DEF IsFiniteSet, Signals!IsFiniteSet
<1>2. \A S : Signals!Cardinality(S) = Cardinality(S)
  BY DEF Cardinality, Signals!Cardinality
<1>3. QED
  BY <1>1, <1>2

\* An entry of the list, and a loop over it.
Entries == [callback : Callbacks, remove : BOOLEAN]

Loop == [i : Nat \ {0}, calling : BOOLEAN, due : SUBSET Callbacks, nested : BOOLEAN]

\* What is left of the list was in it.
LEMMA KeepLeaves ==
  ASSUME callbacks \in Seq(Entries), NEW rest \in SUBSET (DOMAIN callbacks),
         Signals!Keep(rest)
  PROVE  /\ callbacks' \in Seq(Entries)
         /\ \A k \in DOMAIN callbacks' : \E i \in rest : callbacks'[k] = callbacks[i]
<1>1. IsFiniteSet(rest)
  <2>1. DOMAIN callbacks = 1 .. Len(callbacks) /\ Len(callbacks) \in Nat
    OBVIOUS
  <2>2. IsFiniteSet(1 .. Len(callbacks))
    BY <2>1, FS_Interval
  <2> QED
    BY <2>1, <2>2, FS_Subset
<1> DEFINE n == Cardinality(rest)
<1>2. n \in Nat /\ Signals!Cardinality(rest) = n
  BY <1>1, CountOfSignals, FS_CardinalityType
<1> HIDE DEF n
<1>3. PICK at \in [1 .. n -> rest] : callbacks' = [k \in DOMAIN at |-> callbacks[at[k]]]
  BY <1>2 DEF Signals!Keep
<1>4. callbacks' = [k \in 1 .. n |-> callbacks[at[k]]]
  BY <1>3
<1>5. \A k \in 1 .. n : at[k] \in rest /\ callbacks[at[k]] \in Entries
  BY <1>3
<1>6. callbacks' \in [1 .. n -> Entries]
  BY <1>4, <1>5
<1>7. callbacks' \in Seq(Entries)
  BY <1>2, <1>6
<1> QED
  BY <1>4, <1>5, <1>7

\* The innermost loop, and what becomes of it.
LEMMA InnerLoop ==
  ASSUME loops \in Seq(Loop), loops # <<>>
  PROVE  /\ Len(loops) \in Nat \ {0} /\ Signals!Inner = loops[Len(loops)]
         /\ Signals!Inner \in Loop
<1>1. Len(loops) \in Nat \ {0}
  OBVIOUS
<1> QED
  BY <1>1 DEF Signals!Inner, Signals!Last

\* What the steps make of the innermost loop.
LEMMA InnerSet ==
  ASSUME loops \in Seq(Loop), loops # <<>>, NEW l \in Loop, Signals!SetInner(l)
  PROVE  /\ loops' \in Seq(Loop) /\ loops' # <<>> /\ Len(loops') = Len(loops)
         /\ Signals!Inner' = l
<1>1. Len(loops) \in 1 .. Len(loops)
  OBVIOUS
<1>2. loops' \in Seq(Loop) /\ Len(loops') = Len(loops) /\ loops'[Len(loops)] = l
  BY <1>1 DEF Signals!SetInner
<1> QED
  BY <1>1, <1>2 DEF Signals!Inner, Signals!Last

LEMMA InnerPushed ==
  ASSUME loops \in Seq(Loop), NEW l \in Loop, loops' = Append(loops, l)
  PROVE  /\ loops' \in Seq(Loop) /\ loops' # <<>> /\ Len(loops') # Len(loops)
         /\ Signals!Inner' = l
<1>1. loops' \in Seq(Loop) /\ Len(loops') = Len(loops) + 1 /\ loops'[Len(loops) + 1] = l
  OBVIOUS
<1>2. Len(loops) \in Nat
  OBVIOUS
<1> QED
  BY <1>1, <1>2 DEF Signals!Inner, Signals!Last

LEMMA InnerUndue ==
  ASSUME loops \in Seq(Loop), NEW c \in Callbacks, loops' = Signals!Undue(c)
  PROVE  /\ loops' \in Seq(Loop) /\ Len(loops') = Len(loops)
         /\ loops # <<>> => Signals!Inner' = [Signals!Inner EXCEPT !.due = @ \ {c}]
<1>1. loops' = [k \in 1 .. Len(loops) |-> [loops[k] EXCEPT !.due = @ \ {c}]]
  BY DEF Signals!Undue
<1>2. ASSUME NEW k \in 1 .. Len(loops)
      PROVE  [loops[k] EXCEPT !.due = @ \ {c}] \in Loop
  <2>1. loops[k] \in Loop
    OBVIOUS
  <2> QED
    BY <2>1 DEF Loop
<1>3. Len(loops) \in Nat
  OBVIOUS
<1>4. loops' \in [1 .. Len(loops) -> Loop]
  BY <1>1, <1>2
<1>5. loops' \in Seq(Loop) /\ Len(loops') = Len(loops)
  BY <1>3, <1>4
<1>6. loops # <<>> => Len(loops) \in 1 .. Len(loops)
  OBVIOUS
<1> QED
  BY <1>1, <1>5, <1>6 DEF Signals!Inner, Signals!Last

\* Sequences without their last element, empty, or changed at one place.
LEMMA FrontLeaves ==
  ASSUME NEW S, NEW s \in Seq(S), s # <<>>
  PROVE  /\ SubSeq(s, 1, Len(s) - 1) \in Seq(S)
         /\ Len(SubSeq(s, 1, Len(s) - 1)) = Len(s) - 1
<1>1. Len(s) \in Nat /\ Len(s) # 0
  OBVIOUS
<1>2. \A n \in Nat : n # 0 => n = 1 \/ n > 1
  OBVIOUS
<1>3. CASE Len(s) = 1
  <2>1. SubSeq(s, 1, Len(s) - 1) = <<>>
    BY <1>3
  <2> QED
    BY <1>3, <2>1
<1>4. CASE Len(s) > 1
  BY <1>1, <1>4
<1> QED
  BY <1>1, <1>2, <1>3, <1>4, Zenon

LEMMA NoLength ==
  ASSUME NEW S, NEW s \in Seq(S) PROVE s = <<>> <=> Len(s) = 0
  OBVIOUS

LEMMA OneChanged ==
  ASSUME NEW S, NEW s \in Seq(S), NEW k \in 1 .. Len(s), NEW e \in S
  PROVE  [s EXCEPT ![k] = e] \in Seq(S) /\ Len([s EXCEPT ![k] = e]) = Len(s)
  OBVIOUS

LEMMA InnerEnds ==
  ASSUME loops \in Seq(Loop), loops # <<>>, NEW outer, outer = Signals!Front(loops),
         loops' = IF outer = <<>> THEN <<>>
                  ELSE [outer EXCEPT ![Len(outer)] = [@ EXCEPT !.nested = TRUE]]
  PROVE  /\ loops' \in Seq(Loop) /\ Len(loops') # Len(loops)
         /\ loops' = <<>> <=> Len(loops) = 1
         /\ loops' # <<>> => Signals!Inner'.nested
<1>1. /\ outer \in Seq(Loop) /\ Len(outer) = Len(loops) - 1
      /\ Len(loops) \in Nat \ {0} /\ (outer = <<>> <=> Len(outer) = 0)
  <2>1. outer \in Seq(Loop) /\ Len(outer) = Len(loops) - 1
    BY FrontLeaves, Zenon DEF Signals!Front
  <2>2. Len(loops) \in Nat \ {0}
    OBVIOUS
  <2> QED
    BY <2>1, <2>2, NoLength
<1>3. CASE outer = <<>>
  BY <1>1, <1>3
<1>4. CASE outer # <<>>
  <2>1. Len(outer) \in 1 .. Len(outer) /\ outer[Len(outer)] \in Loop
    BY <1>1, <1>4
  <2>2. [outer[Len(outer)] EXCEPT !.nested = TRUE] \in Loop
    BY <2>1 DEF Loop
  <2>3. loops' = [outer EXCEPT ![Len(outer)] = [outer[Len(outer)] EXCEPT !.nested = TRUE]]
    BY <1>4
  <2> DEFINE ended == [outer[Len(outer)] EXCEPT !.nested = TRUE]
  <2>A. ended \in Loop /\ loops' = [outer EXCEPT ![Len(outer)] = ended]
    BY <2>2, <2>3
  <2> HIDE DEF ended
  <2>4. loops' \in Seq(Loop) /\ Len(loops') = Len(outer)
    BY <1>1, <2>1, <2>A, OneChanged
  <2>5. loops'[Len(loops')].nested
    BY <1>1, <2>1, <2>3, <2>4 DEF Loop
  <2>6. loops' # <<>>
    BY <1>1, <1>4, <2>4
  <2> QED
    BY <1>1, <1>4, <2>4, <2>5, <2>6 DEF Signals!Inner, Signals!Last
<1> QED
  BY <1>3, <1>4

\* A step that calls c finds it wanted.
CalledIsWanted ==
  \A c \in Callbacks :
    (Len(loops') = Len(loops) /\ loops # <<>> /\ Signals!Inner'.calling /\ ~Signals!Inner.calling
     /\ callbacks[Signals!Inner.i].callback = c) => c \in wanted

LEMMA SignalsInit == Signals!Init => Signals!IInv
<1> SUFFICES ASSUME Signals!Init PROVE Signals!IInv
  OBVIOUS
<1>1. callbacks = <<>> /\ loops = <<>> /\ wanted = {} /\ signalling = FALSE /\ owner = Signals!None
  BY DEF Signals!Init
<1>2. Signals!TypeOK
  <2>1. \A S : <<>> \in Seq(S)
    OBVIOUS
  <2> QED
    BY <1>1, <2>1, Zenon DEF Signals!TypeOK
<1>3. Signals!Live = {}
  BY <1>1 DEF Signals!Live
<1> QED
  BY <1>1, <1>2, <1>3 DEF Signals!IInv, Signals!Locked, Signals!Ahead

\* What the invariant says of the list and of the loops, and how it is put
\* together again.
LEMMA SignalsTyped ==
  ASSUME Signals!IInv
  PROVE  /\ callbacks \in Seq(Entries) /\ loops \in Seq(Loop)
         /\ signalling \in BOOLEAN /\ owner \in Signallers \cup {Signals!None}
         /\ wanted \subseteq Callbacks
         /\ \A k \in DOMAIN callbacks : callbacks[k] \in Entries
         /\ \A k \in DOMAIN callbacks : callbacks[k].remove \/ callbacks[k].callback \in wanted
<1>1. /\ callbacks \in Seq(Entries) /\ loops \in Seq(Loop)
      /\ signalling \in BOOLEAN /\ owner \in Signallers \cup {Signals!None}
      /\ wanted \subseteq Callbacks
  BY Zenon DEF Signals!IInv, Signals!TypeOK, Entries, Loop
<1>2. \A k \in DOMAIN callbacks : callbacks[k] \in Entries
  BY <1>1
<1>3. \A k \in DOMAIN callbacks : callbacks[k].remove \/ callbacks[k].callback \in wanted
  BY DEF Signals!IInv, Signals!Live
<1> QED
  BY <1>1, <1>2, <1>3

LEMMA SignalsRebuilt ==
  ASSUME callbacks' \in Seq(Entries), loops' \in Seq(Loop),
         signalling' \in BOOLEAN, owner' \in Signallers \cup {Signals!None},
         wanted' \subseteq Callbacks, Signals!Locked', Signals!Ahead',
         \A k \in DOMAIN callbacks' : callbacks'[k].remove \/ callbacks'[k].callback \in wanted'
  PROVE  Signals!IInv'
  BY DEF Signals!IInv, Signals!TypeOK, Entries, Loop, Signals!Live

LEMMA SameInner == loops' = loops => Signals!Inner' = Signals!Inner
  BY DEF Signals!Inner, Signals!Last

\* Every operation keeps the invariant, and calls only what is wanted.
LEMMA ConnectKeeps ==
  ASSUME Signals!IInv, NEW t \in Signallers, NEW c \in Callbacks,
         Signals!signal_handler_connect(t, c)
  PROVE  Signals!IInv' /\ CalledIsWanted
<1> USE SignalsTyped
<1>1. /\ wanted' = wanted \cup {c} /\ signalling' = signalling /\ owner' = owner
      /\ loops' = loops /\ Signals!Inner' = Signals!Inner
  BY SameInner DEF Signals!signal_handler_connect
<1>2. /\ callbacks' \in Seq(Entries)
      /\ \A k \in DOMAIN callbacks : k \in DOMAIN callbacks' /\ callbacks'[k] = callbacks[k]
      /\ \A k \in DOMAIN callbacks' : k \in DOMAIN callbacks \/ callbacks'[k].callback = c
  <2>1. CASE callbacks' = callbacks
    BY <2>1
  <2>2. CASE callbacks' = Append(callbacks, Signals!Entry(c))
    BY <2>2 DEF Signals!Entry, Entries
  <2> QED
    BY <2>1, <2>2 DEF Signals!signal_handler_connect
<1>3. Signals!Locked'
  BY <1>1 DEF Signals!IInv, Signals!Locked
<1>4. Signals!Ahead'
  BY <1>1, <1>2 DEF Signals!IInv, Signals!Ahead
<1>5. \A k \in DOMAIN callbacks' : callbacks'[k].remove \/ callbacks'[k].callback \in wanted'
  BY <1>1, <1>2
<1> QED
  BY <1>1, <1>2, <1>3, <1>4, <1>5, SignalsRebuilt DEF CalledIsWanted

LEMMA DisconnectKeeps ==
  ASSUME Signals!IInv, NEW t \in Signallers, NEW c \in Callbacks,
         Signals!signal_handler_disconnect(t, c)
  PROVE  Signals!IInv' /\ CalledIsWanted
<1> USE SignalsTyped
<1>1. /\ wanted' = wanted \ {c} /\ signalling' = signalling /\ owner' = owner
      /\ loops' = Signals!Undue(c)
  BY DEF Signals!signal_handler_disconnect
<1>2. /\ loops' \in Seq(Loop) /\ Len(loops') = Len(loops) /\ (loops' = <<>> <=> loops = <<>>)
      /\ loops # <<>> => Signals!Inner' = [Signals!Inner EXCEPT !.due = @ \ {c}]
  BY <1>1, InnerUndue, NoLength
<1>3. CASE signalling
  <2>1. callbacks' = [k \in DOMAIN callbacks |->
                        IF callbacks[k].callback = c THEN [callbacks[k] EXCEPT !.remove = TRUE]
                                                     ELSE callbacks[k]]
    BY <1>3 DEF Signals!signal_handler_disconnect, Signals!Indices
  <2>2. /\ DOMAIN callbacks' = DOMAIN callbacks
        /\ \A k \in DOMAIN callbacks : callbacks'[k] \in Entries
    BY <2>1 DEF Entries
  <2>3. callbacks' \in Seq(Entries)
    BY <2>1, <2>2
  <2>4. \A k \in DOMAIN callbacks :
          \/ callbacks[k].callback = c /\ callbacks'[k].remove
          \/ callbacks[k].callback # c /\ callbacks'[k] = callbacks[k]
    BY <2>1 DEF Entries
  <2>5. Signals!Ahead'
    <3>1. CASE loops = <<>>
      BY <1>2, <3>1 DEF Signals!Ahead
    <3>2. CASE loops # <<>>
      <4>1. /\ Signals!Inner'.i = Signals!Inner.i /\ Signals!Inner'.calling = Signals!Inner.calling
            /\ Signals!Inner'.nested = Signals!Inner.nested
            /\ Signals!Inner'.due = Signals!Inner.due \ {c}
        BY <1>2, <3>2, InnerLoop DEF Loop
      <4> QED
        BY <1>1, <2>2, <2>4, <3>2, <4>1 DEF Signals!IInv, Signals!Ahead
    <3> QED
      BY <3>1, <3>2
  <2> QED
    BY <1>1, <1>2, <2>2, <2>3, <2>4, <2>5, SignalsRebuilt, InnerLoop
       DEF CalledIsWanted, Signals!IInv, Signals!Locked, Loop
<1>4. CASE ~signalling
  <2>1. Signals!Keep(DOMAIN callbacks \ Signals!Indices(c))
    BY <1>4 DEF Signals!signal_handler_disconnect
  <2>2. /\ callbacks' \in Seq(Entries)
        /\ \A k \in DOMAIN callbacks' :
             \E i \in DOMAIN callbacks \ Signals!Indices(c) : callbacks'[k] = callbacks[i]
    BY <2>1, KeepLeaves
  <2>3. \A k \in DOMAIN callbacks' : callbacks'[k].remove \/ callbacks'[k].callback \in wanted'
    BY <1>1, <2>2 DEF Signals!Indices
  <2>4. Signals!Ahead'
    BY <1>1, <1>2, <1>4, InnerLoop DEF Signals!IInv, Signals!Ahead, Loop
  <2> QED
    BY <1>1, <1>2, <2>2, <2>3, <2>4, SignalsRebuilt, InnerLoop
       DEF CalledIsWanted, Signals!IInv, Signals!Locked, Loop
<1> QED
  BY <1>3, <1>4

LEMMA SignalKeeps ==
  ASSUME Signals!IInv, NEW t \in Signallers, Signals!Signal(t)
  PROVE  Signals!IInv' /\ CalledIsWanted
<1> USE SignalsTyped
<1> DEFINE l == [i |-> 1, calling |-> FALSE, due |-> wanted \cap Signals!Live, nested |-> FALSE]
<1>1. /\ callbacks' = callbacks /\ wanted' = wanted /\ signalling' = TRUE /\ owner' = t
      /\ loops' = Append(loops, l)
  BY DEF Signals!Signal
<1>2. l \in Loop
  BY DEF Loop
<1>3. /\ loops' \in Seq(Loop) /\ loops' # <<>> /\ Len(loops') # Len(loops)
      /\ Signals!Inner' = l
  BY <1>1, <1>2, InnerPushed
<1>4. Signals!Locked'
  BY <1>1, <1>3, SignallersAssumption DEF Signals!Locked, Signals!None
<1>5. Signals!Ahead'
  BY <1>1, <1>3 DEF Signals!Ahead, Signals!Live
<1> QED
  BY <1>1, <1>3, <1>4, <1>5, SignalsRebuilt DEF CalledIsWanted

LEMMA CallKeeps ==
  ASSUME Signals!IInv, Signals!Call
  PROVE  Signals!IInv' /\ CalledIsWanted
<1> USE SignalsTyped
<1> DEFINE I == Signals!Inner
<1>1. /\ callbacks' = callbacks /\ wanted' = wanted /\ signalling' = signalling /\ owner' = owner
      /\ loops # <<>> /\ ~I.calling /\ I.i <= Len(callbacks)
  BY DEF Signals!Call, Signals!Looping, Signals!IInv, Signals!Locked
<1>2. I \in Loop /\ I.i \in DOMAIN callbacks
  BY <1>1, InnerLoop DEF Loop
<1>3. CASE callbacks[I.i].remove
  <2> DEFINE l == [I EXCEPT !.i = @ + 1]
  <2>1. l \in Loop /\ Signals!SetInner(l)
    BY <1>2, <1>3 DEF Signals!Call, Loop
  <2>2. /\ loops' \in Seq(Loop) /\ loops' # <<>> /\ Len(loops') = Len(loops)
        /\ Signals!Inner' = l
    BY <1>1, <2>1, InnerSet
  <2>3. l.i = I.i + 1 /\ l.calling = I.calling /\ l.due = I.due /\ l.nested = I.nested
    BY <1>2 DEF Loop
  <2>4. Signals!Ahead'
    BY <1>1, <1>2, <1>3, <2>2, <2>3 DEF Signals!IInv, Signals!Ahead, Loop
  <2> QED
    BY <1>1, <2>2, <2>3, <2>4, SignalsRebuilt DEF CalledIsWanted, Signals!IInv, Signals!Locked
<1>4. CASE ~callbacks[I.i].remove
  <2> DEFINE l == [I EXCEPT !.calling = TRUE, !.due = @ \ {callbacks[I.i].callback}]
  <2>1. l \in Loop /\ Signals!SetInner(l)
    BY <1>2, <1>4 DEF Signals!Call, Loop
  <2>2. /\ loops' \in Seq(Loop) /\ loops' # <<>> /\ Len(loops') = Len(loops)
        /\ Signals!Inner' = l
    BY <1>1, <2>1, InnerSet
  <2>3. /\ l.i = I.i /\ l.calling = TRUE /\ l.nested = I.nested
        /\ l.due = I.due \ {callbacks[I.i].callback}
    BY <1>2 DEF Loop
  <2>4. Signals!Ahead'
    BY <1>1, <1>2, <1>4, <2>2, <2>3 DEF Signals!IInv, Signals!Ahead, Loop
  <2> QED
    BY <1>1, <1>2, <1>4, <2>2, <2>3, <2>4, SignalsRebuilt
       DEF CalledIsWanted, Signals!IInv, Signals!Locked
<1> QED
  BY <1>3, <1>4

LEMMA ReturnedKeeps ==
  ASSUME Signals!IInv, Signals!Returned
  PROVE  Signals!IInv' /\ CalledIsWanted
<1> USE SignalsTyped
<1> DEFINE I == Signals!Inner
           l == [I EXCEPT !.calling = FALSE, !.i = @ + 1]
<1>1. /\ callbacks' = callbacks /\ wanted' = wanted /\ signalling' = signalling /\ owner' = owner
      /\ loops # <<>> /\ I.calling /\ Signals!SetInner(l)
  BY DEF Signals!Returned, Signals!IInv, Signals!Locked
<1>2. I \in Loop
  BY <1>1, InnerLoop
<1>3. l \in Loop /\ l.i = I.i + 1 /\ l.calling = FALSE /\ l.due = I.due /\ l.nested = I.nested
  <2>1. I.i + 1 \in Nat \ {0}
    BY <1>2 DEF Loop
  <2>2. \A n \in Nat \ {0} : [I EXCEPT !.calling = FALSE, !.i = n] \in Loop
    BY <1>2 DEF Loop
  <2>3. /\ l.i = I.i + 1 /\ l.calling = FALSE /\ l.due = I.due /\ l.nested = I.nested
    BY <1>2 DEF Loop
  <2> QED
    BY <2>1, <2>2, <2>3
<1>4. /\ loops' \in Seq(Loop) /\ loops' # <<>> /\ Len(loops') = Len(loops)
      /\ Signals!Inner' = l
  BY <1>1, <1>3, InnerSet
<1>5. Signals!Ahead'
  BY <1>1, <1>2, <1>3, <1>4 DEF Signals!IInv, Signals!Ahead, Loop
<1> QED
  BY <1>1, <1>3, <1>4, <1>5, SignalsRebuilt DEF CalledIsWanted, Signals!IInv, Signals!Locked

LEMMA FinishKeeps ==
  ASSUME Signals!IInv, Signals!Finish
  PROVE  Signals!IInv' /\ CalledIsWanted
<1> USE SignalsTyped
<1>1. /\ wanted' = wanted /\ signalling' = FALSE /\ loops # <<>> /\ owner # Signals!None
      /\ owner' = IF Len(loops) = 1 THEN Signals!None ELSE owner
  BY DEF Signals!Finish, Signals!Looping, Signals!IInv, Signals!Locked
<1>2. /\ loops' \in Seq(Loop) /\ Len(loops') # Len(loops)
      /\ loops' = <<>> <=> Len(loops) = 1
      /\ loops' # <<>> => Signals!Inner'.nested
  BY <1>1, InnerEnds DEF Signals!Finish
<1>3. Signals!Keep({i \in DOMAIN callbacks : ~callbacks[i].remove})
  BY DEF Signals!Finish
<1>4. /\ callbacks' \in Seq(Entries)
      /\ \A k \in DOMAIN callbacks' :
           \E i \in {j \in DOMAIN callbacks : ~callbacks[j].remove} : callbacks'[k] = callbacks[i]
  BY <1>3, KeepLeaves
<1>5. \A k \in DOMAIN callbacks' : callbacks'[k].remove \/ callbacks'[k].callback \in wanted'
  BY <1>1, <1>4
<1>6. Signals!Locked' /\ Signals!Ahead'
  BY <1>1, <1>2 DEF Signals!Locked, Signals!Ahead
<1> QED
  BY <1>1, <1>2, <1>4, <1>5, <1>6, SignalsRebuilt DEF CalledIsWanted

LEMMA SignalsStep == Signals!IInv /\ Signals!Next => Signals!IInv' /\ CalledIsWanted
  BY ConnectKeeps, DisconnectKeeps, SignalKeeps, CallKeeps, ReturnedKeeps, FinishKeeps
     DEF Signals!Next

\* Whatever machine is in focus, the invariant of the signal is kept.
THEOREM SignalsInvariant == Spec => []Signals!IInv
<1>1. Init => Signals!IInv
  BY SignalsInit DEF Init
<1>2. Signals!IInv /\ [Next]_vars => Signals!IInv'
  <2>1. [Next]_vars => Signals!Next \/ UNCHANGED signalVars
    BY DEF Next, Objects, Raw, Encoded, vars, objectVars
  <2>2. Signals!IInv /\ UNCHANGED signalVars => Signals!IInv'
    BY DEF signalVars, Signals!IInv, Signals!TypeOK, Signals!Locked, Signals!Live, Signals!Ahead,
           Signals!Inner, Signals!Last
  <2> QED
    BY <2>1, <2>2, SignalsStep
<1> QED
  BY <1>1, <1>2, PTL DEF Spec

\* Once signal_handler_disconnect has returned nobody calls the callback, from
\* however deep inside other signals: signal_handler_signal passes over what is
\* marked, and only what is wanted is not.
THEOREM NeverCalledAfterHolds == Spec => NeverCalledAfter
<1>1. Signals!IInv /\ [Next]_vars => [CalledIsWanted]_(Signals!vars)
  <2>1. [Next]_vars => Signals!Next \/ UNCHANGED signalVars
    BY DEF Next, Objects, Raw, Encoded, vars, objectVars
  <2>2. UNCHANGED signalVars => UNCHANGED Signals!vars
    BY DEF signalVars, Signals!vars
  <2> QED
    BY <2>1, <2>2, SignalsStep
<1> QED
  BY <1>1, SignalsInvariant, PTL DEF Spec, NeverCalledAfter, Signals!NeverCalledAfter, CalledIsWanted

\* A signal calls everyone who was connected when it began and stayed so, unless
\* another signal ended inside it: its due callbacks are ahead of it in the list.
THEOREM EveryoneIsCalledHolds == Spec => []EveryoneIsCalled
<1>1. Signals!IInv => Signals!EveryoneIsCalled
  <2> SUFFICES ASSUME Signals!IInv, Signals!Looping, Signals!Inner.i > Len(callbacks),
                      ~Signals!Inner.nested
               PROVE  Signals!Inner.due = {}
    BY DEF Signals!EveryoneIsCalled
  <2>1. /\ callbacks \in Seq(Entries) /\ loops \in Seq(Loop) /\ loops # <<>>
    BY SignalsTyped DEF Signals!IInv, Signals!Locked, Signals!Looping
  <2>2. Signals!Inner \in Loop
    BY <2>1, InnerLoop
  <2>3. \A c \in Signals!Inner.due : \E i \in DOMAIN callbacks : i >= Signals!Inner.i
    BY <2>1 DEF Signals!IInv, Signals!Ahead
  <2>4. \A i \in DOMAIN callbacks : ~(i >= Signals!Inner.i)
    BY <2>1, <2>2 DEF Loop
  <2> QED
    BY <2>2, <2>3, <2>4 DEF Loop
<1>2. Signals!IInv => EveryoneIsCalled
  BY <1>1 DEF EveryoneIsCalled
<1> QED
  BY <1>2, SignalsInvariant, PTL

----------------------------------------------------------------------------
(* The media source: what is left of the calls, then the steps of the      *)
(* thread and of the calls, one by one.                                    *)

Steps == {"update", "free", "kill", "join", "reopen", "open", "valid", "play", "updated",
          "refs", "stop", "tick", "closed"}
Ends  == {"play", "tick", "closed"}

LEMMA StepsOfCalls ==
  /\ Playing!Ops = Steps
  /\ Playing!After["update"] = {"updated"} /\ Playing!After["free"] = {"reopen", "closed"}
  /\ Playing!After["kill"] = {"join"} /\ Playing!After["join"] = {"reopen", "closed"}
  /\ Playing!After["reopen"] = {"updated"} /\ Playing!After["open"] = {"open", "play", "updated"}
  /\ Playing!After["valid"] = {"open", "play", "updated"}
  /\ Playing!After["play"] = {"updated", "tick"} /\ Playing!After["updated"] = {"refs"}
  /\ Playing!After["refs"] = {"tick"} /\ Playing!After["stop"] = {"tick"}
  /\ Playing!After["tick"] = {} /\ Playing!After["closed"] = {}
BY DEF Playing!Ops, Playing!After, Steps

InOrder(s) == /\ \A i \in 1..(Len(s) - 1) : s[i + 1] \in Playing!After[s[i]]
              /\ s # <<>> => s[Len(s)] \in Ends

TodoOK == /\ media_todo \in [{"graphics", "hotkey"} -> Seq(Steps)]
          /\ \A c \in {"graphics", "hotkey"} : InOrder(media_todo[c])
          /\ \A i \in DOMAIN media_todo["hotkey"] :
               media_todo["hotkey"][i] \in {"open", "valid", "play"}

LEMMA Spliced ==
  ASSUME NEW t \in Seq(Steps), t # <<>>, InOrder(t), NEW s \in Seq(Steps)
  PROVE  LET u == s \o Tail(t)
         IN  /\ u \in Seq(Steps) /\ Len(u) = Len(s) + Len(t) - 1
             /\ \A i \in 1..Len(s) : u[i] = s[i]
             /\ \A i \in 1..(Len(t) - 1) : u[Len(s) + i] = t[i + 1]
  OBVIOUS

\* Replacing the first step of a call by others.
LEMMA SplicedInOrder ==
  ASSUME NEW t \in Seq(Steps), t # <<>>, InOrder(t), NEW s \in Seq(Steps),
         s # <<>> => /\ \A i \in 1..(Len(s) - 1) : s[i + 1] \in Playing!After[s[i]]
                     /\ Playing!After[t[1]] \subseteq Playing!After[s[Len(s)]]
                     /\ t[1] \in Ends => s[Len(s)] \in Ends
  PROVE  InOrder(s \o Tail(t))
<1> DEFINE u == s \o Tail(t)
           n == Len(s)
           m == Len(t)
<1>1. /\ u \in Seq(Steps) /\ Len(u) = n + m - 1 /\ n \in Nat /\ m \in Nat \ {0}
      /\ \A i \in 1..n : u[i] = s[i]
      /\ \A i \in 1..(m - 1) : u[n + i] = t[i + 1]
  BY Spliced
<1>2. \A i \in 1..(m - 1) : t[i + 1] \in Playing!After[t[i]]
  BY DEF InOrder
<1>3. t[m] \in Ends
  BY DEF InOrder
<1>4. s # <<>> => n >= 1
  OBVIOUS
<1>5. s = <<>> => n = 0
  OBVIOUS
<1> HIDE DEF u, n, m
<1>6. ASSUME NEW i \in 1..(Len(u) - 1) PROVE u[i + 1] \in Playing!After[u[i]]
  <2>1. CASE i < n
    <3>1. i \in 1..(n - 1) /\ u[i] = s[i] /\ u[i + 1] = s[i + 1] /\ s # <<>>
      BY <1>1, <1>5, <2>1
    <3> QED
      BY <3>1 DEF n
  <2>2. CASE i = n
    <3>1. u[i] = s[n] /\ u[i + 1] = t[2] /\ s # <<>> /\ 1 \in 1..(m - 1)
      BY <1>1, <1>5, <1>6, <2>2
    <3>2. t[2] \in Playing!After[t[1]]
      BY <1>2, <3>1
    <3> QED
      BY <3>1, <3>2 DEF n
  <2>3. CASE n < i
    <3> DEFINE j == i - n
    <3>1. j \in 1..(m - 1) /\ j + 1 \in 1..(m - 1) /\ i = n + j /\ i + 1 = n + (j + 1)
      BY <1>1, <1>6, <2>3
    <3> HIDE DEF j
    <3>2. u[i] = t[j + 1] /\ u[i + 1] = t[(j + 1) + 1]
      BY <1>1, <3>1
    <3> QED
      BY <1>2, <3>1, <3>2
  <2> QED
    BY <1>1, <2>1, <2>2, <2>3
<1>7. ASSUME u # <<>> PROVE u[Len(u)] \in Ends
  <2>1. Len(u) # 0
    BY <1>1, <1>7
  <2>2. CASE m = 1
    <3>1. n >= 1 /\ u[Len(u)] = s[n] /\ s # <<>>
      BY <1>1, <1>5, <2>1, <2>2
    <3> QED
      BY <1>3, <2>2, <3>1 DEF n
  <2>3. CASE m > 1
    <3>1. m - 1 \in 1..(m - 1) /\ n + (m - 1) = Len(u) /\ (m - 1) + 1 = m
      BY <1>1, <2>3
    <3>2. u[n + (m - 1)] = t[(m - 1) + 1]
      BY <1>1, <3>1
    <3> QED
      BY <1>3, <3>1, <3>2
  <2> QED
    BY <1>1, <2>2, <2>3
<1> QED
  BY <1>6, <1>7 DEF InOrder, u

LEMMA CallParts == Playing!TypeOK /\ Playing!Calling => TodoOK
  BY StepsOfCalls DEF Playing!TypeOK, Playing!Calling, Playing!Callers, Playing!Idle, TodoOK,
     InOrder, Ends

\* The first step c is in, and the one after it.
LEMMA CallGoesOn ==
  ASSUME TodoOK, NEW c \in {"graphics", "hotkey"}, NEW op, Playing!At(c, op),
         NEW s \in Seq(Steps), Playing!Then(c, s),
         s # <<>> => /\ \A i \in 1..(Len(s) - 1) : s[i + 1] \in Playing!After[s[i]]
                     /\ Playing!After[op] \subseteq Playing!After[s[Len(s)]]
                     /\ op \in Ends => s[Len(s)] \in Ends,
         c = "hotkey" => \A i \in DOMAIN s : s[i] \in {"open", "valid", "play"}
  PROVE  /\ TodoOK'
         /\ \A d \in {"graphics", "hotkey"} \ {c} : media_todo'[d] = media_todo[d]
         /\ media_todo'[c] = s \o Tail(media_todo[c])
<1> DEFINE t == media_todo[c]
           u == s \o Tail(t)
<1>1. t \in Seq(Steps) /\ t # <<>> /\ t[1] = op /\ InOrder(t)
  BY DEF TodoOK, Playing!At, Playing!Idle
<1>2. /\ media_todo' \in [{"graphics", "hotkey"} -> Seq(Steps)]
      /\ \A d \in {"graphics", "hotkey"} \ {c} : media_todo'[d] = media_todo[d]
      /\ media_todo'[c] = u
  BY <1>1 DEF TodoOK, Playing!Then
<1>3. InOrder(u)
  BY <1>1, SplicedInOrder
<1>4. c = "hotkey" => \A i \in DOMAIN u : u[i] \in {"open", "valid", "play"}
  BY <1>1, Spliced DEF TodoOK
<1> HIDE DEF u
<1>5. \A d \in {"graphics", "hotkey"} : InOrder(media_todo'[d])
  BY <1>2, <1>3 DEF TodoOK
<1>6. TodoOK'
  BY <1>2, <1>4, <1>5 DEF TodoOK, InOrder, Playing!After, Ends
<1> QED
  BY <1>2, <1>6 DEF u

LEMMA OtherCall ==
  ASSUME NEW d, media_todo'[d] = media_todo[d]
  PROVE  /\ Playing!Idle(d)' <=> Playing!Idle(d)
         /\ \A x : Playing!At(d, x)' <=> Playing!At(d, x)
         /\ Playing!WillPlay(d)' <=> Playing!WillPlay(d)
  BY DEF Playing!Idle, Playing!At, Playing!WillPlay

\* The step is done, and the next one of the call begins, if there is one.
LEMMA StepDone ==
  ASSUME TodoOK, NEW c \in {"graphics", "hotkey"}, NEW op \in Steps, Playing!At(c, op),
         Playing!Then(c, <<>>)
  PROVE  /\ TodoOK'
         /\ \A d \in {"graphics", "hotkey"} \ {c} : media_todo'[d] = media_todo[d]
         /\ \A x : Playing!At(c, x)' => x \in Playing!After[op]
         /\ op \notin Ends => \E x \in Playing!After[op] : Playing!At(c, x)'
         /\ Playing!WillPlay(c) => Playing!At(c, "play")'
<1> DEFINE t == media_todo[c]
           e == <<>>
           u == e \o Tail(t)
<1>1. t \in Seq(Steps) /\ t # <<>> /\ t[1] = op /\ InOrder(t)
  BY DEF TodoOK, Playing!At, Playing!Idle
<1>2. /\ TodoOK' /\ \A d \in {"graphics", "hotkey"} \ {c} : media_todo'[d] = media_todo[d]
      /\ media_todo'[c] = u
  <2>1. e \in Seq(Steps) /\ e = <<>> /\ Playing!Then(c, e) /\ \A i \in DOMAIN e : FALSE
    OBVIOUS
  <2> HIDE DEF e
  <2> QED
    BY <2>1, CallGoesOn
<1>3. /\ Len(u) = Len(t) - 1 /\ Len(t) \in Nat \ {0} /\ u \in Seq(Steps)
      /\ \A i \in 1..(Len(t) - 1) : u[i] = t[i + 1]
  BY <1>1
<1> HIDE DEF u
<1>4. Len(t) > 1 => u # <<>> /\ u[1] = t[2] /\ t[2] \in Playing!After[op]
  <2> SUFFICES ASSUME Len(t) > 1 PROVE u # <<>> /\ u[1] = t[2] /\ t[2] \in Playing!After[op]
    OBVIOUS
  <2>1. 1 \in 1..(Len(t) - 1) /\ 1 + 1 = 2 /\ Len(u) # 0
    BY <1>3
  <2>2. u[1] = t[2] /\ u # <<>>
    BY <1>3, <2>1
  <2>3. t[2] \in Playing!After[t[1]]
    BY <2>1 DEF InOrder, TodoOK
  <2> QED
    BY <1>1, <2>2, <2>3
<1>5. Len(t) > 1 \/ op \in Ends
  BY <1>1, <1>3 DEF InOrder
<1>6. Len(t) = 1 => u = <<>>
  BY <1>3
<1>7. \A x : Playing!At(c, x)' <=> (u # <<>> /\ u[1] = x)
  BY <1>2 DEF Playing!At, Playing!Idle
<1>8. Playing!WillPlay(c) => Len(t) > 1 /\ t[2] = "play"
  BY DEF Playing!WillPlay
<1> QED
  BY <1>2, <1>3, <1>4, <1>5, <1>6, <1>7, <1>8

\* Another step comes instead.
LEMMA StepBecomes ==
  ASSUME TodoOK, NEW c \in {"graphics", "hotkey"}, NEW op \in Steps, Playing!At(c, op),
         NEW x \in Steps, Playing!Then(c, <<x>>),
         Playing!After[op] \subseteq Playing!After[x], op \notin Ends,
         c = "hotkey" => x \in {"open", "valid", "play"}
  PROVE  /\ TodoOK'
         /\ \A d \in {"graphics", "hotkey"} \ {c} : media_todo'[d] = media_todo[d]
         /\ \A y : Playing!At(c, y)' <=> y = x
         /\ Playing!WillPlay(c)' <=> Playing!WillPlay(c)
<1> DEFINE t == media_todo[c]
           u == <<x>> \o Tail(t)
<1>1. t \in Seq(Steps) /\ t # <<>> /\ t[1] = op /\ InOrder(t)
  BY DEF TodoOK, Playing!At, Playing!Idle
<1>2. <<x>> \in Seq(Steps) /\ Len(<<x>>) = 1 /\ <<x>>[1] = x /\ DOMAIN <<x>> = {1}
  OBVIOUS
<1>3. /\ TodoOK' /\ \A d \in {"graphics", "hotkey"} \ {c} : media_todo'[d] = media_todo[d]
      /\ media_todo'[c] = u
  <2> DEFINE s == <<x>>
  <2>1. /\ s \in Seq(Steps) /\ s # <<>> /\ Playing!Then(c, s) /\ Len(s) = 1 /\ s[1] = x
        /\ \A i \in DOMAIN s : s[i] = x
    BY <1>2
  <2>2. /\ media_todo'[c] = s \o Tail(t) => media_todo'[c] = u
        /\ \A i \in 1..(Len(s) - 1) : FALSE
    BY <1>2
  <2> HIDE DEF s, u
  <2>3. TodoOK' /\ (\A d \in {"graphics", "hotkey"} \ {c} : media_todo'[d] = media_todo[d])
        /\ media_todo'[c] = s \o Tail(t)
    BY <2>1, <2>2, CallGoesOn
  <2> QED
    BY <2>2, <2>3
<1>4. /\ u \in Seq(Steps) /\ Len(u) = 1 + Len(t) - 1 /\ Len(t) \in Nat \ {0} /\ u[1] = x
      /\ \A i \in 1..(Len(t) - 1) : u[1 + i] = t[i + 1]
  BY <1>1, <1>2, Spliced
<1> HIDE DEF u
<1>5. u # <<>> /\ Len(u) = Len(t) /\ (Len(t) > 1 => u[2] = t[2])
  BY <1>4
<1>6. \A y : Playing!At(c, y)' <=> y = x
  BY <1>3, <1>4, <1>5 DEF Playing!At, Playing!Idle
<1>7. Playing!WillPlay(c)' <=> Playing!WillPlay(c)
  BY <1>3, <1>5 DEF Playing!WillPlay
<1> QED
  BY <1>3, <1>6, <1>7

\* Several others come instead.
LEMMA StepsBecome ==
  ASSUME TodoOK, NEW c \in {"graphics", "hotkey"}, NEW op \in Steps, Playing!At(c, op),
         NEW s \in Seq(Steps), Len(s) > 1, Playing!Then(c, s),
         \A i \in 1..(Len(s) - 1) : s[i + 1] \in Playing!After[s[i]],
         Playing!After[op] \subseteq Playing!After[s[Len(s)]], op \in Ends => s[Len(s)] \in Ends,
         c = "hotkey" => \A i \in DOMAIN s : s[i] \in {"open", "valid", "play"}
  PROVE  /\ TodoOK'
         /\ \A d \in {"graphics", "hotkey"} \ {c} : media_todo'[d] = media_todo[d]
         /\ \A y : Playing!At(c, y)' <=> y = s[1]
         /\ Playing!WillPlay(c)' <=> s[2] = "play"
<1> DEFINE t == media_todo[c]
           u == s \o Tail(t)
<1>1. t \in Seq(Steps) /\ t # <<>> /\ t[1] = op /\ InOrder(t)
  BY DEF TodoOK, Playing!At, Playing!Idle
<1>2. /\ TodoOK' /\ \A d \in {"graphics", "hotkey"} \ {c} : media_todo'[d] = media_todo[d]
      /\ media_todo'[c] = u
  BY CallGoesOn
<1>3. /\ u \in Seq(Steps) /\ Len(u) = Len(s) + Len(t) - 1 /\ Len(t) \in Nat \ {0}
      /\ Len(s) \in Nat /\ \A i \in 1..Len(s) : u[i] = s[i]
  BY <1>1, Spliced
<1> HIDE DEF u
<1>4. u # <<>> /\ Len(u) > 1 /\ u[1] = s[1] /\ u[2] = s[2]
  BY <1>3
<1>5. \A y : Playing!At(c, y)' <=> y = s[1]
  BY <1>2, <1>4 DEF Playing!At, Playing!Idle
<1>6. Playing!WillPlay(c)' <=> s[2] = "play"
  BY <1>2, <1>4 DEF Playing!WillPlay
<1> QED
  BY <1>2, <1>5, <1>6

SettingsRec == [seekable : BOOLEAN, is_looping : BOOLEAN,
                is_clear_on_media_end : BOOLEAN, close_when_inactive : BOOLEAN]
SourceRec   == [shown : BOOLEAN, active : BOOLEAN, defer_update : BOOLEAN,
                destroy_media : BOOLEAN, media_valid : BOOLEAN]
MediaRec    == [active : BOOLEAN, stopping : BOOLEAN, looping : BOOLEAN,
                reset : BOOLEAN, kill : BOOLEAN, sem : Nat]
DecoderRec  == [pos : Nat, found : BOOLEAN, eof : BOOLEAN, ready : BOOLEAN, pts : Nat,
                next_pts : Nat, base_ts : Nat, start_ts : Nat]
LocalRec    == [active : BOOLEAN, stopping : BOOLEAN, then : {"exited", "top"}]

PlayTypes ==
  /\ settings \in SettingsRec /\ media_source \in SourceRec /\ media \in MediaRec
  /\ decoder \in DecoderRec /\ local \in LocalRec
  /\ media_at \in {"none", "open", "reset", "prepare", "stopped", "top", "wait", "sleep",
                   "wake", "play", "next", "eof", "exited"}
  /\ requests \in Nat /\ media_wanted \in BOOLEAN /\ lost \in BOOLEAN /\ last \in Int

\* Nothing is set in the media.
Shut == ~media.active /\ ~media.stopping /\ ~media.looping /\ ~media.reset /\ ~media.kill
          /\ media.sem = 0

OpenedIf ==
  /\ \A c \in {"graphics", "hotkey"} :
       /\ Playing!At(c, "valid") => ~media_source.media_valid /\ media_at # "none"
       /\ Playing!At(c, "play") => media_source.media_valid
  /\ Playing!At("graphics", "kill") \/ Playing!At("graphics", "join") => media_source.media_valid
  /\ Playing!At("graphics", "reopen") => ~media_source.media_valid
  /\ media_source.media_valid => media_at # "none"
  /\ ~media_source.media_valid =>
       /\ Shut
       /\ media_at = "none" \/ \E c \in {"graphics", "hotkey"} : Playing!At(c, "valid")
       /\ media_at \notin {"sleep", "wake", "play", "next", "eof"}

LEMMA OpenedParts == PlayTypes => (Playing!Opened <=> OpenedIf)
<1>1. PlayTypes => (media = Playing!Closed <=> Shut)
  BY DEF PlayTypes, MediaRec, Playing!Closed, Shut
<1> QED
  BY <1>1 DEF Playing!Opened, OpenedIf, Playing!Callers, Playing!InCall

LEMMA PlayingParts ==
  Playing!IInv <=> /\ PlayTypes /\ TodoOK /\ OpenedIf /\ Playing!Woken
                   /\ Playing!Running /\ Playing!Obeyed /\ Playing!AtFirst /\ Playing!InTime
<1>1. Playing!TypeOK <=> PlayTypes /\ media_todo \in [{"graphics", "hotkey"} -> Seq(Steps)]
  BY StepsOfCalls DEF Playing!TypeOK, PlayTypes, SettingsRec, SourceRec, MediaRec, DecoderRec,
     LocalRec, Playing!Places, Playing!Callers
<1>2. Playing!Calling <=> /\ \A c \in {"graphics", "hotkey"} : InOrder(media_todo[c])
                          /\ \A i \in DOMAIN media_todo["hotkey"] :
                               media_todo["hotkey"][i] \in {"open", "valid", "play"}
  BY DEF Playing!Calling, Playing!Callers, Playing!Idle, InOrder, Ends
<1> QED
  BY <1>1, <1>2, OpenedParts DEF Playing!IInv, TodoOK

\* What is in a call stays while the thread makes a step.
LEMMA CallsStay ==
  ASSUME UNCHANGED media_todo
  PROVE  /\ TodoOK' <=> TodoOK
         /\ \A c, x : Playing!At(c, x)' <=> Playing!At(c, x)
         /\ \A c : Playing!WillPlay(c)' <=> Playing!WillPlay(c)
  BY DEF TodoOK, InOrder, Ends, Playing!After, Playing!At, Playing!Idle, Playing!WillPlay

----------------------------------------------------------------------------
(* The steps of the media thread.                                          *)

LEMMA OpenKeeps ==
  ASSUME Playing!IInv, Playing!Open
  PROVE  Playing!IInv'
<1> USE DEF Playing!Callers, Playing!InCall, Playing!Loop
<1>1. /\ PlayTypes /\ TodoOK /\ OpenedIf /\ Playing!Woken
      /\ Playing!Running /\ Playing!Obeyed /\ Playing!AtFirst /\ Playing!InTime
  BY PlayingParts
<1>2. /\ media_at = "open"
      /\ \/ media_at' = "reset" /\ UNCHANGED <<local, lost>>
         \/ media_at' = "stopped" /\ local' = [local EXCEPT !.then = "exited"] /\ lost' = TRUE
      /\ UNCHANGED <<settings, media_source, media, decoder, media_todo, requests,
                     media_wanted, last>>
  BY DEF Playing!Open, Playing!Fail
<1>3. /\ TodoOK' /\ \A c, x : Playing!At(c, x)' <=> Playing!At(c, x)
      /\ \A c : Playing!WillPlay(c)' <=> Playing!WillPlay(c)
  BY <1>1, <1>2, CallsStay
<1>4. /\ local' \in LocalRec /\ local \in LocalRec /\ (lost => lost')
      /\ (media_at' = "stopped" => local'.then = "exited") /\ (media_at' = "stopped" => lost')
  BY <1>1, <1>2 DEF PlayTypes, MediaRec, LocalRec
<1>5. PlayTypes'
  BY <1>1, <1>2, <1>4 DEF PlayTypes
<1>6. OpenedIf'
  BY <1>1, <1>2, <1>3, <1>4 DEF OpenedIf, Shut, PlayTypes
<1>7. Playing!Woken'
  BY <1>1, <1>2, <1>3, <1>4 DEF Playing!Woken, PlayTypes, MediaRec
<1>8. Playing!Running'
  BY <1>1, <1>2, <1>3, <1>4 DEF Playing!Running, PlayTypes, MediaRec, LocalRec
<1>9. Playing!Obeyed'
  BY <1>1, <1>2, <1>3, <1>4 DEF Playing!Obeyed, PlayTypes, MediaRec, LocalRec
<1>10. Playing!AtFirst'
  BY <1>1, <1>2, <1>3, <1>4 DEF Playing!AtFirst, PlayTypes,
     MediaRec, DecoderRec, LocalRec, SettingsRec
<1>11. Playing!InTime'
  BY <1>1, <1>2, <1>3, <1>4 DEF Playing!InTime, PlayTypes, DecoderRec
<1> QED
  BY <1>3, <1>5, <1>6, <1>7, <1>8, <1>9, <1>10, <1>11, PlayingParts, PTL

LEMMA ResetKeeps ==
  ASSUME Playing!IInv, Playing!Reset
  PROVE  Playing!IInv'
<1> USE DEF Playing!Callers, Playing!InCall, Playing!Loop
<1>1. /\ PlayTypes /\ TodoOK /\ OpenedIf /\ Playing!Woken
      /\ Playing!Running /\ Playing!Obeyed /\ Playing!AtFirst /\ Playing!InTime
  BY PlayingParts
<1>2. /\ media_at = "reset" /\ media_at' = "prepare"
      /\ \E sought \in BOOLEAN :
           decoder' = [decoder EXCEPT
                         !.base_ts = @ + decoder.next_pts,
                         !.pos     = IF settings.seekable /\ sought THEN 0 ELSE @,
                         !.found   = sought,
                         !.eof     = @ /\ ~settings.seekable,
                         !.ready   = @ /\ ~settings.seekable]
      /\ local' = [local EXCEPT !.stopping = media.stopping, !.active = media.active]
      /\ media' = [media EXCEPT !.stopping = FALSE]
      /\ UNCHANGED <<settings, media_source, media_todo, requests, media_wanted, lost, last>>
  BY DEF Playing!Reset
<1>3. /\ TodoOK' /\ \A c, x : Playing!At(c, x)' <=> Playing!At(c, x)
      /\ \A c : Playing!WillPlay(c)' <=> Playing!WillPlay(c)
  BY <1>1, <1>2, CallsStay
<1>4. /\ media' \in MediaRec /\ media \in MediaRec /\ media'.active = media.active
      /\ media'.looping = media.looping /\ media'.reset = media.reset /\ media'.kill = media.kill
      /\ media'.sem = media.sem /\ media'.stopping = FALSE /\ local' \in LocalRec
      /\ local \in LocalRec /\ local'.then = local.then /\ decoder' \in DecoderRec
      /\ decoder \in DecoderRec /\ decoder'.pts = decoder.pts
      /\ decoder'.next_pts = decoder.next_pts /\ decoder'.start_ts = decoder.start_ts
      /\ decoder'.base_ts = decoder.base_ts + decoder.next_pts
      /\ (decoder'.pos = 0 \/ decoder'.pos = decoder.pos)
      /\ (decoder'.found /\ settings.seekable => decoder'.pos = 0)
      /\ (settings.seekable => ~decoder'.eof /\ ~decoder'.ready)
      /\ (~settings.seekable => decoder'.eof = decoder.eof)
      /\ (~settings.seekable => decoder'.ready = decoder.ready)
      /\ (~settings.seekable => decoder'.pos = decoder.pos)
  <2>1. /\ media' \in MediaRec /\ media \in MediaRec /\ media'.active = media.active
        /\ media'.looping = media.looping /\ media'.reset = media.reset
        /\ media'.kill = media.kill /\ media'.sem = media.sem /\ media'.stopping = FALSE
    BY <1>1, <1>2 DEF PlayTypes, MediaRec
  <2>2. /\ local' \in LocalRec /\ local \in LocalRec /\ local'.then = local.then
    BY <1>1, <1>2 DEF PlayTypes, MediaRec, LocalRec
  <2>3. /\ decoder' \in DecoderRec /\ decoder \in DecoderRec /\ decoder'.pts = decoder.pts
        /\ decoder'.next_pts = decoder.next_pts /\ decoder'.start_ts = decoder.start_ts
        /\ decoder'.base_ts = decoder.base_ts + decoder.next_pts
        /\ (decoder'.pos = 0 \/ decoder'.pos = decoder.pos)
        /\ (decoder'.found /\ settings.seekable => decoder'.pos = 0)
        /\ (settings.seekable => ~decoder'.eof /\ ~decoder'.ready)
        /\ (~settings.seekable => decoder'.eof = decoder.eof)
        /\ (~settings.seekable => decoder'.ready = decoder.ready)
        /\ (~settings.seekable => decoder'.pos = decoder.pos)
    <3>1. PICK sought \in BOOLEAN :
            decoder' = [decoder EXCEPT
                          !.base_ts = @ + decoder.next_pts,
                          !.pos     = IF settings.seekable /\ sought THEN 0 ELSE @,
                          !.found   = sought,
                          !.eof     = @ /\ ~settings.seekable,
                          !.ready   = @ /\ ~settings.seekable]
      BY <1>2
    <3> DEFINE pos   == IF settings.seekable /\ sought THEN 0 ELSE decoder.pos
               eof   == decoder.eof /\ ~settings.seekable
               ready == decoder.ready /\ ~settings.seekable
    <3>2. /\ decoder \in DecoderRec /\ pos \in Nat /\ eof \in BOOLEAN /\ ready \in BOOLEAN
          /\ decoder.base_ts + decoder.next_pts \in Nat
      BY <1>1 DEF PlayTypes, DecoderRec
    <3>3. /\ (pos = 0 \/ pos = decoder.pos) /\ (settings.seekable /\ sought => pos = 0)
          /\ (settings.seekable => ~eof /\ ~ready)
          /\ (~settings.seekable => eof = decoder.eof /\ ready = decoder.ready /\ pos = decoder.pos)
      BY <3>2 DEF DecoderRec
    <3>4. decoder' = [decoder EXCEPT !.base_ts = decoder.base_ts + decoder.next_pts, !.pos = pos,
                                     !.found = sought, !.eof = eof, !.ready = ready]
      BY <3>1
    <3> HIDE DEF pos, eof, ready
    <3> QED
      BY <3>2, <3>3, <3>4 DEF DecoderRec
  <2> QED
    BY <2>1, <2>2, <2>3
<1>5. PlayTypes'
  BY <1>1, <1>2, <1>4 DEF PlayTypes
<1>6. OpenedIf'
  BY <1>1, <1>2, <1>3, <1>4 DEF OpenedIf, Shut, PlayTypes
<1>7. Playing!Woken'
  BY <1>1, <1>2, <1>3, <1>4 DEF Playing!Woken, PlayTypes, MediaRec
<1>8. Playing!Running'
  BY <1>1, <1>2, <1>3, <1>4 DEF Playing!Running, PlayTypes, MediaRec, LocalRec
<1>9. Playing!Obeyed'
  BY <1>1, <1>2, <1>3, <1>4 DEF Playing!Obeyed, PlayTypes, MediaRec, LocalRec
<1>10. Playing!AtFirst'
  BY <1>1, <1>2, <1>3, <1>4 DEF Playing!AtFirst, PlayTypes,
     MediaRec, DecoderRec, LocalRec, SettingsRec
<1>11. Playing!InTime'
  <2>1. /\ last \in Int /\ decoder.base_ts \in Nat /\ decoder.next_pts \in Nat /\ decoder.start_ts \in Nat
        /\ decoder.pos \in Nat /\ decoder.pts \in Nat /\ Frames # 0
    BY <1>1, MediaAssumption DEF PlayTypes, DecoderRec
  <2>2. /\ (decoder'.pos = decoder.pos \/ (decoder'.pos = 0 /\ ~decoder'.eof /\ ~decoder'.ready))
        /\ (~decoder.eof => ~decoder'.eof) /\ (decoder'.ready => decoder.ready /\ decoder'.pos = decoder.pos)
    BY <1>1, <1>2, <1>4 DEF PlayTypes, SettingsRec, DecoderRec
  <2>3. /\ last' = last /\ decoder'.pts = decoder.pts /\ decoder'.next_pts = decoder.next_pts
        /\ decoder'.start_ts = decoder.start_ts /\ decoder'.base_ts = decoder.base_ts + decoder.next_pts
    BY <1>2, <1>4
  <2> QED
    BY <1>1, <2>1, <2>2, <2>3 DEF Playing!InTime
<1> QED
  BY <1>3, <1>5, <1>6, <1>7, <1>8, <1>9, <1>10, <1>11, PlayingParts, PTL

\* What reading leaves behind.
LEMMA PreparedParts ==
  ASSUME decoder \in DecoderRec
  PROVE  LET P == Playing!Prepared
         IN  /\ P \in DecoderRec /\ P.base_ts = decoder.base_ts /\ P.found = decoder.found
             /\ P.start_ts = decoder.start_ts
             /\ \/ P = decoder /\ (decoder.ready \/ decoder.eof)
                \/ P.eof /\ ~P.ready /\ decoder.pos = Frames /\ P.pos = decoder.pos
                     /\ P.pts = decoder.pts /\ P.next_pts = decoder.next_pts /\ ~decoder.ready
                     /\ ~decoder.eof
                \/ P.ready /\ ~P.eof /\ P.pos = decoder.pos + 1 /\ P.pts = decoder.pos
                     /\ P.next_pts = decoder.pos + 1 /\ ~decoder.ready
<1>1. CASE decoder.ready \/ decoder.eof
  BY <1>1 DEF Playing!Prepared, DecoderRec
<1>2. CASE ~decoder.ready /\ ~decoder.eof /\ decoder.pos = Frames
  BY <1>2 DEF Playing!Prepared, DecoderRec
<1>3. CASE ~decoder.ready /\ ~decoder.eof /\ decoder.pos # Frames
  <2>1. Playing!Prepared = [decoder EXCEPT !.ready = TRUE, !.pos = @ + 1, !.pts = decoder.pos,
                                           !.next_pts = decoder.pos + 1]
    BY <1>3 DEF Playing!Prepared
  <2>2. decoder.pos \in Nat /\ decoder.pos + 1 \in Nat
    BY DEF DecoderRec
  <2> QED
    BY <1>3, <2>1, <2>2 DEF DecoderRec
<1> QED
  BY <1>1, <1>2, <1>3

LEMMA PrepareResetKeeps ==
  ASSUME Playing!IInv, Playing!PrepareReset
  PROVE  Playing!IInv'
<1> USE DEF Playing!Callers, Playing!InCall, Playing!Loop
<1>1. /\ PlayTypes /\ TodoOK /\ OpenedIf /\ Playing!Woken
      /\ Playing!Running /\ Playing!Obeyed /\ Playing!AtFirst /\ Playing!InTime
  BY PlayingParts
<1>2. /\ media_at = "prepare"
      /\ \/ /\ decoder' = [Playing!Prepared EXCEPT !.start_ts = Playing!Prepared.pts]
            /\ media_at' = IF local.stopping THEN "stopped" ELSE "top"
            /\ local' = [local EXCEPT !.then = "top"] /\ UNCHANGED lost
         \/ /\ decoder' = [decoder EXCEPT !.found = FALSE]
            /\ \/ /\ media_at' = "stopped" /\ local' = [local EXCEPT !.then = "exited"]
                  /\ lost' = TRUE
               \/ media_at' = "top" /\ local.then # "exited" /\ UNCHANGED <<local, lost>>
      /\ UNCHANGED <<settings, media_source, media, media_todo, requests, media_wanted, last>>
  BY DEF Playing!PrepareReset, Playing!Fail
<1>3. /\ TodoOK' /\ \A c, x : Playing!At(c, x)' <=> Playing!At(c, x)
      /\ \A c : Playing!WillPlay(c)' <=> Playing!WillPlay(c)
  BY <1>1, <1>2, CallsStay
<1>4. /\ local' \in LocalRec /\ local \in LocalRec /\ media_at' \in {"stopped", "top"}
      /\ (lost => lost') /\ (media_at' = "top" => local'.then = "top")
      /\ (media_at' = "stopped" /\ local'.then = "exited" => lost') /\ decoder' \in DecoderRec
      /\ (settings.seekable /\ decoder'.found => decoder'.ready /\ decoder'.pts = 0)
      /\ Playing!InTime'
  <2>1. /\ local' \in LocalRec /\ local \in LocalRec /\ media_at' \in {"stopped", "top"}
        /\ (lost => lost') /\ (media_at' = "top" => local'.then = "top")
        /\ (media_at' = "stopped" /\ local'.then = "exited" => lost')
    BY <1>1, <1>2 DEF PlayTypes, LocalRec
  <2>2. /\ decoder' \in DecoderRec
        /\ (settings.seekable /\ decoder'.found => decoder'.ready /\ decoder'.pts = 0)
        /\ Playing!InTime'
    <3>1. CASE /\ decoder' = [Playing!Prepared EXCEPT !.start_ts = Playing!Prepared.pts]
               /\ media_at' # "prepare"
      <4> DEFINE P == Playing!Prepared
      <4>1. /\ P \in DecoderRec /\ P.base_ts = decoder.base_ts /\ P.found = decoder.found
            /\ \/ P = decoder /\ (decoder.ready \/ decoder.eof)
               \/ P.eof /\ ~P.ready /\ decoder.pos = Frames /\ P.pos = decoder.pos
                    /\ P.pts = decoder.pts /\ P.next_pts = decoder.next_pts /\ ~decoder.ready
                    /\ ~decoder.eof
               \/ P.ready /\ ~P.eof /\ P.pos = decoder.pos + 1 /\ P.pts = decoder.pos
                    /\ P.next_pts = decoder.pos + 1 /\ ~decoder.ready
        BY <1>1, PreparedParts DEF PlayTypes
      <4> HIDE DEF P
      <4>2. /\ decoder' \in DecoderRec /\ decoder'.base_ts = P.base_ts /\ decoder'.pos = P.pos
            /\ decoder'.pts = P.pts /\ decoder'.next_pts = P.next_pts /\ decoder'.eof = P.eof
            /\ decoder'.ready = P.ready /\ decoder'.start_ts = P.pts /\ decoder'.found = P.found
        BY <3>1, <4>1 DEF P, DecoderRec
      <4>3. settings.seekable /\ decoder.found => decoder.pos = 0 /\ ~decoder.eof /\ ~decoder.ready
        BY <1>1, <1>2 DEF Playing!AtFirst
      <4>4. last \in Int /\ last < decoder.base_ts /\ last' = last
        BY <1>1, <1>2 DEF Playing!InTime, PlayTypes
      <4>5. decoder \in DecoderRec /\ Frames # 0
        BY <1>1, MediaAssumption DEF PlayTypes
      <4>6. Playing!InTime'
        BY <1>1, <3>1, <4>1, <4>2, <4>4, <4>5 DEF Playing!InTime, DecoderRec
      <4> QED
        BY <4>1, <4>2, <4>3, <4>5, <4>6 DEF DecoderRec
    <3>2. CASE decoder' = [decoder EXCEPT !.found = FALSE] /\ media_at' # "prepare"
      <4>1. /\ decoder' \in DecoderRec /\ decoder'.base_ts = decoder.base_ts
            /\ decoder'.pos = decoder.pos /\ decoder'.pts = decoder.pts
            /\ decoder'.next_pts = decoder.next_pts /\ decoder'.eof = decoder.eof
            /\ decoder'.ready = decoder.ready /\ decoder'.start_ts = decoder.start_ts
            /\ ~decoder'.found
        BY <1>1, <3>2 DEF PlayTypes, DecoderRec
      <4> QED
        BY <1>1, <1>2, <3>2, <4>1 DEF Playing!InTime
    <3> QED
      BY <1>2, <3>1, <3>2
  <2> QED
    BY <2>1, <2>2
<1>5. PlayTypes'
  BY <1>1, <1>2, <1>4 DEF PlayTypes
<1>6. OpenedIf'
  BY <1>1, <1>2, <1>3, <1>4 DEF OpenedIf, Shut, PlayTypes
<1>7. Playing!Woken'
  BY <1>1, <1>2, <1>3, <1>4 DEF Playing!Woken, PlayTypes, MediaRec
<1>8. Playing!Running'
  BY <1>1, <1>2, <1>3, <1>4 DEF Playing!Running, PlayTypes, MediaRec, LocalRec
<1>9. Playing!Obeyed'
  BY <1>1, <1>2, <1>3, <1>4 DEF Playing!Obeyed, PlayTypes, MediaRec, LocalRec
<1>10. Playing!AtFirst'
  BY <1>1, <1>2, <1>3, <1>4 DEF Playing!AtFirst, PlayTypes,
     MediaRec, DecoderRec, LocalRec, SettingsRec
<1>11. Playing!InTime'
  BY <1>4
<1> QED
  BY <1>3, <1>5, <1>6, <1>7, <1>8, <1>9, <1>10, <1>11, PlayingParts, PTL

LEMMA StoppedKeeps ==
  ASSUME Playing!IInv, Playing!Stopped
  PROVE  Playing!IInv'
<1> USE DEF Playing!Callers, Playing!InCall, Playing!Loop
<1>1. /\ PlayTypes /\ TodoOK /\ OpenedIf /\ Playing!Woken
      /\ Playing!Running /\ Playing!Obeyed /\ Playing!AtFirst /\ Playing!InTime
  BY PlayingParts
<1>2. /\ media_at = "stopped" /\ media_at' = local.then
      /\ media_source' = [media_source EXCEPT !.destroy_media = media_source'.destroy_media]
      /\ media_source'.destroy_media \in BOOLEAN
      /\ UNCHANGED <<settings, media, decoder, local, media_todo, requests, media_wanted, lost,
                     last>>
  BY DEF PlayTypes, SourceRec, SettingsRec, Playing!Stopped
<1>3. /\ TodoOK' /\ \A c, x : Playing!At(c, x)' <=> Playing!At(c, x)
      /\ \A c : Playing!WillPlay(c)' <=> Playing!WillPlay(c)
  BY <1>1, <1>2, CallsStay
<1>4. /\ media_source' \in SourceRec /\ media_source \in SourceRec
      /\ media_source'.shown = media_source.shown /\ media_source'.active = media_source.active
      /\ media_source'.defer_update = media_source.defer_update
      /\ media_source'.media_valid = media_source.media_valid /\ local.then \in {"exited", "top"}
  BY <1>1, <1>2 DEF PlayTypes, SourceRec, LocalRec
<1>5. PlayTypes'
  BY <1>1, <1>2, <1>4 DEF PlayTypes
<1>6. OpenedIf'
  BY <1>1, <1>2, <1>3, <1>4 DEF OpenedIf, Shut, PlayTypes
<1>7. Playing!Woken'
  BY <1>1, <1>2, <1>3, <1>4 DEF Playing!Woken, PlayTypes, MediaRec
<1>8. Playing!Running'
  BY <1>1, <1>2, <1>3, <1>4 DEF Playing!Running, PlayTypes, MediaRec, LocalRec
<1>9. Playing!Obeyed'
  BY <1>1, <1>2, <1>3, <1>4 DEF Playing!Obeyed, PlayTypes, MediaRec, LocalRec
<1>10. Playing!AtFirst'
  BY <1>1, <1>2, <1>3, <1>4 DEF Playing!AtFirst, PlayTypes,
     MediaRec, DecoderRec, LocalRec, SettingsRec
<1>11. Playing!InTime'
  BY <1>1, <1>2, <1>3, <1>4 DEF Playing!InTime, PlayTypes, DecoderRec
<1> QED
  BY <1>3, <1>5, <1>6, <1>7, <1>8, <1>9, <1>10, <1>11, PlayingParts, PTL

LEMMA TopKeeps ==
  ASSUME Playing!IInv, Playing!Top
  PROVE  Playing!IInv'
<1> USE DEF Playing!Callers, Playing!InCall, Playing!Loop
<1>1. /\ PlayTypes /\ TodoOK /\ OpenedIf /\ Playing!Woken
      /\ Playing!Running /\ Playing!Obeyed /\ Playing!AtFirst /\ Playing!InTime
  BY PlayingParts
<1>2. /\ media_at = "top" /\ local' = [local EXCEPT !.active = media.active]
      /\ media_at' = IF media.active THEN "sleep" ELSE "wait"
      /\ UNCHANGED <<settings, media_source, media, decoder, media_todo, requests,
                     media_wanted, lost, last>>
  BY DEF Playing!Top
<1>3. /\ TodoOK' /\ \A c, x : Playing!At(c, x)' <=> Playing!At(c, x)
      /\ \A c : Playing!WillPlay(c)' <=> Playing!WillPlay(c)
  BY <1>1, <1>2, CallsStay
<1>4. /\ local' \in LocalRec /\ local \in LocalRec /\ local'.stopping = local.stopping
      /\ local'.then = local.then /\ local'.active = media.active
  BY <1>1, <1>2 DEF PlayTypes, MediaRec, LocalRec
<1>5. PlayTypes'
  BY <1>1, <1>2, <1>4 DEF PlayTypes
<1>6. OpenedIf'
  BY <1>1, <1>2, <1>3, <1>4 DEF OpenedIf, Shut, PlayTypes
<1>7. Playing!Woken'
  BY <1>1, <1>2, <1>3, <1>4 DEF Playing!Woken, PlayTypes, MediaRec
<1>8. Playing!Running'
  BY <1>1, <1>2, <1>3, <1>4 DEF Playing!Running, PlayTypes, MediaRec, LocalRec
<1>9. Playing!Obeyed'
  BY <1>1, <1>2, <1>3, <1>4 DEF Playing!Obeyed, PlayTypes, MediaRec, LocalRec
<1>10. Playing!AtFirst'
  BY <1>1, <1>2, <1>3, <1>4 DEF Playing!AtFirst, PlayTypes,
     MediaRec, DecoderRec, LocalRec, SettingsRec
<1>11. Playing!InTime'
  BY <1>1, <1>2, <1>3, <1>4 DEF Playing!InTime, PlayTypes, DecoderRec
<1> QED
  BY <1>3, <1>5, <1>6, <1>7, <1>8, <1>9, <1>10, <1>11, PlayingParts, PTL

LEMMA WaitKeeps ==
  ASSUME Playing!IInv, Playing!Wait
  PROVE  Playing!IInv'
<1> USE DEF Playing!Callers, Playing!InCall, Playing!Loop
<1>1. /\ PlayTypes /\ TodoOK /\ OpenedIf /\ Playing!Woken
      /\ Playing!Running /\ Playing!Obeyed /\ Playing!AtFirst /\ Playing!InTime
  BY PlayingParts
<1>2. /\ media_at = "wait" /\ media.sem > 0 /\ media_at' = "wake"
      /\ media' = [media EXCEPT !.sem = @ - 1]
      /\ UNCHANGED <<settings, media_source, decoder, local, media_todo, requests,
                     media_wanted, lost, last>>
  BY DEF Playing!Wait
<1>3. /\ TodoOK' /\ \A c, x : Playing!At(c, x)' <=> Playing!At(c, x)
      /\ \A c : Playing!WillPlay(c)' <=> Playing!WillPlay(c)
  BY <1>1, <1>2, CallsStay
<1>4. /\ media' \in MediaRec /\ media \in MediaRec /\ media'.active = media.active
      /\ media'.stopping = media.stopping /\ media'.looping = media.looping
      /\ media'.reset = media.reset /\ media'.kill = media.kill /\ media.sem > 0
  BY <1>1, <1>2 DEF PlayTypes, MediaRec
<1>5. PlayTypes'
  BY <1>1, <1>2, <1>4 DEF PlayTypes
<1>6. OpenedIf'
  BY <1>1, <1>2, <1>3, <1>4 DEF OpenedIf, Shut, PlayTypes
<1>7. Playing!Woken'
  BY <1>1, <1>2, <1>3, <1>4 DEF Playing!Woken, PlayTypes, MediaRec
<1>8. Playing!Running'
  BY <1>1, <1>2, <1>3, <1>4 DEF Playing!Running, PlayTypes, MediaRec, LocalRec
<1>9. Playing!Obeyed'
  BY <1>1, <1>2, <1>3, <1>4 DEF Playing!Obeyed, PlayTypes, MediaRec, LocalRec
<1>10. Playing!AtFirst'
  BY <1>1, <1>2, <1>3, <1>4 DEF Playing!AtFirst, PlayTypes,
     MediaRec, DecoderRec, LocalRec, SettingsRec
<1>11. Playing!InTime'
  BY <1>1, <1>2, <1>3, <1>4 DEF Playing!InTime, PlayTypes, DecoderRec
<1> QED
  BY <1>3, <1>5, <1>6, <1>7, <1>8, <1>9, <1>10, <1>11, PlayingParts, PTL

LEMMA SleepKeeps ==
  ASSUME Playing!IInv, Playing!Sleep
  PROVE  Playing!IInv'
<1> USE DEF Playing!Callers, Playing!InCall, Playing!Loop
<1>1. /\ PlayTypes /\ TodoOK /\ OpenedIf /\ Playing!Woken
      /\ Playing!Running /\ Playing!Obeyed /\ Playing!AtFirst /\ Playing!InTime
  BY PlayingParts
<1>2. /\ media_at = "sleep" /\ media_at' = "wake"
      /\ UNCHANGED <<settings, media_source, media, decoder, local, media_todo, requests,
                     media_wanted, lost, last>>
  BY DEF Playing!Sleep
<1>3. /\ TodoOK' /\ \A c, x : Playing!At(c, x)' <=> Playing!At(c, x)
      /\ \A c : Playing!WillPlay(c)' <=> Playing!WillPlay(c)
  BY <1>1, <1>2, CallsStay
<1>4. /\ media \in MediaRec /\ decoder \in DecoderRec /\ local \in LocalRec
  BY <1>1 DEF PlayTypes
<1>5. PlayTypes'
  BY <1>1, <1>2, <1>4 DEF PlayTypes
<1>6. OpenedIf'
  BY <1>1, <1>2, <1>3, <1>4 DEF OpenedIf, Shut, PlayTypes
<1>7. Playing!Woken'
  BY <1>1, <1>2, <1>3, <1>4 DEF Playing!Woken, PlayTypes, MediaRec
<1>8. Playing!Running'
  BY <1>1, <1>2, <1>3, <1>4 DEF Playing!Running, PlayTypes, MediaRec, LocalRec
<1>9. Playing!Obeyed'
  BY <1>1, <1>2, <1>3, <1>4 DEF Playing!Obeyed, PlayTypes, MediaRec, LocalRec
<1>10. Playing!AtFirst'
  BY <1>1, <1>2, <1>3, <1>4 DEF Playing!AtFirst, PlayTypes,
     MediaRec, DecoderRec, LocalRec, SettingsRec
<1>11. Playing!InTime'
  BY <1>1, <1>2, <1>3, <1>4 DEF Playing!InTime, PlayTypes, DecoderRec
<1> QED
  BY <1>3, <1>5, <1>6, <1>7, <1>8, <1>9, <1>10, <1>11, PlayingParts, PTL

LEMMA WakeKeeps ==
  ASSUME Playing!IInv, Playing!Wake
  PROVE  Playing!IInv'
<1> USE DEF Playing!Callers, Playing!InCall, Playing!Loop
<1>1. /\ PlayTypes /\ TodoOK /\ OpenedIf /\ Playing!Woken
      /\ Playing!Running /\ Playing!Obeyed /\ Playing!AtFirst /\ Playing!InTime
  BY PlayingParts
<1>2. /\ media_at = "wake"
      /\ \/ media.kill /\ media_at' = "exited"
         \/ ~media.kill /\ media.reset /\ media_at' = "reset"
         \/ ~media.kill /\ ~media.reset /\ media_at' = "top"
         \/ ~media.kill /\ ~media.reset /\ media_at' = "play" /\ local.active
      /\ media' = [media EXCEPT !.reset = FALSE, !.kill = FALSE]
      /\ UNCHANGED <<settings, media_source, decoder, local, media_todo, requests,
                     media_wanted, lost, last>>
  BY DEF Playing!Wake
<1>3. /\ TodoOK' /\ \A c, x : Playing!At(c, x)' <=> Playing!At(c, x)
      /\ \A c : Playing!WillPlay(c)' <=> Playing!WillPlay(c)
  BY <1>1, <1>2, CallsStay
<1>4. /\ media' \in MediaRec /\ media \in MediaRec /\ media'.active = media.active
      /\ media'.stopping = media.stopping /\ media'.looping = media.looping
      /\ media'.sem = media.sem /\ ~media'.reset /\ ~media'.kill
  BY <1>1, <1>2 DEF PlayTypes, MediaRec
<1>5. PlayTypes'
  BY <1>1, <1>2, <1>4 DEF PlayTypes
<1>6. OpenedIf'
  BY <1>1, <1>2, <1>3, <1>4 DEF OpenedIf, Shut, PlayTypes
<1>7. Playing!Woken'
  BY <1>1, <1>2, <1>3, <1>4 DEF Playing!Woken, PlayTypes, MediaRec
<1>8. Playing!Running'
  BY <1>1, <1>2, <1>3, <1>4 DEF Playing!Running, PlayTypes, MediaRec, LocalRec
<1>9. Playing!Obeyed'
  BY <1>1, <1>2, <1>3, <1>4 DEF Playing!Obeyed, Playing!Woken, PlayTypes
<1>10. Playing!AtFirst'
  BY <1>1, <1>2, <1>3, <1>4 DEF Playing!AtFirst, PlayTypes,
     MediaRec, DecoderRec, LocalRec, SettingsRec
<1>11. Playing!InTime'
  BY <1>1, <1>2, <1>3, <1>4 DEF Playing!InTime, PlayTypes, DecoderRec
<1> QED
  BY <1>3, <1>5, <1>6, <1>7, <1>8, <1>9, <1>10, <1>11, PlayingParts, PTL

LEMMA PlayKeeps ==
  ASSUME Playing!IInv, Playing!Play
  PROVE  Playing!IInv'
<1> USE DEF Playing!Callers, Playing!InCall, Playing!Loop
<1>1. /\ PlayTypes /\ TodoOK /\ OpenedIf /\ Playing!Woken
      /\ Playing!Running /\ Playing!Obeyed /\ Playing!AtFirst /\ Playing!InTime
  BY PlayingParts
<1>2. /\ media_at = "play" /\ media_at' = "next"
      /\ decoder' = [decoder EXCEPT !.ready = FALSE]
      /\ last' = IF decoder.ready THEN decoder.base_ts + decoder.pts - decoder.start_ts ELSE last
      /\ UNCHANGED <<settings, media_source, media, local, media_todo, requests, media_wanted,
                     lost>>
  BY DEF Playing!Play, Playing!timestamp
<1>3. /\ TodoOK' /\ \A c, x : Playing!At(c, x)' <=> Playing!At(c, x)
      /\ \A c : Playing!WillPlay(c)' <=> Playing!WillPlay(c)
  BY <1>1, <1>2, CallsStay
<1>4. /\ decoder' \in DecoderRec /\ decoder \in DecoderRec /\ decoder'.pos = decoder.pos
      /\ decoder'.found = decoder.found /\ decoder'.eof = decoder.eof
      /\ decoder'.pts = decoder.pts /\ decoder'.next_pts = decoder.next_pts
      /\ decoder'.base_ts = decoder.base_ts /\ decoder'.start_ts = decoder.start_ts
      /\ ~decoder'.ready /\ last' \in Int
  <2>1. /\ decoder' \in DecoderRec /\ decoder \in DecoderRec /\ decoder'.pos = decoder.pos
        /\ decoder'.found = decoder.found /\ decoder'.eof = decoder.eof
        /\ decoder'.pts = decoder.pts /\ decoder'.next_pts = decoder.next_pts
        /\ decoder'.base_ts = decoder.base_ts /\ decoder'.start_ts = decoder.start_ts
        /\ ~decoder'.ready
    BY <1>1, <1>2 DEF PlayTypes, DecoderRec
  <2>2. /\ last' \in Int
    BY <1>1, <1>2 DEF PlayTypes, DecoderRec
  <2> QED
    BY <2>1, <2>2
<1>5. PlayTypes'
  BY <1>1, <1>2, <1>4 DEF PlayTypes
<1>6. OpenedIf'
  BY <1>1, <1>2, <1>3, <1>4 DEF OpenedIf, Shut, PlayTypes
<1>7. Playing!Woken'
  BY <1>1, <1>2, <1>3, <1>4 DEF Playing!Woken, PlayTypes, MediaRec
<1>8. Playing!Running'
  BY <1>1, <1>2, <1>3, <1>4 DEF Playing!Running, PlayTypes, MediaRec, LocalRec
<1>9. Playing!Obeyed'
  BY <1>1, <1>2, <1>3, <1>4 DEF Playing!Obeyed, PlayTypes, MediaRec, LocalRec
<1>10. Playing!AtFirst'
  BY <1>1, <1>2, <1>3, <1>4 DEF Playing!AtFirst, Playing!Running, PlayTypes
<1>11. Playing!InTime'
  BY <1>1, <1>2, <1>3, <1>4 DEF Playing!InTime, PlayTypes, DecoderRec
<1> QED
  BY <1>3, <1>5, <1>6, <1>7, <1>8, <1>9, <1>10, <1>11, PlayingParts, PTL

LEMMA PrepareNextKeeps ==
  ASSUME Playing!IInv, Playing!PrepareNext
  PROVE  Playing!IInv'
<1> USE DEF Playing!Callers, Playing!InCall, Playing!Loop
<1>1. /\ PlayTypes /\ TodoOK /\ OpenedIf /\ Playing!Woken
      /\ Playing!Running /\ Playing!Obeyed /\ Playing!AtFirst /\ Playing!InTime
  BY PlayingParts
<1>2. /\ media_at = "next"
      /\ \/ decoder' = Playing!Prepared /\ media_at' = "eof" /\ UNCHANGED <<local, lost>>
         \/ /\ media_at' = "stopped" /\ local' = [local EXCEPT !.then = "exited"] /\ lost' = TRUE
            /\ UNCHANGED decoder
      /\ UNCHANGED <<settings, media_source, media, media_todo, requests, media_wanted, last>>
  BY DEF Playing!PrepareNext, Playing!Fail
<1>3. /\ TodoOK' /\ \A c, x : Playing!At(c, x)' <=> Playing!At(c, x)
      /\ \A c : Playing!WillPlay(c)' <=> Playing!WillPlay(c)
  BY <1>1, <1>2, CallsStay
<1>4. /\ local' \in LocalRec /\ local \in LocalRec /\ media_at' \in {"stopped", "eof"}
      /\ (lost => lost') /\ (media_at' = "eof" => UNCHANGED <<local, lost>>)
      /\ (media_at' = "stopped" => local'.then = "exited" /\ lost') /\ decoder' \in DecoderRec
      /\ Playing!InTime'
  <2>1. /\ local' \in LocalRec /\ local \in LocalRec /\ media_at' \in {"stopped", "eof"}
        /\ (lost => lost') /\ (media_at' = "eof" => UNCHANGED <<local, lost>>)
        /\ (media_at' = "stopped" => local'.then = "exited" /\ lost')
    BY <1>1, <1>2 DEF PlayTypes, LocalRec
  <2>2. /\ decoder' \in DecoderRec /\ Playing!InTime'
    <3>1. CASE decoder' = Playing!Prepared /\ media_at' # "prepare"
      <4>1. /\ decoder' \in DecoderRec /\ decoder'.base_ts = decoder.base_ts
            /\ decoder'.start_ts = decoder.start_ts
            /\ \/ decoder' = decoder /\ (decoder.ready \/ decoder.eof)
               \/ decoder'.eof /\ ~decoder'.ready /\ decoder.pos = Frames /\ decoder'.pos = decoder.pos
                    /\ decoder'.pts = decoder.pts /\ decoder'.next_pts = decoder.next_pts
                    /\ ~decoder.ready /\ ~decoder.eof
               \/ decoder'.ready /\ ~decoder'.eof /\ decoder'.pos = decoder.pos + 1
                    /\ decoder'.pts = decoder.pos
                    /\ decoder'.next_pts = decoder.pos + 1 /\ ~decoder.ready
        BY <1>1, <3>1, PreparedParts DEF PlayTypes
      <4>2. last \in Int /\ last' = last /\ decoder \in DecoderRec
        BY <1>1, <1>2 DEF PlayTypes
      <4> QED
        BY <1>1, <3>1, <4>1, <4>2 DEF Playing!InTime, DecoderRec
    <3>2. CASE UNCHANGED decoder /\ media_at' # "prepare"
      BY <1>1, <1>2, <3>2 DEF Playing!InTime, PlayTypes
    <3> QED
      BY <1>2, <3>1, <3>2
  <2> QED
    BY <2>1, <2>2
<1>5. PlayTypes'
  BY <1>1, <1>2, <1>4 DEF PlayTypes
<1>6. OpenedIf'
  BY <1>1, <1>2, <1>3, <1>4 DEF OpenedIf, Shut, PlayTypes
<1>7. Playing!Woken'
  BY <1>1, <1>2, <1>3, <1>4 DEF Playing!Woken, PlayTypes, MediaRec
<1>8. Playing!Running'
  BY <1>1, <1>2, <1>3, <1>4 DEF Playing!Running, PlayTypes, MediaRec, LocalRec
<1>9. Playing!Obeyed'
  BY <1>1, <1>2, <1>3, <1>4 DEF Playing!Obeyed, PlayTypes, MediaRec, LocalRec
<1>10. Playing!AtFirst'
  BY <1>1, <1>2, <1>3, <1>4 DEF Playing!AtFirst, Playing!Running, PlayTypes
<1>11. Playing!InTime'
  BY <1>4
<1> QED
  BY <1>3, <1>5, <1>6, <1>7, <1>8, <1>9, <1>10, <1>11, PlayingParts, PTL

LEMMA EofKeeps ==
  ASSUME Playing!IInv, Playing!Eof
  PROVE  Playing!IInv'
<1> USE DEF Playing!Callers, Playing!InCall, Playing!Loop
<1>1. /\ PlayTypes /\ TodoOK /\ OpenedIf /\ Playing!Woken
      /\ Playing!Running /\ Playing!Obeyed /\ Playing!AtFirst /\ Playing!InTime
  BY PlayingParts
<1>2. /\ media_at = "eof"
      /\ \E ends \in BOOLEAN :
           /\ ends => ~decoder.ready
           /\ media' = [media EXCEPT !.active = @ /\ ~ends, !.stopping = @ \/ ends]
           /\ media_wanted' = (media_wanted /\ (ends => media.reset))
           /\ lost' = (lost \/ (ends /\ media_wanted /\ media.reset))
      /\ media_at' = IF decoder.ready THEN "top" ELSE "reset"
      /\ UNCHANGED <<settings, media_source, decoder, local, media_todo, requests, last>>
  BY DEF PlayTypes, MediaRec, DecoderRec, Playing!Eof
<1>3. /\ TodoOK' /\ \A c, x : Playing!At(c, x)' <=> Playing!At(c, x)
      /\ \A c : Playing!WillPlay(c)' <=> Playing!WillPlay(c)
  BY <1>1, <1>2, CallsStay
<1>4. /\ media' \in MediaRec /\ media \in MediaRec /\ media'.looping = media.looping
      /\ media'.reset = media.reset /\ media'.kill = media.kill /\ media'.sem = media.sem
      /\ (decoder.ready => media'.active = media.active)
      /\ (media'.active => media.active /\ (media_wanted => media_wanted'))
      /\ (media_wanted' => media_wanted) /\ lost' \in BOOLEAN /\ media_wanted' \in BOOLEAN
      /\ (lost => lost') /\ (media_wanted' /\ ~lost' => media'.active = media.active)
  BY <1>1, <1>2 DEF PlayTypes, MediaRec, DecoderRec
<1>5. PlayTypes'
  BY <1>1, <1>2, <1>4 DEF PlayTypes
<1>6. OpenedIf'
  BY <1>1, <1>2, <1>3, <1>4 DEF OpenedIf, Shut, PlayTypes
<1>7. Playing!Woken'
  BY <1>1, <1>2, <1>3, <1>4 DEF Playing!Woken, PlayTypes, MediaRec
<1>8. Playing!Running'
  BY <1>1, <1>2, <1>3, <1>4 DEF Playing!Running, PlayTypes, MediaRec, LocalRec
<1>9. Playing!Obeyed'
  BY <1>1, <1>2, <1>3, <1>4 DEF Playing!Obeyed, PlayTypes, MediaRec, LocalRec
<1>10. Playing!AtFirst'
  BY <1>1, <1>2, <1>3, <1>4 DEF Playing!AtFirst, PlayTypes,
     MediaRec, DecoderRec, LocalRec, SettingsRec
<1>11. Playing!InTime'
  BY <1>1, <1>2, <1>3, <1>4 DEF Playing!InTime, PlayTypes, DecoderRec
<1> QED
  BY <1>3, <1>5, <1>6, <1>7, <1>8, <1>9, <1>10, <1>11, PlayingParts, PTL

----------------------------------------------------------------------------
(* The steps of the calls.                                                 *)

\* What a call does not change of another one.
Stays(d) == /\ \A x : Playing!At(d, x)' <=> Playing!At(d, x)
            /\ Playing!WillPlay(d)' <=> Playing!WillPlay(d)

InStep(c, op) == \A x : Playing!At(c, x) <=> x = op

LEMMA OneStep ==
  ASSUME TodoOK, NEW c \in {"graphics", "hotkey"}, NEW op, Playing!At(c, op)
  PROVE  /\ op \in Steps /\ InStep(c, op) /\ ~Playing!Idle(c)
         /\ c = "hotkey" => op \in {"open", "valid", "play"}
<1> DEFINE t == media_todo[c]
<1>1. t \in Seq(Steps) /\ t # <<>> /\ op = t[1]
  BY DEF TodoOK, Playing!At, Playing!Idle
<1>2. 1 \in DOMAIN t
  BY <1>1
<1> QED
  BY <1>1, <1>2 DEF TodoOK, InStep, Playing!At, Playing!Idle

LEMMA HotkeyPlays ==
  TodoOK => \A x : Playing!At("hotkey", x) => x \in {"open", "valid", "play"}
BY OneStep

\* A call begins.
LEMMA StepsBegin ==
  ASSUME TodoOK, NEW c \in {"graphics", "hotkey"}, NEW s \in Seq(Steps), Len(s) > 1, InOrder(s),
         c = "hotkey" => \A i \in DOMAIN s : s[i] \in {"open", "valid", "play"},
         media_todo' = [media_todo EXCEPT ![c] = s]
  PROVE  /\ TodoOK'
         /\ \A d \in {"graphics", "hotkey"} \ {c} : media_todo'[d] = media_todo[d]
         /\ \A y : Playing!At(c, y)' <=> y = s[1]
         /\ Playing!WillPlay(c)' <=> s[2] = "play"
<1>1. /\ media_todo' \in [{"graphics", "hotkey"} -> Seq(Steps)] /\ media_todo'[c] = s
      /\ \A d \in {"graphics", "hotkey"} \ {c} : media_todo'[d] = media_todo[d]
  BY DEF TodoOK
<1>2. \A d \in {"graphics", "hotkey"} : InOrder(media_todo'[d])
  BY <1>1 DEF TodoOK
<1>3. \A i \in DOMAIN media_todo'["hotkey"] :
        media_todo'["hotkey"][i] \in {"open", "valid", "play"}
  BY <1>1 DEF TodoOK
<1>4. TodoOK'
  BY <1>1, <1>2, <1>3 DEF TodoOK, InOrder, Playing!After, Ends
<1>5. s # <<>> /\ s[1] = Head(s)
  OBVIOUS
<1> QED
  BY <1>1, <1>4, <1>5 DEF Playing!At, Playing!Idle, Playing!WillPlay

LEMMA Idles ==
  ASSUME NEW c, Playing!Idle(c)
  PROVE  \A x : ~Playing!At(c, x)
  BY DEF Playing!At

\* Sequences put together, place by place.
LEMMA PutTogether ==
  ASSUME NEW a \in Seq(Steps), NEW b \in Seq(Steps), NEW c \in Seq(Steps),
         Len(c) = Len(a) + Len(b), \A i \in 1..Len(a) : c[i] = a[i],
         \A i \in 1..Len(b) : c[i + Len(a)] = b[i]
  PROVE  a \o b = c
<1> DEFINE s == a \o b
<1>1. /\ s \in Seq(Steps) /\ Len(s) = Len(a) + Len(b) /\ Len(a) \in Nat /\ Len(b) \in Nat
      /\ \A i \in 1..Len(a) : s[i] = a[i]
      /\ \A i \in 1..Len(b) : s[i + Len(a)] = b[i]
  OBVIOUS
<1> HIDE DEF s
<1>2. ASSUME NEW i \in 1..Len(s)
      PROVE  s[i] = c[i]
  <2>1. CASE i <= Len(a)
    BY <1>1, <2>1
  <2>2. CASE i > Len(a)
    <3>1. i - Len(a) \in 1..Len(b) /\ (i - Len(a)) + Len(a) = i
      BY <1>1, <2>2
    <3> QED
      BY <1>1, <3>1
  <2> QED
    BY <1>1, <2>1, <2>2
<1>3. s = c
  BY <1>1, <1>2
<1> QED
  BY <1>3 DEF s

LEMMA ReopenedCall == <<"open">> \o <<"open", "play">> = <<"open", "open", "play">>
<1> DEFINE a == <<"open">>
           b == <<"open", "play">>
           c == <<"open", "open", "play">>
<1>1. /\ a \in Seq(Steps) /\ Len(a) = 1 /\ a[1] = "open"
      /\ b \in Seq(Steps) /\ Len(b) = 2 /\ b[1] = "open" /\ b[2] = "play"
      /\ c \in Seq(Steps) /\ Len(c) = 3 /\ c[1] = "open" /\ c[2] = "open" /\ c[3] = "play"
  BY DEF Steps
<1> HIDE DEF a, b, c
<1>2. \A i \in 1..Len(a) : c[i] = a[i]
  BY <1>1
<1>3. ASSUME NEW i \in 1..Len(b) PROVE c[i + Len(a)] = b[i]
  <2>1. (i = 1 /\ i + Len(a) = 2) \/ (i = 2 /\ i + Len(a) = 3)
    BY <1>1, <1>3
  <2> QED
    BY <1>1, <2>1
<1>4. Len(c) = Len(a) + Len(b)
  BY <1>1
<1>5. a \in Seq(Steps) /\ b \in Seq(Steps) /\ c \in Seq(Steps)
  BY <1>1
<1>6. a \o b = c
  BY <1>2, <1>3, <1>4, <1>5, PutTogether
<1> QED
  BY <1>6 DEF a, b, c

LEMMA TickedCall ==
  <<"update", "updated">> \o <<"refs", "tick">> = <<"update", "updated", "refs", "tick">>
<1> DEFINE a == <<"update", "updated">>
           b == <<"refs", "tick">>
           c == <<"update", "updated", "refs", "tick">>
<1>1. /\ a \in Seq(Steps) /\ Len(a) = 2 /\ a[1] = "update" /\ a[2] = "updated"
      /\ b \in Seq(Steps) /\ Len(b) = 2 /\ b[1] = "refs" /\ b[2] = "tick"
      /\ c \in Seq(Steps) /\ Len(c) = 4 /\ c[1] = "update" /\ c[2] = "updated"
      /\ c[3] = "refs" /\ c[4] = "tick"
  BY DEF Steps
<1> HIDE DEF a, b, c
<1>2. ASSUME NEW i \in 1..Len(a) PROVE c[i] = a[i]
  <2>1. i = 1 \/ i = 2
    BY <1>1
  <2> QED
    BY <1>1, <2>1
<1>3. ASSUME NEW i \in 1..Len(b) PROVE c[i + Len(a)] = b[i]
  <2>1. (i = 1 /\ i + Len(a) = 3) \/ (i = 2 /\ i + Len(a) = 4)
    BY <1>1
  <2> QED
    BY <1>1, <2>1
<1>4. Len(c) = Len(a) + Len(b)
  BY <1>1
<1>5. a \in Seq(Steps) /\ b \in Seq(Steps) /\ c \in Seq(Steps)
  BY <1>1
<1>6. a \o b = c
  BY <1>2, <1>3, <1>4, <1>5, PutTogether
<1> QED
  BY <1>6 DEF a, b, c

LEMMA MediaPlayKeeps ==
  ASSUME Playing!IInv, ~Playing!Raced, NEW c \in {"graphics", "hotkey"}, Playing!MediaPlay(c)
  PROVE  Playing!IInv'
<1> USE DEF Playing!Callers, Playing!InCall, Playing!Loop
<1>1. /\ PlayTypes /\ TodoOK /\ OpenedIf /\ Playing!Woken
      /\ Playing!Running /\ Playing!Obeyed /\ Playing!AtFirst /\ Playing!InTime
  BY PlayingParts
<1>2. /\ Playing!At(c, "play") /\ Playing!Then(c, <<>>) /\ media_source.media_valid
      /\ media' = [media EXCEPT !.reset = @ \/ media.active, !.active = TRUE,
                                !.looping = settings.is_looping, !.sem = @ + 1]
      /\ media_wanted' = TRUE
      /\ lost' = (lost /\ (media_at = "exited" \/ (media_at = "stopped" /\ local.then = "exited")))
      /\ UNCHANGED <<settings, media_source, decoder, media_at, local, requests, last>>
  BY <1>1 DEF OpenedIf, Playing!MediaPlay, Playing!Playing
<1>3. /\ TodoOK' /\ \A d \in {"graphics", "hotkey"} \ {c} : Stays(d)
      /\ \A x : Playing!At(c, x)' => x \in {"updated", "tick"}
      /\ Playing!WillPlay(c) => Playing!At(c, "play")'
      /\ \A x, y : Playing!At(c, x)' /\ Playing!At(c, y)' => x = y
      /\ InStep(c, "play") /\ \A x : Playing!At("hotkey", x) => x \in {"open", "valid", "play"}
  <2>1. /\ TodoOK' /\ \A d \in {"graphics", "hotkey"} \ {c} : media_todo'[d] = media_todo[d]
        /\ \A x : Playing!At(c, x)' => x \in Playing!After["play"]
        /\ Playing!WillPlay(c) => Playing!At(c, "play")'
    BY <1>1, <1>2, StepDone, StepsOfCalls DEF Steps, Ends
  <2>2. \A d \in {"graphics", "hotkey"} \ {c} : Stays(d)
    BY <2>1, OtherCall DEF Stays
  <2>3. \A x, y : Playing!At(c, x)' /\ Playing!At(c, y)' => x = y
    BY DEF Playing!At
  <2> QED
    BY <1>1, <1>2, <2>1, <2>2, <2>3, OneStep, HotkeyPlays, StepsOfCalls
<1>4. /\ settings.is_looping \in BOOLEAN /\ media' \in MediaRec /\ media \in MediaRec
      /\ media'.stopping = media.stopping /\ media'.kill = media.kill /\ media'.active
      /\ media'.sem > 0 /\ settings \in SettingsRec
  <2>1. /\ settings.is_looping \in BOOLEAN
    BY <1>1 DEF PlayTypes, SettingsRec
  <2>2. /\ media' \in MediaRec /\ media \in MediaRec /\ media'.stopping = media.stopping
        /\ media'.kill = media.kill /\ media'.active /\ media'.sem > 0
    <3> DEFINE r == media.reset \/ media.active
               n == media.sem + 1
               l == settings.is_looping
    <3>1. media \in MediaRec /\ r \in BOOLEAN /\ n \in Nat /\ n > 0 /\ l \in BOOLEAN
      BY <1>1, <2>1 DEF PlayTypes, MediaRec
    <3>2. media' = [media EXCEPT !.reset = r, !.active = TRUE, !.looping = l, !.sem = n]
      BY <1>2
    <3> HIDE DEF r, n, l
    <3> QED
      BY <3>1, <3>2 DEF MediaRec
  <2>3. /\ settings \in SettingsRec
    BY <1>1 DEF PlayTypes
  <2> QED
    BY <2>1, <2>2, <2>3
<1>5. PlayTypes'
  BY <1>1, <1>2, <1>4 DEF PlayTypes
<1>6. OpenedIf'
  BY <1>1, <1>2, <1>3, <1>4 DEF Stays, InStep, OpenedIf, Shut, PlayTypes
<1>7. Playing!Woken'
  BY <1>1, <1>2, <1>3, <1>4 DEF Stays, InStep, Playing!Woken, PlayTypes, MediaRec
<1>8. Playing!Running'
  BY <1>1, <1>2, <1>3, <1>4 DEF Stays, InStep, Playing!Running, PlayTypes, MediaRec, LocalRec
<1>9. Playing!Obeyed'
  BY <1>1, <1>2, <1>3, <1>4 DEF Stays, InStep, Playing!Obeyed, PlayTypes, MediaRec, LocalRec
<1>10. Playing!AtFirst'
  BY <1>1, <1>2, <1>3, <1>4 DEF Stays, InStep, Playing!AtFirst, PlayTypes,
     MediaRec, DecoderRec, LocalRec, SettingsRec
<1>11. Playing!InTime'
  BY <1>1, <1>2, <1>3, <1>4 DEF Stays, InStep, Playing!InTime, PlayTypes, DecoderRec
<1> QED
  BY <1>3, <1>5, <1>6, <1>7, <1>8, <1>9, <1>10, <1>11, PlayingParts, PTL

LEMMA MediaStopKeeps ==
  ASSUME Playing!IInv, ~Playing!Raced, NEW c \in {"graphics", "hotkey"}, Playing!MediaStop(c)
  PROVE  Playing!IInv'
<1> USE DEF Playing!Callers, Playing!InCall, Playing!Loop
<1>1. /\ PlayTypes /\ TodoOK /\ OpenedIf /\ Playing!Woken
      /\ Playing!Running /\ Playing!Obeyed /\ Playing!AtFirst /\ Playing!InTime
  BY PlayingParts
<1>0. c = "graphics"
  BY <1>1, HotkeyPlays DEF Playing!MediaStop
<1>2. /\ Playing!At("graphics", "stop") /\ Playing!Then("graphics", <<>>)
      /\ media' = IF media.active
                  THEN [media EXCEPT !.reset = TRUE, !.active = FALSE, !.stopping = TRUE, !.sem = @ + 1]
                  ELSE media
      /\ media_wanted' = FALSE
      /\ UNCHANGED <<settings, media_source, decoder, media_at, local, requests, lost, last>>
  BY <1>0, <1>1 DEF Playing!MediaStop, Playing!StopPlaying
<1>3. /\ TodoOK' /\ Stays("hotkey") /\ InStep("graphics", "stop")
      /\ \A x : Playing!At("graphics", x)' => x \in {"tick"}
      /\ \E x \in {"tick"} : Playing!At("graphics", x)'
      /\ \A x : Playing!At("hotkey", x) => x \in {"open", "valid", "play"}
  <2>1. /\ TodoOK'
        /\ \A d \in {"graphics", "hotkey"} \ {"graphics"} : media_todo'[d] = media_todo[d]
        /\ \A x : Playing!At("graphics", x)' => x \in Playing!After["stop"]
        /\ \E x \in Playing!After["stop"] : Playing!At("graphics", x)'
    BY <1>1, <1>2, StepDone, StepsOfCalls DEF Steps, Ends
  <2>2. Stays("hotkey")
    BY <2>1, OtherCall DEF Stays
  <2> QED
    BY <1>1, <1>2, <2>1, <2>2, OneStep, HotkeyPlays, StepsOfCalls
<1>4. /\ media' \in MediaRec /\ media \in MediaRec /\ media'.looping = media.looping
      /\ media'.kill = media.kill /\ (media'.active => media.active /\ ~media.active)
      /\ (media'.reset <=> media.reset \/ media.active) /\ (media.active => media'.sem > 0)
      /\ (~media.active => media' = media) /\ (media.sem > 0 => media'.sem > 0)
  <2>1. media \in MediaRec
    BY <1>1 DEF PlayTypes
  <2>2. CASE media.active
    <3>1. /\ media' = [media EXCEPT !.reset = TRUE, !.active = FALSE, !.stopping = TRUE, !.sem = @ + 1]
          /\ media.sem + 1 \in Nat /\ media.sem + 1 > 0
      BY <1>2, <2>1, <2>2 DEF MediaRec
    <3> QED
      BY <2>1, <2>2, <3>1 DEF MediaRec
  <2>3. CASE ~media.active
    BY <1>2, <2>1, <2>3 DEF MediaRec
  <2> QED
    BY <2>2, <2>3
<1>5. PlayTypes'
  BY <1>1, <1>2, <1>4 DEF PlayTypes
<1>6. OpenedIf'
  BY <1>1, <1>2, <1>3, <1>4 DEF Stays, InStep, OpenedIf, Shut, PlayTypes
<1>7. Playing!Woken'
  BY <1>1, <1>2, <1>3, <1>4 DEF Stays, InStep, Playing!Woken, PlayTypes, MediaRec
<1>8. Playing!Running'
  BY <1>1, <1>2, <1>3, <1>4 DEF Stays, InStep, Playing!Running, PlayTypes, MediaRec, LocalRec
<1>9. Playing!Obeyed'
  BY <1>1, <1>2, <1>3, <1>4 DEF Stays, InStep, Playing!Obeyed, PlayTypes, MediaRec, LocalRec
<1>10. Playing!AtFirst'
  BY <1>1, <1>2, <1>3, <1>4 DEF Stays, InStep, Playing!AtFirst, PlayTypes,
     MediaRec, DecoderRec, LocalRec, SettingsRec
<1>11. Playing!InTime'
  BY <1>1, <1>2, <1>3, <1>4 DEF Stays, InStep, Playing!InTime, PlayTypes, DecoderRec
<1> QED
  BY <1>3, <1>5, <1>6, <1>7, <1>8, <1>9, <1>10, <1>11, PlayingParts, PTL

LEMMA KillKeeps ==
  ASSUME Playing!IInv, ~Playing!Raced, NEW c \in {"graphics", "hotkey"}, Playing!Kill(c)
  PROVE  Playing!IInv'
<1> USE DEF Playing!Callers, Playing!InCall, Playing!Loop
<1>1. /\ PlayTypes /\ TodoOK /\ OpenedIf /\ Playing!Woken
      /\ Playing!Running /\ Playing!Obeyed /\ Playing!AtFirst /\ Playing!InTime
  BY PlayingParts
<1>0. c = "graphics"
  BY <1>1, HotkeyPlays DEF Playing!Kill
<1>2. /\ Playing!At("graphics", "kill") /\ Playing!Then("graphics", <<>>)
      /\ media' = [media EXCEPT !.kill = TRUE, !.sem = @ + 1]
      /\ UNCHANGED <<settings, media_source, decoder, media_at, local, requests, media_wanted,
                     lost, last>>
  BY <1>0, <1>1 DEF Playing!Kill
<1>3. /\ TodoOK' /\ Stays("hotkey") /\ InStep("graphics", "kill")
      /\ \A x : Playing!At("graphics", x)' => x \in {"join"}
      /\ \E x \in {"join"} : Playing!At("graphics", x)'
      /\ \A x : Playing!At("hotkey", x) => x \in {"open", "valid", "play"}
  <2>1. /\ TodoOK'
        /\ \A d \in {"graphics", "hotkey"} \ {"graphics"} : media_todo'[d] = media_todo[d]
        /\ \A x : Playing!At("graphics", x)' => x \in Playing!After["kill"]
        /\ \E x \in Playing!After["kill"] : Playing!At("graphics", x)'
    BY <1>1, <1>2, StepDone, StepsOfCalls DEF Steps, Ends
  <2>2. Stays("hotkey")
    BY <2>1, OtherCall DEF Stays
  <2> QED
    BY <1>1, <1>2, <2>1, <2>2, OneStep, HotkeyPlays, StepsOfCalls
<1>4. /\ media.sem + 1 \in Nat /\ media.sem + 1 > 0 /\ media \in MediaRec /\ media' \in MediaRec
      /\ media \in MediaRec /\ media'.active = media.active /\ media'.stopping = media.stopping
      /\ media'.looping = media.looping /\ media'.reset = media.reset /\ media'.kill
      /\ media'.sem > 0
  <2>1. /\ media.sem + 1 \in Nat /\ media.sem + 1 > 0 /\ media \in MediaRec
    BY <1>1 DEF PlayTypes, MediaRec
  <2>2. /\ media' \in MediaRec /\ media \in MediaRec /\ media'.active = media.active
        /\ media'.stopping = media.stopping /\ media'.looping = media.looping
        /\ media'.reset = media.reset /\ media'.kill /\ media'.sem > 0
    BY <1>2, <2>1 DEF MediaRec
  <2> QED
    BY <2>1, <2>2
<1>5. PlayTypes'
  BY <1>1, <1>2, <1>4 DEF PlayTypes
<1>6. OpenedIf'
  BY <1>1, <1>2, <1>3, <1>4 DEF Stays, InStep, OpenedIf, Shut, PlayTypes
<1>7. Playing!Woken'
  BY <1>1, <1>2, <1>3, <1>4 DEF Stays, InStep, Playing!Woken, PlayTypes, MediaRec
<1>8. Playing!Running'
  BY <1>1, <1>2, <1>3, <1>4 DEF Stays, InStep, Playing!Running, PlayTypes, MediaRec, LocalRec
<1>9. Playing!Obeyed'
  BY <1>1, <1>2, <1>3, <1>4 DEF Stays, InStep, Playing!Obeyed, PlayTypes, MediaRec, LocalRec
<1>10. Playing!AtFirst'
  BY <1>1, <1>2, <1>3, <1>4 DEF Stays, InStep, Playing!AtFirst, PlayTypes,
     MediaRec, DecoderRec, LocalRec, SettingsRec
<1>11. Playing!InTime'
  BY <1>1, <1>2, <1>3, <1>4 DEF Stays, InStep, Playing!InTime, PlayTypes, DecoderRec
<1> QED
  BY <1>3, <1>5, <1>6, <1>7, <1>8, <1>9, <1>10, <1>11, PlayingParts, PTL

LEMMA JoinKeeps ==
  ASSUME Playing!IInv, ~Playing!Raced, NEW c \in {"graphics", "hotkey"}, Playing!Join(c)
  PROVE  Playing!IInv'
<1> USE DEF Playing!Callers, Playing!InCall, Playing!Loop
<1>1. /\ PlayTypes /\ TodoOK /\ OpenedIf /\ Playing!Woken
      /\ Playing!Running /\ Playing!Obeyed /\ Playing!AtFirst /\ Playing!InTime
  BY PlayingParts
<1>0. c = "graphics"
  BY <1>1, HotkeyPlays DEF Playing!Join
<1>2. /\ Playing!At("graphics", "join") /\ Playing!Then("graphics", <<>>)
      /\ media_at' = "none"
      /\ media' = Playing!Closed /\ decoder' = Playing!Unread /\ local' = Playing!Fresh /\ last' = -1
      /\ media_source' = [media_source EXCEPT !.media_valid = FALSE]
      /\ lost' = (lost \/ media_wanted)
      /\ UNCHANGED <<settings, requests, media_wanted>>
  BY <1>0, <1>1 DEF Playing!Join
<1>3. /\ TodoOK' /\ Stays("hotkey") /\ InStep("graphics", "join")
      /\ \A x : Playing!At("graphics", x)' => x \in {"reopen", "closed"}
      /\ \E x \in {"reopen", "closed"} : Playing!At("graphics", x)'
      /\ \A x : Playing!At("hotkey", x) => x \in {"open", "valid", "play"}
  <2>1. /\ TodoOK'
        /\ \A d \in {"graphics", "hotkey"} \ {"graphics"} : media_todo'[d] = media_todo[d]
        /\ \A x : Playing!At("graphics", x)' => x \in Playing!After["join"]
        /\ \E x \in Playing!After["join"] : Playing!At("graphics", x)'
    BY <1>1, <1>2, StepDone, StepsOfCalls DEF Steps, Ends
  <2>2. Stays("hotkey")
    BY <2>1, OtherCall DEF Stays
  <2> QED
    BY <1>1, <1>2, <2>1, <2>2, OneStep, HotkeyPlays, StepsOfCalls
<1>4. /\ media' \in MediaRec /\ decoder' \in DecoderRec /\ local' \in LocalRec /\ last' = -1
      /\ Shut' /\ decoder'.base_ts = 0 /\ decoder'.pos = 0 /\ decoder'.pts = 0
      /\ decoder'.next_pts = 0 /\ decoder'.start_ts = 0 /\ ~decoder'.ready
      /\ media_source' \in SourceRec /\ media_source \in SourceRec
      /\ media_source'.shown = media_source.shown /\ media_source'.active = media_source.active
      /\ media_source'.defer_update = media_source.defer_update
      /\ media_source'.destroy_media = media_source.destroy_media /\ ~media_source'.media_valid
      /\ \A x : ~Playing!At("hotkey", x)
  <2>1. /\ media' \in MediaRec /\ decoder' \in DecoderRec /\ local' \in LocalRec /\ last' = -1
        /\ Shut'
    BY <1>2 DEF MediaRec, DecoderRec, LocalRec, Shut, Playing!Closed, Playing!Unread, Playing!Fresh
  <2>2. /\ decoder'.base_ts = 0 /\ decoder'.pos = 0 /\ decoder'.pts = 0 /\ decoder'.next_pts = 0
        /\ decoder'.start_ts = 0 /\ ~decoder'.ready
    BY <1>2 DEF Playing!Unread
  <2>3. /\ media_source' \in SourceRec /\ media_source \in SourceRec
        /\ media_source'.shown = media_source.shown /\ media_source'.active = media_source.active
        /\ media_source'.defer_update = media_source.defer_update
        /\ media_source'.destroy_media = media_source.destroy_media /\ ~media_source'.media_valid
    BY <1>1, <1>2 DEF PlayTypes, MediaRec, SourceRec
  <2>4. /\ \A x : ~Playing!At("hotkey", x)
    BY <1>2, Idles DEF Playing!Raced, Playing!Callers
  <2> QED
    BY <2>1, <2>2, <2>3, <2>4
<1>5. PlayTypes'
  BY <1>1, <1>2, <1>4 DEF PlayTypes
<1>6. OpenedIf'
  BY <1>1, <1>2, <1>3, <1>4 DEF Stays, InStep, OpenedIf, PlayTypes
<1>7. Playing!Woken'
  BY <1>1, <1>2, <1>3, <1>4 DEF Stays, InStep, Shut, Playing!Woken
<1>8. Playing!Running'
  BY <1>1, <1>2, <1>3, <1>4 DEF Stays, InStep, Playing!Running, PlayTypes, MediaRec, LocalRec
<1>9. Playing!Obeyed'
  BY <1>1, <1>2, <1>3, <1>4 DEF Stays, InStep, Shut, Playing!Obeyed, PlayTypes
<1>10. Playing!AtFirst'
  BY <1>1, <1>2, <1>3, <1>4 DEF Stays, InStep, Playing!AtFirst, PlayTypes,
     MediaRec, DecoderRec, LocalRec, SettingsRec
<1>11. Playing!InTime'
  BY <1>2, <1>4 DEF Playing!InTime
<1> QED
  BY <1>3, <1>5, <1>6, <1>7, <1>8, <1>9, <1>10, <1>11, PlayingParts, PTL

LEMMA SourceUpdateKeeps ==
  ASSUME Playing!IInv, Playing!SourceUpdate
  PROVE  Playing!IInv'
<1> USE DEF Playing!Callers, Playing!InCall, Playing!Loop
<1>1. /\ PlayTypes /\ TodoOK /\ OpenedIf /\ Playing!Woken
      /\ Playing!Running /\ Playing!Obeyed /\ Playing!AtFirst /\ Playing!InTime
  BY PlayingParts
<1>2. /\ Playing!At("graphics", "update") /\ Playing!Then("graphics", <<"free", "reopen">>)
      /\ UNCHANGED <<settings, media_source, media, decoder, media_at, local, requests,
                     media_wanted, lost, last>>
  BY DEF Playing!SourceUpdate
<1>3. /\ TodoOK' /\ Stays("hotkey") /\ InStep("graphics", "update")
      /\ \A x : Playing!At("graphics", x)' <=> x = "free"
      /\ \A x : Playing!At("hotkey", x) => x \in {"open", "valid", "play"}
  <2> DEFINE s == <<"free", "reopen">>
  <2>1. s \in Seq(Steps) /\ Len(s) > 1 /\ DOMAIN s = 1..Len(s)
    BY DEF Steps
  <2>2. \A i \in 1..(Len(s) - 1) : s[i + 1] \in Playing!After[s[i]]
    BY StepsOfCalls
  <2>3. Playing!After["update"] \subseteq Playing!After[s[Len(s)]] /\ ("update" \in Ends => s[Len(s)] \in Ends)
    BY StepsOfCalls DEF Ends
  <2>4. "update" \in Steps /\ s[1] = "free" /\ Playing!Then("graphics", s) /\ Playing!At("graphics", "update")
    BY <1>2 DEF Steps
  <2> HIDE DEF s
  <2>5. /\ TodoOK'
        /\ \A d \in {"graphics", "hotkey"} \ {"graphics"} : media_todo'[d] = media_todo[d]
        /\ \A x : Playing!At("graphics", x)' <=> x = s[1]
    BY <1>1, <2>1, <2>2, <2>3, <2>4, StepsBecome
  <2>6. Stays("hotkey")
    BY <2>5, OtherCall DEF Stays
  <2> QED
    BY <1>1, <1>2, <2>4, <2>5, <2>6, OneStep, HotkeyPlays
<1>4. /\ media \in MediaRec /\ decoder \in DecoderRec /\ local \in LocalRec
  BY <1>1 DEF PlayTypes
<1>5. PlayTypes'
  BY <1>1, <1>2, <1>4 DEF PlayTypes
<1>6. OpenedIf'
  BY <1>1, <1>2, <1>3, <1>4 DEF Stays, InStep, OpenedIf, Shut, PlayTypes
<1>7. Playing!Woken'
  BY <1>1, <1>2, <1>3, <1>4 DEF Stays, InStep, Playing!Woken, PlayTypes, MediaRec
<1>8. Playing!Running'
  BY <1>1, <1>2, <1>3, <1>4 DEF Stays, InStep, Playing!Running, PlayTypes, MediaRec, LocalRec
<1>9. Playing!Obeyed'
  BY <1>1, <1>2, <1>3, <1>4 DEF Stays, InStep, Playing!Obeyed, PlayTypes, MediaRec, LocalRec
<1>10. Playing!AtFirst'
  BY <1>1, <1>2, <1>3, <1>4 DEF Stays, InStep, Playing!AtFirst, PlayTypes,
     MediaRec, DecoderRec, LocalRec, SettingsRec
<1>11. Playing!InTime'
  BY <1>1, <1>2, <1>3, <1>4 DEF Stays, InStep, Playing!InTime, PlayTypes, DecoderRec
<1> QED
  BY <1>3, <1>5, <1>6, <1>7, <1>8, <1>9, <1>10, <1>11, PlayingParts, PTL

LEMMA SourceUpdatedKeeps ==
  ASSUME Playing!IInv, Playing!SourceUpdated
  PROVE  Playing!IInv'
<1> USE DEF Playing!Callers, Playing!InCall, Playing!Loop
<1>1. /\ PlayTypes /\ TodoOK /\ OpenedIf /\ Playing!Woken
      /\ Playing!Running /\ Playing!Obeyed /\ Playing!AtFirst /\ Playing!InTime
  BY PlayingParts
<1>2. /\ Playing!At("graphics", "updated") /\ Playing!Then("graphics", <<>>)
      /\ media_source' = [media_source EXCEPT !.defer_update = FALSE]
      /\ UNCHANGED <<settings, media, decoder, media_at, local, requests, media_wanted, lost, last>>
  BY DEF Playing!SourceUpdated
<1>3. /\ TodoOK' /\ Stays("hotkey") /\ InStep("graphics", "updated")
      /\ \A x : Playing!At("graphics", x)' => x \in {"refs"}
      /\ \E x \in {"refs"} : Playing!At("graphics", x)'
      /\ \A x : Playing!At("hotkey", x) => x \in {"open", "valid", "play"}
  <2>1. /\ TodoOK'
        /\ \A d \in {"graphics", "hotkey"} \ {"graphics"} : media_todo'[d] = media_todo[d]
        /\ \A x : Playing!At("graphics", x)' => x \in Playing!After["updated"]
        /\ \E x \in Playing!After["updated"] : Playing!At("graphics", x)'
    BY <1>1, <1>2, StepDone, StepsOfCalls DEF Steps, Ends
  <2>2. Stays("hotkey")
    BY <2>1, OtherCall DEF Stays
  <2> QED
    BY <1>1, <1>2, <2>1, <2>2, OneStep, HotkeyPlays, StepsOfCalls
<1>4. /\ media_source' \in SourceRec /\ media_source \in SourceRec
      /\ media_source'.shown = media_source.shown /\ media_source'.active = media_source.active
      /\ media_source'.destroy_media = media_source.destroy_media
      /\ media_source'.media_valid = media_source.media_valid
  BY <1>1, <1>2 DEF PlayTypes, MediaRec, SourceRec
<1>5. PlayTypes'
  BY <1>1, <1>2, <1>4 DEF PlayTypes
<1>6. OpenedIf'
  BY <1>1, <1>2, <1>3, <1>4 DEF Stays, InStep, OpenedIf, Shut, PlayTypes
<1>7. Playing!Woken'
  BY <1>1, <1>2, <1>3, <1>4 DEF Stays, InStep, Playing!Woken, PlayTypes, MediaRec
<1>8. Playing!Running'
  BY <1>1, <1>2, <1>3, <1>4 DEF Stays, InStep, Playing!Running, PlayTypes, MediaRec, LocalRec
<1>9. Playing!Obeyed'
  BY <1>1, <1>2, <1>3, <1>4 DEF Stays, InStep, Playing!Obeyed, PlayTypes, MediaRec, LocalRec
<1>10. Playing!AtFirst'
  BY <1>1, <1>2, <1>3, <1>4 DEF Stays, InStep, Playing!AtFirst, PlayTypes,
     MediaRec, DecoderRec, LocalRec, SettingsRec
<1>11. Playing!InTime'
  BY <1>1, <1>2, <1>3, <1>4 DEF Stays, InStep, Playing!InTime, PlayTypes, DecoderRec
<1> QED
  BY <1>3, <1>5, <1>6, <1>7, <1>8, <1>9, <1>10, <1>11, PlayingParts, PTL

LEMMA SourceClosedKeeps ==
  ASSUME Playing!IInv, Playing!SourceClosed
  PROVE  Playing!IInv'
<1> USE DEF Playing!Callers, Playing!InCall, Playing!Loop
<1>1. /\ PlayTypes /\ TodoOK /\ OpenedIf /\ Playing!Woken
      /\ Playing!Running /\ Playing!Obeyed /\ Playing!AtFirst /\ Playing!InTime
  BY PlayingParts
<1>2. /\ Playing!At("graphics", "closed") /\ Playing!Then("graphics", <<>>)
      /\ media_source' = [media_source EXCEPT !.destroy_media = FALSE]
      /\ UNCHANGED <<settings, media, decoder, media_at, local, requests, media_wanted, lost, last>>
  BY DEF Playing!SourceClosed
<1>3. /\ TodoOK' /\ Stays("hotkey") /\ InStep("graphics", "closed")
      /\ \A x : Playing!At("graphics", x)' => x \in {}
      /\ \A x : Playing!At("hotkey", x) => x \in {"open", "valid", "play"}
  <2>1. /\ TodoOK'
        /\ \A d \in {"graphics", "hotkey"} \ {"graphics"} : media_todo'[d] = media_todo[d]
        /\ \A x : Playing!At("graphics", x)' => x \in Playing!After["closed"]
    BY <1>1, <1>2, StepDone, StepsOfCalls DEF Steps, Ends
  <2>2. Stays("hotkey")
    BY <2>1, OtherCall DEF Stays
  <2> QED
    BY <1>1, <1>2, <2>1, <2>2, OneStep, HotkeyPlays, StepsOfCalls
<1>4. /\ media_source' \in SourceRec /\ media_source \in SourceRec
      /\ media_source'.shown = media_source.shown /\ media_source'.active = media_source.active
      /\ media_source'.defer_update = media_source.defer_update
      /\ media_source'.media_valid = media_source.media_valid
  BY <1>1, <1>2 DEF PlayTypes, MediaRec, SourceRec
<1>5. PlayTypes'
  BY <1>1, <1>2, <1>4 DEF PlayTypes
<1>6. OpenedIf'
  BY <1>1, <1>2, <1>3, <1>4 DEF Stays, InStep, OpenedIf, Shut, PlayTypes
<1>7. Playing!Woken'
  BY <1>1, <1>2, <1>3, <1>4 DEF Stays, InStep, Playing!Woken, PlayTypes, MediaRec
<1>8. Playing!Running'
  BY <1>1, <1>2, <1>3, <1>4 DEF Stays, InStep, Playing!Running, PlayTypes, MediaRec, LocalRec
<1>9. Playing!Obeyed'
  BY <1>1, <1>2, <1>3, <1>4 DEF Stays, InStep, Playing!Obeyed, PlayTypes, MediaRec, LocalRec
<1>10. Playing!AtFirst'
  BY <1>1, <1>2, <1>3, <1>4 DEF Stays, InStep, Playing!AtFirst, PlayTypes,
     MediaRec, DecoderRec, LocalRec, SettingsRec
<1>11. Playing!InTime'
  BY <1>1, <1>2, <1>3, <1>4 DEF Stays, InStep, Playing!InTime, PlayTypes, DecoderRec
<1> QED
  BY <1>3, <1>5, <1>6, <1>7, <1>8, <1>9, <1>10, <1>11, PlayingParts, PTL

LEMMA MediaFreeKeeps ==
  ASSUME Playing!IInv, ~Playing!Raced, NEW c \in {"graphics", "hotkey"}, Playing!MediaFree(c)
  PROVE  Playing!IInv'
<1> USE DEF Playing!Callers, Playing!InCall, Playing!Loop
<1>1. /\ PlayTypes /\ TodoOK /\ OpenedIf /\ Playing!Woken
      /\ Playing!Running /\ Playing!Obeyed /\ Playing!AtFirst /\ Playing!InTime
  BY PlayingParts
<1>0. c = "graphics"
  BY <1>1, HotkeyPlays DEF Playing!MediaFree
<1>2. /\ Playing!At("graphics", "free")
      /\ \/ media_source.media_valid /\ Playing!Then("graphics", <<"kill", "join">>)
         \/ ~media_source.media_valid /\ Playing!Then("graphics", <<>>)
      /\ media' = IF media.active
                  THEN [media EXCEPT !.reset = TRUE, !.active = FALSE, !.stopping = TRUE, !.sem = @ + 1]
                  ELSE media
      /\ UNCHANGED <<settings, media_source, decoder, media_at, local, requests, media_wanted,
                     lost, last>>
  BY <1>0, <1>1 DEF OpenedIf, Shut, Playing!MediaFree, Playing!StopPlaying
<1>3. /\ TodoOK' /\ Stays("hotkey") /\ InStep("graphics", "free")
      /\ (\A x : Playing!At("hotkey", x) => x \in {"open", "valid", "play"})
      /\ (media_source.media_valid => \A x : Playing!At("graphics", x)' <=> x = "kill")
      /\ (~media_source.media_valid => \A x : Playing!At("graphics", x)' => x \in {"reopen", "closed"})
  <2>1. InStep("graphics", "free") /\ \A x : Playing!At("hotkey", x) => x \in {"open", "valid", "play"}
    BY <1>1, <1>2, OneStep, HotkeyPlays
  <2>2. ASSUME Playing!Then("graphics", <<"kill", "join">>)
        PROVE  /\ TodoOK' /\ Stays("hotkey") /\ (\A x : Playing!At("graphics", x)' <=> x = "kill")
    <3> DEFINE s == <<"kill", "join">>
    <3>1. s \in Seq(Steps) /\ Len(s) > 1 /\ DOMAIN s = 1..Len(s)
      BY DEF Steps
    <3>2. \A i \in 1..(Len(s) - 1) : s[i + 1] \in Playing!After[s[i]]
      BY StepsOfCalls
    <3>3. /\ Playing!After["free"] \subseteq Playing!After[s[Len(s)]]
          /\ "free" \in Ends => s[Len(s)] \in Ends
      BY StepsOfCalls DEF Ends
    <3>4. /\ "free" \in Steps /\ s[1] = "kill" /\ s[2] = "join"
          /\ Playing!Then("graphics", s) /\ Playing!At("graphics", "free")
      BY <1>2, <2>2 DEF Steps
    <3> HIDE DEF s
    <3>5. /\ TodoOK'
          /\ \A d \in {"graphics", "hotkey"} \ {"graphics"} : media_todo'[d] = media_todo[d]
          /\ \A x : Playing!At("graphics", x)' <=> x = s[1]
          /\ Playing!WillPlay("graphics")' <=> s[2] = "play"
      BY <1>1, <3>1, <3>2, <3>3, <3>4, StepsBecome
    <3> QED
      BY <3>4, <3>5, OtherCall DEF Stays
  <2>3. ASSUME Playing!Then("graphics", <<>>)
        PROVE  /\ TodoOK' /\ Stays("hotkey")
               /\ (\A x : Playing!At("graphics", x)' => x \in {"reopen", "closed"})
    <3>1. /\ TodoOK'
          /\ \A d \in {"graphics", "hotkey"} \ {"graphics"} : media_todo'[d] = media_todo[d]
          /\ \A x : Playing!At("graphics", x)' => x \in Playing!After["free"]
          /\ \E x \in Playing!After["free"] : Playing!At("graphics", x)'
      BY <1>1, <1>2, <2>3, StepDone, StepsOfCalls DEF Steps, Ends
    <3> QED
      BY <2>3, <3>1, OtherCall, StepsOfCalls DEF Stays
  <2> QED
    BY <1>2, <2>1, <2>2, <2>3
<1>4. /\ media' \in MediaRec /\ media \in MediaRec /\ media'.looping = media.looping
      /\ media'.kill = media.kill /\ (media'.active => media.active /\ ~media.active)
      /\ (media'.reset <=> media.reset \/ media.active) /\ (media.active => media'.sem > 0)
      /\ (~media.active => media' = media) /\ (media.sem > 0 => media'.sem > 0)
  <2>1. media \in MediaRec
    BY <1>1 DEF PlayTypes
  <2>2. CASE media.active
    <3>1. /\ media' = [media EXCEPT !.reset = TRUE, !.active = FALSE, !.stopping = TRUE, !.sem = @ + 1]
          /\ media.sem + 1 \in Nat /\ media.sem + 1 > 0
      BY <1>2, <2>1, <2>2 DEF MediaRec
    <3> QED
      BY <2>1, <2>2, <3>1 DEF MediaRec
  <2>3. CASE ~media.active
    BY <1>2, <2>1, <2>3 DEF MediaRec
  <2> QED
    BY <2>2, <2>3
<1>5. PlayTypes'
  BY <1>1, <1>2, <1>4 DEF PlayTypes
<1>6. OpenedIf'
  BY <1>1, <1>2, <1>3, <1>4 DEF Stays, InStep, OpenedIf, Shut, PlayTypes
<1>7. Playing!Woken'
  BY <1>1, <1>2, <1>3, <1>4 DEF Stays, InStep, Playing!Woken, PlayTypes, MediaRec
<1>8. Playing!Running'
  BY <1>1, <1>2, <1>3, <1>4 DEF Stays, InStep, Playing!Running, PlayTypes, MediaRec, LocalRec
<1>9. Playing!Obeyed'
  BY <1>1, <1>2, <1>3, <1>4 DEF Stays, InStep, OpenedIf, Shut, Playing!Obeyed, PlayTypes
<1>10. Playing!AtFirst'
  BY <1>1, <1>2, <1>3, <1>4 DEF Stays, InStep, Playing!AtFirst, PlayTypes,
     MediaRec, DecoderRec, LocalRec, SettingsRec
<1>11. Playing!InTime'
  BY <1>1, <1>2, <1>3, <1>4 DEF Stays, InStep, Playing!InTime, PlayTypes, DecoderRec
<1> QED
  BY <1>3, <1>5, <1>6, <1>7, <1>8, <1>9, <1>10, <1>11, PlayingParts, PTL

LEMMA SourceTickKeeps ==
  ASSUME Playing!IInv, Playing!SourceTick
  PROVE  Playing!IInv'
<1> USE DEF Playing!Callers, Playing!InCall, Playing!Loop
<1>1. /\ PlayTypes /\ TodoOK /\ OpenedIf /\ Playing!Woken
      /\ Playing!Running /\ Playing!Obeyed /\ Playing!AtFirst /\ Playing!InTime
  BY PlayingParts
<1>2. /\ Playing!At("graphics", "tick")
      /\ Playing!Then("graphics", <<"free", "closed">>) \/ Playing!Then("graphics", <<>>)
      /\ UNCHANGED <<settings, media_source, media, decoder, media_at, local, requests,
                     media_wanted, lost, last>>
  BY <1>1 DEF Playing!SourceTick, Playing!If
<1>3. /\ TodoOK' /\ Stays("hotkey") /\ InStep("graphics", "tick")
      /\ (\A x : Playing!At("hotkey", x) => x \in {"open", "valid", "play"})
      /\ (\A x : Playing!At("graphics", x)' => x \in {"free"})
  <2>1. InStep("graphics", "tick") /\ \A x : Playing!At("hotkey", x) => x \in {"open", "valid", "play"}
    BY <1>1, <1>2, OneStep, HotkeyPlays
  <2>2. ASSUME Playing!Then("graphics", <<"free", "closed">>)
        PROVE  /\ TodoOK' /\ Stays("hotkey")
               /\ (\A x : Playing!At("graphics", x)' => x \in {"free"})
    <3> DEFINE s == <<"free", "closed">>
    <3>1. s \in Seq(Steps) /\ Len(s) > 1 /\ DOMAIN s = 1..Len(s)
      BY DEF Steps
    <3>2. \A i \in 1..(Len(s) - 1) : s[i + 1] \in Playing!After[s[i]]
      BY StepsOfCalls
    <3>3. /\ Playing!After["tick"] \subseteq Playing!After[s[Len(s)]]
          /\ "tick" \in Ends => s[Len(s)] \in Ends
      BY StepsOfCalls DEF Ends
    <3>4. /\ "tick" \in Steps /\ s[1] = "free" /\ s[2] = "closed"
          /\ Playing!Then("graphics", s) /\ Playing!At("graphics", "tick")
      BY <1>2, <2>2 DEF Steps
    <3> HIDE DEF s
    <3>5. /\ TodoOK'
          /\ \A d \in {"graphics", "hotkey"} \ {"graphics"} : media_todo'[d] = media_todo[d]
          /\ \A x : Playing!At("graphics", x)' <=> x = s[1]
          /\ Playing!WillPlay("graphics")' <=> s[2] = "play"
      BY <1>1, <3>1, <3>2, <3>3, <3>4, StepsBecome
    <3> QED
      BY <3>4, <3>5, OtherCall DEF Stays
  <2>3. ASSUME Playing!Then("graphics", <<>>)
        PROVE  /\ TodoOK' /\ Stays("hotkey") /\ (\A x : Playing!At("graphics", x)' => x \in {})
    <3>1. /\ TodoOK'
          /\ \A d \in {"graphics", "hotkey"} \ {"graphics"} : media_todo'[d] = media_todo[d]
          /\ \A x : Playing!At("graphics", x)' => x \in Playing!After["tick"]
      BY <1>1, <1>2, <2>3, StepDone, StepsOfCalls DEF Steps, Ends
    <3> QED
      BY <2>3, <3>1, OtherCall, StepsOfCalls DEF Stays
  <2> QED
    BY <1>2, <2>1, <2>2, <2>3
<1>4. /\ media \in MediaRec /\ decoder \in DecoderRec /\ local \in LocalRec
  BY <1>1 DEF PlayTypes
<1>5. PlayTypes'
  BY <1>1, <1>2, <1>4 DEF PlayTypes
<1>6. OpenedIf'
  BY <1>1, <1>2, <1>3, <1>4 DEF Stays, InStep, OpenedIf, Shut, PlayTypes
<1>7. Playing!Woken'
  BY <1>1, <1>2, <1>3, <1>4 DEF Stays, InStep, Playing!Woken, PlayTypes, MediaRec
<1>8. Playing!Running'
  BY <1>1, <1>2, <1>3, <1>4 DEF Stays, InStep, Playing!Running, PlayTypes, MediaRec, LocalRec
<1>9. Playing!Obeyed'
  BY <1>1, <1>2, <1>3, <1>4 DEF Stays, InStep, Playing!Obeyed, PlayTypes, MediaRec, LocalRec
<1>10. Playing!AtFirst'
  BY <1>1, <1>2, <1>3, <1>4 DEF Stays, InStep, Playing!AtFirst, PlayTypes,
     MediaRec, DecoderRec, LocalRec, SettingsRec
<1>11. Playing!InTime'
  BY <1>1, <1>2, <1>3, <1>4 DEF Stays, InStep, Playing!InTime, PlayTypes, DecoderRec
<1> QED
  BY <1>3, <1>5, <1>6, <1>7, <1>8, <1>9, <1>10, <1>11, PlayingParts, PTL

LEMMA RefsKeeps ==
  ASSUME Playing!IInv, Playing!Refs
  PROVE  Playing!IInv'
<1> USE DEF Playing!Callers, Playing!InCall, Playing!Loop
<1>1. /\ PlayTypes /\ TodoOK /\ OpenedIf /\ Playing!Woken
      /\ Playing!Running /\ Playing!Obeyed /\ Playing!AtFirst /\ Playing!InTime
  BY PlayingParts
<1>2. /\ Playing!At("graphics", "refs")
      /\ \/ Playing!Then("graphics", <<"open", "play">>)
         \/ Playing!Then("graphics", <<"stop">>)
         \/ Playing!Then("graphics", <<>>)
      /\ media_source' = [media_source EXCEPT !.active = media_source.shown]
      /\ UNCHANGED <<settings, media, decoder, media_at, local, requests, media_wanted, lost, last>>
  <2> DEFINE begins == media_source.shown /\ ~media_source.active
             ends   == media_source.active /\ ~media_source.shown
             s == Playing!If(begins, Playing!SourceStart)
                  \o Playing!If(ends /\ media_source.media_valid, <<"stop">>)
  <2>1. s \in {<<"open", "play">>, <<"stop">>, <<>>}
    <3>1. CASE begins
      <4>1. s = <<"open", "play">> \o <<>>
        BY <3>1 DEF Playing!If, Playing!SourceStart
      <4> QED
        BY <4>1
    <3>2. CASE ~begins
      <4>1. s = <<>> \o <<"stop">> \/ s = <<>> \o <<>>
        BY <3>2 DEF Playing!If
      <4> QED
        BY <4>1
    <3> QED
      BY <3>1, <3>2
  <2>2. Playing!Then("graphics", s)
    BY DEF Playing!Refs
  <2> HIDE DEF s
  <2> QED
    BY <2>1, <2>2 DEF Playing!Refs
<1>3. /\ TodoOK' /\ Stays("hotkey") /\ InStep("graphics", "refs")
      /\ (\A x : Playing!At("hotkey", x) => x \in {"open", "valid", "play"})
      /\ (\A x : Playing!At("graphics", x)' => x \in {"open", "stop", "tick"})
      /\ (Playing!At("graphics", "open")' => Playing!WillPlay("graphics")')
  <2>1. InStep("graphics", "refs") /\ \A x : Playing!At("hotkey", x) => x \in {"open", "valid", "play"}
    BY <1>1, <1>2, OneStep, HotkeyPlays
  <2>2. ASSUME Playing!Then("graphics", <<"open", "play">>)
        PROVE  /\ TodoOK' /\ Stays("hotkey")
               /\ (\A x : Playing!At("graphics", x)' => x \in {"open"})
               /\ (Playing!At("graphics", "open")' => Playing!WillPlay("graphics")')
    <3> DEFINE s == <<"open", "play">>
    <3>1. s \in Seq(Steps) /\ Len(s) > 1 /\ DOMAIN s = 1..Len(s)
      BY DEF Steps
    <3>2. \A i \in 1..(Len(s) - 1) : s[i + 1] \in Playing!After[s[i]]
      BY StepsOfCalls
    <3>3. /\ Playing!After["refs"] \subseteq Playing!After[s[Len(s)]]
          /\ "refs" \in Ends => s[Len(s)] \in Ends
      BY StepsOfCalls DEF Ends
    <3>4. /\ "refs" \in Steps /\ s[1] = "open" /\ s[2] = "play"
          /\ Playing!Then("graphics", s) /\ Playing!At("graphics", "refs")
      BY <1>2, <2>2 DEF Steps
    <3> HIDE DEF s
    <3>5. /\ TodoOK'
          /\ \A d \in {"graphics", "hotkey"} \ {"graphics"} : media_todo'[d] = media_todo[d]
          /\ \A x : Playing!At("graphics", x)' <=> x = s[1]
          /\ Playing!WillPlay("graphics")' <=> s[2] = "play"
      BY <1>1, <3>1, <3>2, <3>3, <3>4, StepsBecome, SMTT(40)
    <3> QED
      BY <3>4, <3>5, OtherCall DEF Stays
  <2>3. ASSUME Playing!Then("graphics", <<"stop">>)
        PROVE  /\ TodoOK' /\ Stays("hotkey")
               /\ (\A x : Playing!At("graphics", x)' => x \in {"stop"})
    <3>1. /\ TodoOK'
          /\ \A d \in {"graphics", "hotkey"} \ {"graphics"} : media_todo'[d] = media_todo[d]
          /\ \A x : Playing!At("graphics", x)' <=> x = "stop"
          /\ Playing!WillPlay("graphics")' <=> Playing!WillPlay("graphics")
      BY <1>1, <1>2, <2>3, StepBecomes, StepsOfCalls DEF Steps, Ends
    <3> QED
      BY <2>3, <3>1, OtherCall DEF Stays
  <2>4. ASSUME Playing!Then("graphics", <<>>)
        PROVE  /\ TodoOK' /\ Stays("hotkey")
               /\ (\A x : Playing!At("graphics", x)' => x \in {"tick"})
    <3>1. /\ TodoOK'
          /\ \A d \in {"graphics", "hotkey"} \ {"graphics"} : media_todo'[d] = media_todo[d]
          /\ \A x : Playing!At("graphics", x)' => x \in Playing!After["refs"]
          /\ \E x \in Playing!After["refs"] : Playing!At("graphics", x)'
      BY <1>1, <1>2, <2>4, StepDone, StepsOfCalls DEF Steps, Ends
    <3> QED
      BY <2>4, <3>1, OtherCall, StepsOfCalls DEF Stays
  <2> QED
    BY <1>2, <2>1, <2>2, <2>3, <2>4
<1>4. /\ media_source.shown \in BOOLEAN /\ media_source \in SourceRec
      /\ media_source' \in SourceRec /\ media_source \in SourceRec
      /\ media_source'.shown = media_source.shown
      /\ media_source'.defer_update = media_source.defer_update
      /\ media_source'.destroy_media = media_source.destroy_media
      /\ media_source'.media_valid = media_source.media_valid
  <2>1. /\ media_source.shown \in BOOLEAN /\ media_source \in SourceRec
    BY <1>1 DEF PlayTypes, SourceRec
  <2>2. /\ media_source' \in SourceRec /\ media_source \in SourceRec
        /\ media_source'.shown = media_source.shown
        /\ media_source'.defer_update = media_source.defer_update
        /\ media_source'.destroy_media = media_source.destroy_media
        /\ media_source'.media_valid = media_source.media_valid
    BY <1>2, <2>1 DEF SourceRec
  <2> QED
    BY <2>1, <2>2
<1>5. PlayTypes'
  BY <1>1, <1>2, <1>4 DEF PlayTypes
<1>6. OpenedIf'
  BY <1>1, <1>2, <1>3, <1>4 DEF Stays, InStep, OpenedIf, Shut, PlayTypes
<1>7. Playing!Woken'
  BY <1>1, <1>2, <1>3, <1>4 DEF Stays, InStep, Playing!Woken, PlayTypes, MediaRec
<1>8. Playing!Running'
  BY <1>1, <1>2, <1>3, <1>4 DEF Stays, InStep, Playing!Running, PlayTypes, MediaRec, LocalRec
<1>9. Playing!Obeyed'
  BY <1>1, <1>2, <1>3, <1>4 DEF Stays, InStep, Playing!Obeyed, PlayTypes, MediaRec, LocalRec
<1>10. Playing!AtFirst'
  BY <1>1, <1>2, <1>3, <1>4 DEF Stays, InStep, Playing!AtFirst, PlayTypes,
     MediaRec, DecoderRec, LocalRec, SettingsRec
<1>11. Playing!InTime'
  BY <1>1, <1>2, <1>3, <1>4 DEF Stays, InStep, Playing!InTime, PlayTypes, DecoderRec
<1> QED
  BY <1>3, <1>5, <1>6, <1>7, <1>8, <1>9, <1>10, <1>11, PlayingParts, PTL

LEMMA ReopenKeeps ==
  ASSUME Playing!IInv, Playing!Reopen
  PROVE  Playing!IInv'
<1> USE DEF Playing!Callers, Playing!InCall, Playing!Loop
<1>1. /\ PlayTypes /\ TodoOK /\ OpenedIf /\ Playing!Woken
      /\ Playing!Running /\ Playing!Obeyed /\ Playing!AtFirst /\ Playing!InTime
  BY PlayingParts
<1>2. /\ Playing!At("graphics", "reopen")
      /\ \/ Playing!Then("graphics", <<"open", "open", "play">>)
         \/ Playing!Then("graphics", <<"open">>)
         \/ Playing!Then("graphics", <<>>)
      /\ media_wanted' = FALSE
      /\ UNCHANGED <<settings, media_source, media, decoder, media_at, local, requests, lost, last>>
  <2> DEFINE s == Playing!If(~settings.close_when_inactive \/ media_source.shown, <<"open">>)
                  \o Playing!If(media_source.shown, Playing!SourceStart)
  <2>1. s \in {<<"open", "open", "play">>, <<"open">>, <<>>}
    <3>1. CASE media_source.shown
      <4>1. s = <<"open">> \o <<"open", "play">>
        BY <3>1 DEF Playing!If, Playing!SourceStart
      <4> QED
        BY <4>1, ReopenedCall
    <3>2. CASE ~media_source.shown
      <4>1. s = <<"open">> \o <<>> \/ s = <<>> \o <<>>
        BY <3>2 DEF Playing!If
      <4> QED
        BY <4>1
    <3> QED
      BY <3>1, <3>2
  <2>2. Playing!Then("graphics", s)
    BY DEF Playing!Reopen
  <2> HIDE DEF s
  <2> QED
    BY <2>1, <2>2 DEF Playing!Reopen
<1>3. /\ TodoOK' /\ Stays("hotkey") /\ InStep("graphics", "reopen")
      /\ (\A x : Playing!At("hotkey", x) => x \in {"open", "valid", "play"})
      /\ (\A x : Playing!At("graphics", x)' => x \in {"open", "updated"})
  <2>1. InStep("graphics", "reopen") /\ \A x : Playing!At("hotkey", x) => x \in {"open", "valid", "play"}
    BY <1>1, <1>2, OneStep, HotkeyPlays
  <2>2. ASSUME Playing!Then("graphics", <<"open", "open", "play">>)
        PROVE  /\ TodoOK' /\ Stays("hotkey")
               /\ (\A x : Playing!At("graphics", x)' => x \in {"open"})
    <3> DEFINE s == <<"open", "open", "play">>
    <3>1. s \in Seq(Steps) /\ Len(s) > 1 /\ DOMAIN s = 1..Len(s)
      BY DEF Steps
    <3>2. \A i \in 1..(Len(s) - 1) : s[i + 1] \in Playing!After[s[i]]
      BY StepsOfCalls
    <3>3. /\ Playing!After["reopen"] \subseteq Playing!After[s[Len(s)]]
          /\ "reopen" \in Ends => s[Len(s)] \in Ends
      BY StepsOfCalls DEF Ends
    <3>4. /\ "reopen" \in Steps /\ s[1] = "open" /\ s[2] = "open"
          /\ Playing!Then("graphics", s) /\ Playing!At("graphics", "reopen")
      BY <1>2, <2>2 DEF Steps
    <3> HIDE DEF s
    <3>5. /\ TodoOK'
          /\ \A d \in {"graphics", "hotkey"} \ {"graphics"} : media_todo'[d] = media_todo[d]
          /\ \A x : Playing!At("graphics", x)' <=> x = s[1]
          /\ Playing!WillPlay("graphics")' <=> s[2] = "play"
      BY <1>1, <3>1, <3>2, <3>3, <3>4, StepsBecome
    <3> QED
      BY <3>4, <3>5, OtherCall DEF Stays
  <2>3. ASSUME Playing!Then("graphics", <<"open">>)
        PROVE  /\ TodoOK' /\ Stays("hotkey")
               /\ (\A x : Playing!At("graphics", x)' => x \in {"open"})
    <3>1. /\ TodoOK'
          /\ \A d \in {"graphics", "hotkey"} \ {"graphics"} : media_todo'[d] = media_todo[d]
          /\ \A x : Playing!At("graphics", x)' <=> x = "open"
          /\ Playing!WillPlay("graphics")' <=> Playing!WillPlay("graphics")
      BY <1>1, <1>2, <2>3, StepBecomes, StepsOfCalls DEF Steps, Ends
    <3> QED
      BY <2>3, <3>1, OtherCall DEF Stays
  <2>4. ASSUME Playing!Then("graphics", <<>>)
        PROVE  /\ TodoOK' /\ Stays("hotkey")
               /\ (\A x : Playing!At("graphics", x)' => x \in {"updated"})
    <3>1. /\ TodoOK'
          /\ \A d \in {"graphics", "hotkey"} \ {"graphics"} : media_todo'[d] = media_todo[d]
          /\ \A x : Playing!At("graphics", x)' => x \in Playing!After["reopen"]
          /\ \E x \in Playing!After["reopen"] : Playing!At("graphics", x)'
      BY <1>1, <1>2, <2>4, StepDone, StepsOfCalls DEF Steps, Ends
    <3> QED
      BY <2>4, <3>1, OtherCall, StepsOfCalls DEF Stays
  <2> QED
    BY <1>2, <2>1, <2>2, <2>3, <2>4
<1>4. /\ media \in MediaRec /\ decoder \in DecoderRec /\ local \in LocalRec
  BY <1>1 DEF PlayTypes
<1>5. PlayTypes'
  BY <1>1, <1>2, <1>4 DEF PlayTypes
<1>6. OpenedIf'
  BY <1>1, <1>2, <1>3, <1>4 DEF Stays, InStep, OpenedIf, Shut, PlayTypes
<1>7. Playing!Woken'
  BY <1>1, <1>2, <1>3, <1>4 DEF Stays, InStep, Playing!Woken, PlayTypes, MediaRec
<1>8. Playing!Running'
  BY <1>1, <1>2, <1>3, <1>4 DEF Stays, InStep, Playing!Running, PlayTypes, MediaRec, LocalRec
<1>9. Playing!Obeyed'
  BY <1>1, <1>2, <1>3, <1>4 DEF Stays, InStep, OpenedIf, Shut, Playing!Obeyed, PlayTypes
<1>10. Playing!AtFirst'
  BY <1>1, <1>2, <1>3, <1>4 DEF Stays, InStep, Playing!AtFirst, PlayTypes,
     MediaRec, DecoderRec, LocalRec, SettingsRec
<1>11. Playing!InTime'
  BY <1>1, <1>2, <1>3, <1>4 DEF Stays, InStep, Playing!InTime, PlayTypes, DecoderRec
<1> QED
  BY <1>3, <1>5, <1>6, <1>7, <1>8, <1>9, <1>10, <1>11, PlayingParts, PTL

LEMMA ValidKeeps ==
  ASSUME Playing!IInv, ~Playing!Raced, NEW c \in {"graphics", "hotkey"}, Playing!Valid(c)
  PROVE  Playing!IInv'
<1> USE DEF Playing!Callers, Playing!InCall, Playing!Loop
<1>1. /\ PlayTypes /\ TodoOK /\ OpenedIf /\ Playing!Woken
      /\ Playing!Running /\ Playing!Obeyed /\ Playing!AtFirst /\ Playing!InTime
  BY PlayingParts
<1>2. /\ Playing!At(c, "valid") /\ Playing!Then(c, <<>>)
      /\ media_source' = [media_source EXCEPT !.media_valid = TRUE]
      /\ UNCHANGED <<settings, media, decoder, media_at, local, requests, media_wanted, lost, last>>
  BY DEF Playing!Valid
<1>3. /\ TodoOK' /\ \A d \in {"graphics", "hotkey"} \ {c} : Stays(d)
      /\ \A x : Playing!At(c, x)' => x \in {"open", "play", "updated"}
      /\ Playing!WillPlay(c) => Playing!At(c, "play")'
      /\ \A x, y : Playing!At(c, x)' /\ Playing!At(c, y)' => x = y
      /\ InStep(c, "valid") /\ \A x : Playing!At("hotkey", x) => x \in {"open", "valid", "play"}
  <2>1. /\ TodoOK' /\ \A d \in {"graphics", "hotkey"} \ {c} : media_todo'[d] = media_todo[d]
        /\ \A x : Playing!At(c, x)' => x \in Playing!After["valid"]
        /\ Playing!WillPlay(c) => Playing!At(c, "play")'
    BY <1>1, <1>2, StepDone, StepsOfCalls DEF Steps, Ends
  <2>2. \A d \in {"graphics", "hotkey"} \ {c} : Stays(d)
    BY <2>1, OtherCall DEF Stays
  <2>3. \A x, y : Playing!At(c, x)' /\ Playing!At(c, y)' => x = y
    BY DEF Playing!At
  <2> QED
    BY <1>1, <1>2, <2>1, <2>2, <2>3, OneStep, HotkeyPlays, StepsOfCalls
<1>4. /\ media_source' \in SourceRec /\ media_source \in SourceRec
      /\ media_source'.shown = media_source.shown /\ media_source'.active = media_source.active
      /\ media_source'.defer_update = media_source.defer_update
      /\ media_source'.destroy_media = media_source.destroy_media /\ media_source'.media_valid
      /\ \A d \in {"graphics", "hotkey"} \ {c} : \A x : ~Playing!At(d, x)
  <2>1. /\ media_source' \in SourceRec /\ media_source \in SourceRec
        /\ media_source'.shown = media_source.shown /\ media_source'.active = media_source.active
        /\ media_source'.defer_update = media_source.defer_update
        /\ media_source'.destroy_media = media_source.destroy_media /\ media_source'.media_valid
    BY <1>1, <1>2 DEF PlayTypes, MediaRec, SourceRec
  <2>2. /\ \A d \in {"graphics", "hotkey"} \ {c} : \A x : ~Playing!At(d, x)
    BY <1>1, <1>2, Idles, OneStep DEF Playing!Raced
  <2> QED
    BY <2>1, <2>2
<1>5. PlayTypes'
  BY <1>1, <1>2, <1>4 DEF PlayTypes
<1>6. OpenedIf'
  BY <1>1, <1>2, <1>3, <1>4 DEF Stays, InStep, OpenedIf, Shut, PlayTypes
<1>7. Playing!Woken'
  BY <1>1, <1>2, <1>3, <1>4 DEF Stays, InStep, Playing!Woken, PlayTypes, MediaRec
<1>8. Playing!Running'
  BY <1>1, <1>2, <1>3, <1>4 DEF Stays, InStep, Playing!Running, PlayTypes, MediaRec, LocalRec
<1>9. Playing!Obeyed'
  BY <1>1, <1>2, <1>3, <1>4 DEF Stays, InStep, Playing!Obeyed, PlayTypes, MediaRec, LocalRec
<1>10. Playing!AtFirst'
  BY <1>1, <1>2, <1>3, <1>4 DEF Stays, InStep, Playing!AtFirst, PlayTypes,
     MediaRec, DecoderRec, LocalRec, SettingsRec
<1>11. Playing!InTime'
  BY <1>1, <1>2, <1>3, <1>4 DEF Stays, InStep, Playing!InTime, PlayTypes, DecoderRec
<1> QED
  BY <1>3, <1>5, <1>6, <1>7, <1>8, <1>9, <1>10, <1>11, PlayingParts, PTL

LEMMA SourceOpenKeeps ==
  ASSUME Playing!IInv, ~Playing!Raced, NEW c \in {"graphics", "hotkey"}, Playing!SourceOpen(c)
  PROVE  Playing!IInv'
<1> USE DEF Playing!Callers, Playing!InCall, Playing!Loop
<1>1. /\ PlayTypes /\ TodoOK /\ OpenedIf /\ Playing!Woken
      /\ Playing!Running /\ Playing!Obeyed /\ Playing!AtFirst /\ Playing!InTime
  BY PlayingParts
<1>2. /\ Playing!At(c, "open")
      /\ \/ /\ media_source.media_valid /\ Playing!Then(c, <<>>)
            /\ media_at' = media_at /\ lost' = lost
         \/ /\ ~media_source.media_valid /\ Playing!Then(c, <<"valid">>)
            /\ media_at' = "open" /\ lost' = FALSE
      /\ UNCHANGED <<settings, media_source, media, decoder, local, requests, media_wanted, last>>
  BY DEF Playing!SourceOpen
<1>3. /\ TodoOK' /\ \A d \in {"graphics", "hotkey"} \ {c} : Stays(d)
      /\ media_source.media_valid =>
           /\ \A x : Playing!At(c, x)' => x \in {"open", "play", "updated"}
           /\ Playing!WillPlay(c) => Playing!At(c, "play")'
      /\ ~media_source.media_valid =>
           /\ \A x : Playing!At(c, x)' <=> x = "valid"
           /\ Playing!WillPlay(c)' <=> Playing!WillPlay(c)
      /\ InStep(c, "open") /\ \A x : Playing!At("hotkey", x) => x \in {"open", "valid", "play"}
      /\ \A x, y : Playing!At(c, x)' /\ Playing!At(c, y)' => x = y
  <2>1. ASSUME Playing!Then(c, <<>>)
        PROVE  /\ TodoOK' /\ \A d \in {"graphics", "hotkey"} \ {c} : media_todo'[d] = media_todo[d]
               /\ \A x : Playing!At(c, x)' => x \in Playing!After["open"]
               /\ Playing!WillPlay(c) => Playing!At(c, "play")'
    BY <1>1, <1>2, <2>1, StepDone, StepsOfCalls DEF Steps, Ends
  <2>2. ASSUME Playing!Then(c, <<"valid">>)
        PROVE  /\ TodoOK' /\ \A d \in {"graphics", "hotkey"} \ {c} : media_todo'[d] = media_todo[d]
               /\ \A x : Playing!At(c, x)' <=> x = "valid"
               /\ Playing!WillPlay(c)' <=> Playing!WillPlay(c)
    BY <1>1, <1>2, <2>2, StepBecomes, StepsOfCalls DEF Steps, Ends
  <2>3. TodoOK' /\ \A d \in {"graphics", "hotkey"} \ {c} : media_todo'[d] = media_todo[d]
    BY <1>2, <2>1, <2>2
  <2>4. \A d \in {"graphics", "hotkey"} \ {c} : Stays(d)
    BY <2>3, OtherCall DEF Stays
  <2>5. \A x, y : Playing!At(c, x)' /\ Playing!At(c, y)' => x = y
    BY DEF Playing!At
  <2> QED
    BY <1>1, <1>2, <2>1, <2>2, <2>3, <2>4, <2>5, OneStep, HotkeyPlays, StepsOfCalls
<1>4. /\ (~media_source.media_valid => \A d \in {"graphics", "hotkey"} \ {c} : ~Playing!At(d, "valid"))
      /\ lost' \in BOOLEAN
  <2>1. /\ (~media_source.media_valid => \A d \in {"graphics", "hotkey"} \ {c} : ~Playing!At(d, "valid"))
    BY <1>1, <1>2, OneStep DEF Playing!Raced, Playing!Callers
  <2>2. /\ lost' \in BOOLEAN
    BY <1>1, <1>2 DEF PlayTypes
  <2> QED
    BY <2>1, <2>2
<1>5. PlayTypes'
  BY <1>1, <1>2, <1>4 DEF PlayTypes
<1>6. OpenedIf'
  BY <1>1, <1>2, <1>3, <1>4 DEF Stays, InStep, OpenedIf, Shut, PlayTypes
<1>7. Playing!Woken'
  BY <1>1, <1>2, <1>3, <1>4 DEF Stays, InStep, OpenedIf, Shut, Playing!Woken, PlayTypes
<1>8. Playing!Running'
  BY <1>1, <1>2, <1>3, <1>4 DEF Stays, InStep, Playing!Running, PlayTypes, MediaRec, LocalRec
<1>9. Playing!Obeyed'
  BY <1>1, <1>2, <1>3, <1>4 DEF Stays, InStep, Playing!Obeyed, PlayTypes, MediaRec, LocalRec
<1>10. Playing!AtFirst'
  BY <1>1, <1>2, <1>3, <1>4 DEF Stays, InStep, Playing!AtFirst, PlayTypes,
     MediaRec, DecoderRec, LocalRec, SettingsRec
<1>11. Playing!InTime'
  BY <1>1, <1>2, <1>3, <1>4 DEF Stays, InStep, Playing!InTime, PlayTypes, DecoderRec
<1> QED
  BY <1>3, <1>5, <1>6, <1>7, <1>8, <1>9, <1>10, <1>11, PlayingParts, PTL

LEMMA VideoTickKeeps ==
  ASSUME Playing!IInv, Playing!VideoTick
  PROVE  Playing!IInv'
<1> USE DEF Playing!Callers, Playing!InCall, Playing!Loop
<1>1. /\ PlayTypes /\ TodoOK /\ OpenedIf /\ Playing!Woken
      /\ Playing!Running /\ Playing!Obeyed /\ Playing!AtFirst /\ Playing!InTime
  BY PlayingParts
<1>2. /\ Playing!Idle("graphics")
      /\ \/ media_todo' = [media_todo EXCEPT !["graphics"] = <<"refs", "tick">>]
         \/ media_todo' = [media_todo EXCEPT !["graphics"] = <<"update", "updated", "refs", "tick">>]
      /\ UNCHANGED <<settings, media_source, media, decoder, media_at, local, requests,
                     media_wanted, lost, last>>
  <2> DEFINE s == Playing!If(media_source.defer_update, <<"update", "updated">>)
                  \o <<"refs", "tick">>
  <2>1. s \in {<<"refs", "tick">>, <<"update", "updated", "refs", "tick">>}
    <3>1. s = <<>> \o <<"refs", "tick">> \/ s = <<"update", "updated">> \o <<"refs", "tick">>
      BY DEF Playing!If
    <3>2. <<>> \o <<"refs", "tick">> = <<"refs", "tick">>
      OBVIOUS
    <3> QED
      BY <3>1, <3>2, TickedCall
  <2>2. media_todo' = [media_todo EXCEPT !["graphics"] = s]
    BY DEF Playing!VideoTick
  <2> HIDE DEF s
  <2> QED
    BY <2>1, <2>2 DEF Playing!VideoTick
<1>3. /\ TodoOK' /\ Stays("hotkey") /\ \A x : ~Playing!At("graphics", x)
      /\ \A x : Playing!At("graphics", x)' => x \in {"update", "refs"}
      /\ \A x : Playing!At("hotkey", x) => x \in {"open", "valid", "play"}
  <2>1. ASSUME media_todo' = [media_todo EXCEPT !["graphics"] = <<"refs", "tick">>]
        PROVE  /\ TodoOK' /\ Stays("hotkey")
               /\ \A x : Playing!At("graphics", x)' => x \in {"update", "refs"}
    <3> DEFINE s == <<"refs", "tick">>
    <3>1. /\ s \in Seq(Steps) /\ Len(s) > 1 /\ DOMAIN s = 1..Len(s)
          /\ s[1] = "refs" /\ s[2] = "tick" /\ s # <<>> /\ s[Len(s)] \in Ends
      BY DEF Steps, Ends
    <3>2. \A i \in 1..(Len(s) - 1) : s[i + 1] \in Playing!After[s[i]]
      BY StepsOfCalls
    <3>3. /\ media_todo' = [media_todo EXCEPT !["graphics"] = s] /\ InOrder(s)
          /\ "graphics" = "hotkey" => \A i \in DOMAIN s : s[i] \in {"open", "valid", "play"}
      BY <2>1, <3>1, <3>2 DEF InOrder
    <3> HIDE DEF s
    <3>4. /\ TodoOK'
          /\ \A d \in {"graphics", "hotkey"} \ {"graphics"} : media_todo'[d] = media_todo[d]
          /\ \A x : Playing!At("graphics", x)' <=> x = s[1]
          /\ Playing!WillPlay("graphics")' <=> s[2] = "play"
      BY <1>1, <3>1, <3>3, StepsBegin
    <3> QED
      BY <3>1, <3>4, OtherCall DEF Stays
  <2>2. ASSUME media_todo' = [media_todo EXCEPT
                               !["graphics"] = <<"update", "updated", "refs", "tick">>]
        PROVE  /\ TodoOK' /\ Stays("hotkey")
               /\ \A x : Playing!At("graphics", x)' => x \in {"update", "refs"}
    <3> DEFINE s == <<"update", "updated", "refs", "tick">>
    <3>1. /\ s \in Seq(Steps) /\ Len(s) > 1 /\ DOMAIN s = 1..Len(s)
          /\ s[1] = "update" /\ s[2] = "updated" /\ s # <<>> /\ s[Len(s)] \in Ends
      BY DEF Steps, Ends
    <3>2. \A i \in 1..(Len(s) - 1) : s[i + 1] \in Playing!After[s[i]]
      BY StepsOfCalls
    <3>3. /\ media_todo' = [media_todo EXCEPT !["graphics"] = s] /\ InOrder(s)
          /\ "graphics" = "hotkey" => \A i \in DOMAIN s : s[i] \in {"open", "valid", "play"}
      BY <2>2, <3>1, <3>2 DEF InOrder
    <3> HIDE DEF s
    <3>4. /\ TodoOK'
          /\ \A d \in {"graphics", "hotkey"} \ {"graphics"} : media_todo'[d] = media_todo[d]
          /\ \A x : Playing!At("graphics", x)' <=> x = s[1]
          /\ Playing!WillPlay("graphics")' <=> s[2] = "play"
      BY <1>1, <3>1, <3>3, StepsBegin
    <3> QED
      BY <3>1, <3>4, OtherCall DEF Stays
  <2> QED
    BY <1>1, <1>2, <2>1, <2>2, Idles, HotkeyPlays
<1>4. /\ media \in MediaRec /\ decoder \in DecoderRec /\ local \in LocalRec
  BY <1>1 DEF PlayTypes
<1>5. PlayTypes'
  BY <1>1, <1>2, <1>4 DEF PlayTypes
<1>6. OpenedIf'
  BY <1>1, <1>2, <1>3, <1>4 DEF Stays, InStep, OpenedIf, Shut, PlayTypes
<1>7. Playing!Woken'
  BY <1>1, <1>2, <1>3, <1>4 DEF Stays, InStep, Playing!Woken, PlayTypes, MediaRec
<1>8. Playing!Running'
  BY <1>1, <1>2, <1>3, <1>4 DEF Stays, InStep, Playing!Running, PlayTypes, MediaRec, LocalRec
<1>9. Playing!Obeyed'
  BY <1>1, <1>2, <1>3, <1>4 DEF Stays, InStep, Playing!Obeyed, PlayTypes, MediaRec, LocalRec
<1>10. Playing!AtFirst'
  BY <1>1, <1>2, <1>3, <1>4 DEF Stays, InStep, Playing!AtFirst, PlayTypes,
     MediaRec, DecoderRec, LocalRec, SettingsRec
<1>11. Playing!InTime'
  BY <1>1, <1>2, <1>3, <1>4 DEF Stays, InStep, Playing!InTime, PlayTypes, DecoderRec
<1> QED
  BY <1>3, <1>5, <1>6, <1>7, <1>8, <1>9, <1>10, <1>11, PlayingParts, PTL

LEMMA RequestKeeps ==
  ASSUME Playing!IInv, Playing!Request
  PROVE  Playing!IInv'
<1> USE DEF Playing!Callers, Playing!InCall, Playing!Loop
<1>1. /\ PlayTypes /\ TodoOK /\ OpenedIf /\ Playing!Woken
      /\ Playing!Running /\ Playing!Obeyed /\ Playing!AtFirst /\ Playing!InTime
  BY PlayingParts
<1>2. /\ requests' = requests + 1
      /\ \/ /\ \/ media_source' = [media_source EXCEPT !.shown = ~@]
               \/ media_source' = [media_source EXCEPT !.defer_update = TRUE]
            /\ UNCHANGED media_todo
         \/ /\ Playing!Idle("hotkey") /\ UNCHANGED media_source
            /\ media_todo' = [media_todo EXCEPT !["hotkey"] = <<"open", "play">>]
      /\ UNCHANGED <<settings, media, decoder, media_at, local, media_wanted, lost, last>>
  BY DEF Playing!Request, Playing!SourceStart
<1>3. /\ TodoOK' /\ Stays("graphics")
      /\ \/ Stays("hotkey")
         \/ /\ \A x : ~Playing!At("hotkey", x)
            /\ \A x : Playing!At("hotkey", x)' <=> x = "open"
            /\ Playing!WillPlay("hotkey")'
  <2>1. CASE UNCHANGED media_todo
    BY <1>1, <2>1, CallsStay DEF Stays
  <2>2. ASSUME media_todo' = [media_todo EXCEPT !["hotkey"] = <<"open", "play">>]
        PROVE  /\ TodoOK' /\ Stays("graphics")
               /\ \A x : Playing!At("hotkey", x)' <=> x = "open"
               /\ Playing!WillPlay("hotkey")'
    <3> DEFINE s == <<"open", "play">>
    <3>1. /\ s \in Seq(Steps) /\ Len(s) > 1 /\ DOMAIN s = 1..Len(s)
          /\ s[1] = "open" /\ s[2] = "play" /\ s # <<>> /\ s[Len(s)] \in Ends
      BY DEF Steps, Ends
    <3>2. \A i \in 1..(Len(s) - 1) : s[i + 1] \in Playing!After[s[i]]
      BY StepsOfCalls
    <3>3. /\ media_todo' = [media_todo EXCEPT !["hotkey"] = s] /\ InOrder(s)
          /\ "hotkey" = "hotkey" => \A i \in DOMAIN s : s[i] \in {"open", "valid", "play"}
      BY <2>2, <3>1, <3>2 DEF InOrder
    <3> HIDE DEF s
    <3>4. /\ TodoOK'
          /\ \A d \in {"graphics", "hotkey"} \ {"hotkey"} : media_todo'[d] = media_todo[d]
          /\ \A x : Playing!At("hotkey", x)' <=> x = s[1]
          /\ Playing!WillPlay("hotkey")' <=> s[2] = "play"
      BY <1>1, <3>1, <3>3, StepsBegin
    <3> QED
      BY <3>1, <3>4, OtherCall DEF Stays
  <2> QED
    BY <1>2, <2>1, <2>2, Idles
<1>4. /\ media_source \in SourceRec /\ requests' \in Nat /\ media_source' \in SourceRec
      /\ media_source \in SourceRec /\ media_source'.active = media_source.active
      /\ media_source'.destroy_media = media_source.destroy_media
      /\ media_source'.media_valid = media_source.media_valid
  <2>1. /\ media_source \in SourceRec /\ requests' \in Nat
    BY <1>1, <1>2 DEF PlayTypes
  <2>2. /\ media_source' \in SourceRec /\ media_source \in SourceRec
        /\ media_source'.active = media_source.active
        /\ media_source'.destroy_media = media_source.destroy_media
        /\ media_source'.media_valid = media_source.media_valid
    BY <1>2, <2>1 DEF SourceRec
  <2> QED
    BY <2>1, <2>2
<1>5. PlayTypes'
  BY <1>1, <1>2, <1>4 DEF PlayTypes
<1>6. OpenedIf'
  BY <1>1, <1>2, <1>3, <1>4 DEF Stays, InStep, OpenedIf, Shut, PlayTypes
<1>7. Playing!Woken'
  BY <1>1, <1>2, <1>3, <1>4 DEF Stays, InStep, Playing!Woken, PlayTypes, MediaRec
<1>8. Playing!Running'
  BY <1>1, <1>2, <1>3, <1>4 DEF Stays, InStep, Playing!Running, PlayTypes, MediaRec, LocalRec
<1>9. Playing!Obeyed'
  BY <1>1, <1>2, <1>3, <1>4 DEF Stays, InStep, Playing!Obeyed, PlayTypes, MediaRec, LocalRec
<1>10. Playing!AtFirst'
  BY <1>1, <1>2, <1>3, <1>4 DEF Stays, InStep, Playing!AtFirst, PlayTypes,
     MediaRec, DecoderRec, LocalRec, SettingsRec
<1>11. Playing!InTime'
  BY <1>1, <1>2, <1>3, <1>4 DEF Stays, InStep, Playing!InTime, PlayTypes, DecoderRec
<1> QED
  BY <1>3, <1>5, <1>6, <1>7, <1>8, <1>9, <1>10, <1>11, PlayingParts, PTL

----------------------------------------------------------------------------
LEMMA PlayingInit == Playing!Init => Playing!IInv
<1> SUFFICES ASSUME Playing!Init PROVE Playing!IInv
  OBVIOUS
<1>1. /\ settings \in SettingsRec /\ media = Playing!Closed /\ decoder = Playing!Unread
      /\ local = Playing!Fresh /\ requests = 0 /\ media_wanted = FALSE /\ lost = FALSE /\ last = -1
      /\ media_source = [shown |-> FALSE, active |-> FALSE, defer_update |-> FALSE,
                         destroy_media |-> FALSE,
                         media_valid |-> ~settings.close_when_inactive]
      /\ media_at = IF media_source.media_valid THEN "open" ELSE "none"
      /\ media_todo = [c \in {"graphics", "hotkey"} |-> <<>>]
  BY DEF Playing!Init, SettingsRec, Playing!Callers
<1>2. /\ media \in MediaRec /\ decoder \in DecoderRec /\ local \in LocalRec /\ Shut
      /\ ~decoder.ready /\ decoder.base_ts = 0 /\ decoder.pos = 0 /\ decoder.pts = 0
      /\ decoder.next_pts = 0 /\ decoder.start_ts = 0
  BY <1>1 DEF Playing!Closed, Playing!Unread, Playing!Fresh, MediaRec, DecoderRec, LocalRec, Shut
<1>3. /\ media_source \in SourceRec /\ media_at \in {"open", "none"}
      /\ media_source.media_valid <=> media_at = "open"
  BY <1>1 DEF SettingsRec, SourceRec
<1>4. TodoOK /\ \A c \in {"graphics", "hotkey"} : \A x : ~Playing!At(c, x)
  BY <1>1 DEF TodoOK, InOrder, Playing!At, Playing!Idle
<1>5. PlayTypes
  <2>1. requests \in Nat /\ last \in Int
    BY <1>1
  <2>2. media_wanted \in BOOLEAN /\ lost \in BOOLEAN
    BY <1>1
  <2> QED
    BY <1>1, <1>2, <1>3, <2>1, <2>2 DEF PlayTypes
<1>6. OpenedIf
  BY <1>2, <1>3, <1>4 DEF OpenedIf
<1>7. Playing!Woken
  BY <1>2, <1>4 DEF Playing!Woken, Shut, Playing!InCall
<1>8. Playing!Running
  BY <1>3 DEF Playing!Running, Playing!Loop
<1>9. Playing!Obeyed
  BY <1>1, <1>2, <1>3, <1>4 DEF Playing!Obeyed, Shut, Playing!InCall
<1>10. Playing!AtFirst
  BY <1>3 DEF Playing!AtFirst, Playing!Loop
<1>11. Playing!InTime
  BY <1>1, <1>2, <1>3 DEF Playing!InTime
<1> QED
  BY <1>4, <1>5, <1>6, <1>7, <1>8, <1>9, <1>10, <1>11, PlayingParts

LEMMA PlayingNext ==
  ASSUME Playing!IInv, [Playing!Next]_mediaVars
  PROVE  Playing!IInv'
<1>1. CASE UNCHANGED mediaVars
  BY <1>1 DEF mediaVars, Playing!IInv, Playing!TypeOK, Playing!Calling, Playing!Opened,
     Playing!Woken, Playing!Running, Playing!Obeyed, Playing!AtFirst, Playing!InTime,
     Playing!InCall, Playing!At, Playing!Idle, Playing!WillPlay, Playing!Closed, Playing!Loop,
     Playing!Ops, Playing!After, Playing!Places, Playing!Callers
<1>2. CASE ~Playing!Raced /\ Playing!MediaThread
  BY <1>2, OpenKeeps, ResetKeeps, PrepareResetKeeps, StoppedKeeps, TopKeeps, WaitKeeps,
     SleepKeeps, WakeKeeps, PlayKeeps, PrepareNextKeeps, EofKeeps DEF Playing!MediaThread
<1>3. CASE ~Playing!Raced /\ Playing!Graphics
  BY <1>3, VideoTickKeeps, SourceUpdateKeeps, ReopenKeeps, SourceUpdatedKeeps, RefsKeeps,
     SourceTickKeeps, SourceClosedKeeps DEF Playing!Graphics
<1>4. CASE Playing!Request
  BY <1>4, RequestKeeps
<1>5. ASSUME ~Playing!Raced, NEW c \in {"graphics", "hotkey"}, Playing!Call(c)
      PROVE  Playing!IInv'
  BY <1>5, MediaPlayKeeps, MediaStopKeeps, MediaFreeKeeps, KillKeeps, JoinKeeps,
     SourceOpenKeeps, ValidKeeps DEF Playing!Call
<1> QED
  BY <1>1, <1>2, <1>3, <1>4, <1>5 DEF Playing!Next, Playing!Callers

\* What PlaysAsAsked says follows.
LEMMA PlaysFromInvariant == Playing!IInv => Playing!PlaysAsAsked
<1> SUFFICES ASSUME Playing!IInv PROVE Playing!PlaysAsAsked
  OBVIOUS
<1>1. /\ PlayTypes /\ TodoOK /\ OpenedIf /\ Playing!Woken
      /\ Playing!Running /\ Playing!Obeyed /\ Playing!AtFirst /\ Playing!InTime
  BY PlayingParts
<1>2. Playing!Settled =>
        /\ \A c \in {"graphics", "hotkey"} : \A x : ~Playing!At(c, x)
        /\ \/ media_at \in {"none", "exited"}
           \/ media_at = "wait" /\ media.sem = 0
           \/ media_at = "sleep"
  BY DEF Playing!Settled, Playing!Callers, Playing!At
<1>3. media.sem \in Nat
  BY <1>1 DEF PlayTypes, MediaRec
<1>4. Playing!Settled /\ media_wanted /\ ~lost =>
        media_source.media_valid /\ media.active /\ media_at = "sleep"
  <2> SUFFICES ASSUME Playing!Settled, media_wanted, ~lost
               PROVE  media_source.media_valid /\ media.active /\ media_at = "sleep"
    OBVIOUS
  <2>1. media.active
    BY <1>1, <1>2 DEF Playing!Obeyed, Playing!InCall, Playing!Callers
  <2>2. media_source.media_valid /\ media_at # "none"
    BY <1>1, <2>1 DEF OpenedIf, Shut
  <2>3. media_at # "exited"
    BY <1>1, <1>2 DEF Playing!Obeyed, Playing!InCall
  <2>4. ~(media_at = "wait" /\ media.sem = 0)
    BY <1>1, <2>1 DEF Playing!Woken
  <2> QED
    BY <1>2, <2>1, <2>2, <2>3, <2>4
<1>5. Playing!Settled /\ ~media_wanted => ~media.active
  BY <1>1 DEF Playing!Obeyed
<1>6. Playing!Settled /\ media_at = "wait" /\ settings.seekable /\ decoder.found =>
        decoder.ready /\ decoder.pts = 0
  BY <1>1, <1>2 DEF Playing!AtFirst, Playing!Woken, Playing!Loop
<1>7. Playing!At("graphics", "join") => ~(media_at = "wait" /\ media.sem = 0)
  BY <1>1 DEF Playing!Woken, Playing!InCall
<1>8. media_at = "play" /\ decoder.ready => Playing!timestamp > last
  <2>1. /\ last \in Int /\ decoder.base_ts \in Nat /\ decoder.pts \in Nat
        /\ decoder.start_ts \in Nat
    BY <1>1 DEF PlayTypes, DecoderRec
  <2> QED
    BY <1>1, <2>1 DEF Playing!InTime, Playing!timestamp
<1> QED
  BY <1>4, <1>5, <1>6, <1>7, <1>8 DEF Playing!PlaysAsAsked

\* A media source is obeyed because every request wakes its thread, and because
\* what is asked for stays set until the thread has acted on it.
THEOREM PlayingInvariant == Spec => []Playing!IInv
<1>1. Init => Playing!IInv
  BY PlayingInit DEF Init
<1>2. Playing!IInv /\ [Next]_vars => Playing!IInv'
  <2>1. [Next]_vars => [Playing!Next]_mediaVars
    BY DEF Next, Objects, Raw, Encoded, vars, rawVars, mediaVars
  <2>2. QED
    BY <2>1, PlayingNext
<1>3. QED
  BY <1>1, <1>2, PTL DEF Spec

\* PlaysAsAsked, for any number of frames and requests and whatever fails: the
\* last request is obeyed, the thread does not sleep through its end, and no
\* frame is older than the last (mp_media_thread, ffmpeg_source_update).
THEOREM PlaysAsAskedHolds == Spec => []PlaysAsAsked
<1>1. Playing!IInv => PlaysAsAsked
  BY PlaysFromInvariant DEF PlaysAsAsked
<1>2. QED
  BY <1>1, PlayingInvariant, PTL

=============================================================================
