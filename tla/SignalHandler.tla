---------------------------- MODULE SignalHandler ----------------------------
(***************************************************************************)
(* libobs/callback/signal.c: one signal of a signal handler, the callbacks *)
(* connected to it, and the threads that connect, disconnect and signal,   *)
(* also from inside a callback.  sig->mutex is recursive: its owner may    *)
(* call any of the three again from a callback, others wait.  A callback   *)
(* is a function with its data, and its owner connects it again only after *)
(* having disconnected it.                                                 *)
(***************************************************************************)
EXTENDS Naturals, Sequences, SequencesExt, FiniteSets

CONSTANTS
  Threads,
  Callbacks,
  MaxDepth                  \* bound: signals within callbacks of the same signal

None == "none"

VARIABLES
  callbacks,                \* sig->callbacks
  signalling,               \* sig->signalling
  owner,                    \* the thread that has sig->mutex
  loops,                    \* its calls of signal_handler_signal, innermost last
  wanted                    \* history: who connected and did not disconnect

vars == <<callbacks, signalling, owner, loops, wanted>>

Init ==
  /\ callbacks = <<>>
  /\ signalling = FALSE
  /\ owner = None
  /\ loops = <<>>
  /\ wanted = {}

Entry(c)   == [callback |-> c, remove |-> FALSE]
Indices(c) == {i \in DOMAIN callbacks : callbacks[i].callback = c}
Live       == {callbacks[i].callback : i \in {j \in DOMAIN callbacks : ~callbacks[j].remove}}

\* What is left of the list when entries are erased, in its order.
Keep(left) ==
  \E at \in [1 .. Cardinality(left) -> left] :
    /\ \A j, k \in DOMAIN at : j < k => at[j] < at[k]
    /\ callbacks' = [k \in DOMAIN at |-> callbacks[at[k]]]

Inner == Last(loops)

\* Thread t may lock the mutex: nobody has it, or t itself, inside a callback.
CanLock(t) == \/ owner = None
              \/ owner = t /\ Inner.calling

----------------------------------------------------------------------------
(* signal_handler_connect and signal_handler_disconnect.                   *)

\* Only a callback that is not in the list is added, marked for removal or not.
signal_handler_connect(t, c) ==
  /\ CanLock(t) /\ c \notin wanted
  /\ callbacks' = IF Indices(c) = {} THEN Append(callbacks, Entry(c)) ELSE callbacks
  /\ wanted' = wanted \cup {c}
  /\ UNCHANGED <<signalling, owner, loops>>

\* c is no longer due to be called by the loops under way.
Undue(c) == [k \in DOMAIN loops |-> [loops[k] EXCEPT !.due = @ \ {c}]]

\* Mutant: it is erased under the loop.
EraseAtOnce(t, c) ==
  /\ CanLock(t) /\ c \in wanted
  /\ Keep(DOMAIN callbacks \ Indices(c))
  /\ wanted' = wanted \ {c}
  /\ loops' = Undue(c)
  /\ UNCHANGED <<signalling, owner>>

\* Mutant: while signalling, the callback stays.
LeaveWhileSignalling(t, c) ==
  /\ CanLock(t) /\ c \in wanted
  /\ IF signalling THEN UNCHANGED callbacks ELSE Keep(DOMAIN callbacks \ Indices(c))
  /\ wanted' = wanted \ {c}
  /\ loops' = Undue(c)
  /\ UNCHANGED <<signalling, owner>>

\* While the callbacks are called it is only marked.
signal_handler_disconnect(t, c) ==
  /\ CanLock(t) /\ c \in wanted
  /\ IF signalling
     THEN callbacks' = [i \in DOMAIN callbacks |->
                          IF i \in Indices(c) THEN [callbacks[i] EXCEPT !.remove = TRUE]
                                              ELSE callbacks[i]]
     ELSE Keep(DOMAIN callbacks \ Indices(c))
  /\ wanted' = wanted \ {c}
  /\ loops' = Undue(c)
  /\ UNCHANGED <<signalling, owner>>

----------------------------------------------------------------------------
(* signal_handler_signal.  due: history, the callbacks connected when the  *)
(* loop began and not disconnected or called since.  nested: history,      *)
(* another loop ended within this one.                                     *)

Signal(t) ==
  /\ CanLock(t) /\ Len(loops) < MaxDepth
  /\ owner' = t
  /\ signalling' = TRUE
  /\ loops' = Append(loops, [i |-> 1, calling |-> FALSE, due |-> wanted \cap Live,
                             nested |-> FALSE])
  /\ UNCHANGED <<callbacks, wanted>>

SetInner(l) == loops' = [loops EXCEPT ![Len(loops)] = l]

Looping == owner # None /\ ~Inner.calling

\* The next callback is called, or passed over.
Call ==
  /\ Looping /\ Inner.i <= Len(callbacks)
  /\ SetInner(IF callbacks[Inner.i].remove
              THEN [Inner EXCEPT !.i = @ + 1]
              ELSE [Inner EXCEPT !.calling = TRUE,
                                 !.due = @ \ {callbacks[Inner.i].callback}])
  /\ UNCHANGED <<callbacks, signalling, owner, wanted>>

Returned ==
  /\ owner # None /\ Inner.calling
  /\ SetInner([Inner EXCEPT !.calling = FALSE, !.i = @ + 1])
  /\ UNCHANGED <<callbacks, signalling, owner, wanted>>

\* The marked ones are erased, also under the loops further out.
Finish ==
  /\ Looping /\ Inner.i > Len(callbacks)
  /\ Keep({i \in DOMAIN callbacks : ~callbacks[i].remove})
  /\ signalling' = FALSE
  /\ loops' = LET outer == Front(loops)
              IN IF outer = <<>> THEN <<>>
                 ELSE [outer EXCEPT ![Len(outer)] = [@ EXCEPT !.nested = TRUE]]
  /\ owner' = IF Len(loops) = 1 THEN None ELSE owner
  /\ UNCHANGED wanted

Next == \/ \E t \in Threads, c \in Callbacks :
             signal_handler_connect(t, c) \/ signal_handler_disconnect(t, c)
        \/ \E t \in Threads : Signal(t)
        \/ Call \/ Returned \/ Finish

Spec == Init /\ [][Next]_vars

----------------------------------------------------------------------------
(* What a signal promises.                                                 *)

TypeOK ==
  /\ callbacks \in Seq([callback : Callbacks, remove : BOOLEAN])
  /\ signalling \in BOOLEAN
  /\ owner \in Threads \cup {None}
  /\ loops \in Seq([i : Nat \ {0}, calling : BOOLEAN, due : SUBSET Callbacks,
                    nested : BOOLEAN])
  /\ wanted \subseteq Callbacks

\* Once signal_handler_disconnect has returned, nobody calls that callback, whose
\* data may be gone: not a signal under way either, however deep inside others.
NeverCalledAfter ==
  [][\A c \in Callbacks :
       (Len(loops') = Len(loops) /\ loops # <<>> /\ Inner'.calling /\ ~Inner.calling
        /\ callbacks[Inner.i].callback = c) => c \in wanted]_vars

\* A signal calls everyone who was connected when it began and did not
\* disconnect, unless another signal ended inside it and erased entries.
EveryoneIsCalled ==
  Looping /\ Inner.i > Len(callbacks) /\ ~Inner.nested => Inner.due = {}

\* Why that is so: the mutex is locked while somebody signals; what is called is
\* still wanted; and everyone whom the innermost signal has to call is ahead of it
\* in the list, in which nothing is erased before another signal ends inside it.
Locked == owner = None <=> loops = <<>>

Ahead ==
  loops # <<>> /\ ~Inner.nested =>
    /\ signalling
    /\ \A c \in Inner.due :
         \E i \in DOMAIN callbacks :
           /\ i >= Inner.i /\ (Inner.calling => i # Inner.i)
           /\ callbacks[i].callback = c /\ ~callbacks[i].remove

IInv == TypeOK /\ Locked /\ Live \subseteq wanted /\ Ahead
=============================================================================
