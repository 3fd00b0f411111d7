--------------------------- MODULE MCStreamOutput ---------------------------
(***************************************************************************)
(* StreamOutput for TLC.                                                   *)
(***************************************************************************)
EXTENDS StreamOutput, TLC

\* The threads of a kind are interchangeable.
ThreadSymmetry == Permutations(Ends) \cup Permutations(Reconnects)
                    \cup Permutations(Connects) \cup Permutations(Sends)
=============================================================================
