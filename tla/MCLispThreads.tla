--------------------------- MODULE MCLispThreads ---------------------------
(* Instances of LispThreads for TLC.                                       *)
EXTENDS LispThreads, TLC

CONSTANTS w1, w2, m1, c1

\* The one condition variable is made with the one mutex.
MCMutexOf == (c1 :> m1)


\* Workers start unborn and play the same part.
WorkerSymmetry == Permutations(Workers)
=============================================================================
