---------------------------- MODULE MCDownloader ----------------------------
(***************************************************************************)
(* Model-checking instances of Downloader.                                 *)
(***************************************************************************)
EXTENDS Downloader, TLC

\* Worker slots are interchangeable: only sets of and functions on them are
\* used.  Sound for the safety runs only.
WorkerSymmetry == Permutations(Worker)
=============================================================================
