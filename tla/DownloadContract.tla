-------------------------- MODULE DownloadContract --------------------------
(***************************************************************************)
(* What swrm promises about a download (README: "Resumable downloads.      *)
(* Restart and it just re-verifies pieces on disk"): the pieces that are    *)
(* verified on disk only grow while it runs, it reports success only with   *)
(* every piece flushed, and a restart loses at most what was not flushed.   *)
(***************************************************************************)
EXTENDS Integers

CONSTANT N   \* number of pieces

VARIABLES
    verified,  \* pieces whose bytes on disk have the right hash
    durable,   \* verified pieces that survive a crash for sure
    status     \* "running", "ok" or "failed"

vars == <<verified, durable, status>>

Piece == 0 .. N - 1

Init ==
    /\ verified \in SUBSET Piece
    /\ durable = verified
    /\ status = "running"

Fetch(p) ==
    /\ status = "running"
    /\ verified' = verified \cup {p}
    /\ UNCHANGED <<durable, status>>

Complete ==
    /\ status = "running"
    /\ verified = Piece
    /\ durable' = Piece
    /\ status' = "ok"
    /\ UNCHANGED verified

Fail ==
    /\ status = "running"
    /\ status' = "failed"
    /\ UNCHANGED <<verified, durable>>

Restart ==
    /\ durable \subseteq verified'
    /\ verified' \subseteq verified
    /\ durable' = verified'
    /\ status' = "running"

Next ==
    \/ \E p \in Piece : Fetch(p)
    \/ Complete
    \/ Fail
    \/ Restart

Spec == Init /\ [][Next]_vars
=============================================================================
