------------------------- MODULE MCTrackerAnnounce -------------------------
EXTENDS TrackerAnnounce, TLC

CONSTANTS u1, u2, u3, u4

MCScheme == u1 :> "udp" @@ u2 :> "udp" @@ u3 :> "http" @@ u4 :> "other"
\* Two tiers with a repeated and an empty url, of which the second has the tracker
\* that is up; a tier without one that is up; no tracker.
MCTorrents == {
    [announceList |-> << <<u1, NoUrl>>, <<u1, u2>> >>, announce |-> u3],
    [announceList |-> << <<u4, u3>> >>, announce |-> u4],
    [announceList |-> <<>>, announce |-> NoUrl] }
=============================================================================
