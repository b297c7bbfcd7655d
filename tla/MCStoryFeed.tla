---------------------------- MODULE MCStoryFeed ----------------------------
(* StoryFeed on a few devices and uploads, for TLC. *)
EXTENDS StoryFeed, TLC

\* Devices are interchangeable, and so are the keys of uploads.
Symmetry == Permutations(Device) \cup Permutations(Story) \cup Permutations(Reply)

\* Invariants need no fairness.
SafeSpec == Init /\ [][Next]_vars

=============================================================================
