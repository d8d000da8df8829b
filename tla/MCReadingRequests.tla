--------------------------- MODULE MCReadingRequests ---------------------------
(* Small instances of ReadingRequests: which asset each requirement is about. *)
EXTENDS ReadingRequests, TLC

CONSTANTS a1, a2, r1, r2, p1, p2

\* Every requirement is about the one asset a1.
OneAsset == [r \in Requirements |-> a1]

\* No definition tells one place from another.
PlaceSymmetry == Permutations(Places)

================================================================================
