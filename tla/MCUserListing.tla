--------------------------- MODULE MCUserListing ---------------------------
(* The instances of UserListing, and with it of Api, that TLC checks. *)
EXTENDS UserListing, TLC

ApiSymmetry ==
    Permutations(Clients) \cup Permutations(Ids)

\* No action looks at the code of the last answer.
ListingView ==
    <<users, games, born, removed, witness, reader, walk,
      [c \in Clients |-> IF InFlight(req[c]) THEN req[c] ELSE [at |-> "answered"]]>>
=============================================================================
