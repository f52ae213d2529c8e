---------------------------- MODULE MCUrlService ----------------------------
(***************************************************************************)
(* Instances of UrlService for TLC.  Each request is one HTTP call, so the *)
(* request sets bound the calls of a run.                                  *)
(***************************************************************************)
EXTENDS UrlService, ShortCode, TLC

RequestSymmetry ==
    Permutations(Shorteners) \cup Permutations(Visitors)
    \cup Permutations(Deleters)

\* Two codes that Generate writes; neither reads the same from both ends.
TwoCodes == {Generated[1], Generated[5]}
OneCode == {Generated[1]}

\* A shortening tries codes that Generate returns, and no others.
ASSUME CodesAreGenerated == Codes \subseteq Range(Generated)

\* The code in a row is read back as it was written, and this is so of every code a
\* row may come to have.
StoredCodesReadBack ==
    /\ \A l \in urls : Encode(Decode(l.code)) = l.code
    /\ CodesRoundTrip

=============================================================================
