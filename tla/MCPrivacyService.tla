--------------------------- MODULE MCPrivacyService ---------------------------
(* Small instances of PrivacyService for TLC.                              *)
EXTENDS PrivacyService, TLC

\* Two readings of the clock, or a ledger row that is removed: not both.
MCNext ==
  /\ Next
  /\ forgotten' # forgotten =>
       \A c \in PrivacyCalls : rpc[c] # None => rpc[c].stamp + 1 \notin Stamps

MCSpec == Init /\ [][MCNext]_vars

\* Calls are interchangeable.
MCSymmetry == Permutations(PrivacyCalls)
===============================================================================
