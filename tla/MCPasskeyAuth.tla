--------------------------- MODULE MCPasskeyAuth ---------------------------
(* PasskeyAuth on small sets, for the three runs called auth_...        *)
EXTENDS PasskeyAuth, TLC

CONSTANTS h1, h2, id1, id2, ann, new, annKey, key1, key2, tok

MCHandler == {h1, h2}
MCOneHandler == {h1}
MCCeremonyId == {id1, id2}
MCEmpty == {}

\* One account without passkeys but with a pairing token, one name that is
\* free, and two passkeys to enrol.
MCEnrolAccount == {ann, new}
MCEnrolCred == {key1, key2}
MCEnrolOwner == [c \in MCEnrolCred |-> Nobody]
MCEnrolToken == {tok}
MCEnrolTokenAccount == tok :> ann

\* One account with a passkey, and another passkey to enrol.
MCCeremonyAccount == {ann}
MCCeremonyCred == {annKey, key1}
MCCeremonyOwner == annKey :> ann @@ key1 :> Nobody
MCNoTokenAccount == <<>>

EnrolSymmetry ==
    Permutations(MCHandler) \cup Permutations(MCEnrolCred) \cup Permutations(MCCeremonyId)
=============================================================================
