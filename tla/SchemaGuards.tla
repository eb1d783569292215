----------------------------- MODULE SchemaGuards -----------------------------
(***************************************************************************)
(* The triggers and constraints of the migrations, as predicates on a row    *)
(* before and after a write or on the rows a transaction leaves.             *)
(*                                                                         *)
(* A write they refuse raises IntegrityError and undoes its transaction.     *)
(* The modules of the services leave the triggers out, which is right only   *)
(* if no write of theirs is refused: their properties say so.                *)
(* Identity columns are never written by an update of the program; here are  *)
(* the states, which are.  "none" and "absent" stand for no row: an insert   *)
(* is not an update.                                                        *)
(***************************************************************************)
EXTENDS Integers

NoRowYet == {"none", "absent", "asked"}

\* identity_guard_auth_state, identity_guard_family_state, identity_guard_credential_state:
\* only an active row changes its state.
SessionGuard(old, new)    == old \in NoRowYet \cup {"active"} \/ new = old
FamilyGuard(old, new)     == old \in NoRowYet \cup {"active"} \/ new = old
CredentialGuard(old, new) == old \in NoRowYet \cup {"active"} \/ new = old

\* identity_check_session_family_pair and ..._contract: deferred to the commit.
SessionPair(session, family) ==
    /\ session \in NoRowYet <=> family \in NoRowYet
    /\ session = "active" <=> family = "active"

\* identity_assert_family_credentials with identity_credential_one_active: deferred to the
\* commit.  The successor of a credential is the next generation.
FamilyCredentials(family, current, credential) ==
    LET written == {g \in DOMAIN credential : credential[g] \notin NoRowYet}
        active  == {g \in DOMAIN credential : credential[g] = "active"}
    IN  /\ family \in NoRowYet \/ current \in written
        /\ \A g \in written : g <= current
        /\ active = IF family = "active" THEN {current} ELSE {}

\* identity_guard_verification_challenge, after migration 0007.
ChallengeGuard(old, new) ==
    \/ new = old
    \/ old \in NoRowYet
    \/ old = "pending_delivery" /\ new \in {"active", "superseded", "delivery_failed"}
    \/ old = "active" /\ new \in {"consumed", "superseded", "expired", "locked"}

\* identity_guard_verification_delivery, after migration 0007.
DeliveryGuard(old, new) ==
    \/ new = old
    \/ old \in NoRowYet
    \/ old = "pending" /\ new \in {"leased", "delivery_failed"}
    \/ old = "leased" /\ new \in {"pending", "delivered", "delivery_failed"}

\* identity_challenge_one_active_destination.
OneActive(purpose, challenge) ==
    \A c, d \in DOMAIN challenge :
       challenge[c] = "active" /\ challenge[d] = "active" /\ purpose[c] = purpose[d] => c = d

\* identity_delivery_terminal_payload_erased and identity_delivery_lease_complete.
PayloadErased(delivery, payload) == payload <=> delivery \in {"pending", "leased"}
LeaseComplete(delivery, owned)   == delivery = "leased" => owned

\* identity_guard_security_notification_outbox: an ended row is immutable.
NoticeGuard(old, new) ==
    \/ new = old
    \/ old.state \in NoRowYet
    \/ new.state = old.state /\ old.state \in {"pending", "leased"}
    \/ old.state = "pending" /\ new.state = "leased"
    \/ old.state = "leased" /\ new.state \in {"pending", "delivered", "delivery_failed"}
=============================================================================
