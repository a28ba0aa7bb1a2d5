----------------------------- MODULE VerifierSet -----------------------------
(***************************************************************************)
(* The verifiers of the escrow contract (src/lib.rs) and the number of     *)
(* signatures that make a consensus.  A verifier stands for an entry of    *)
(* the list: one that is removed is only deactivated, so that the indices  *)
(* of the others do not move, and two entries of new() may name one        *)
(* account.                                                                *)
(***************************************************************************)
EXTENDS Naturals, FiniteSets

CONSTANTS
    Verifiers,         \* every verifier that may ever be registered
    InitialVerifiers,  \* those given to new()
    InitialThreshold   \* the threshold given to new(), 2 by default

ASSUME VerifierAssumption ==
    /\ IsFiniteSet(Verifiers)
    /\ InitialVerifiers \subseteq Verifiers
    /\ InitialThreshold \in 1 .. Cardinality(InitialVerifiers)

VARIABLE verifiers     \* verifier_set and consensus_threshold

VerifierTypeOK ==
    verifiers \in [listed : SUBSET Verifiers, active : SUBSET Verifiers, threshold : Nat]

\* The entries given to new() may be inactive, as long as the active ones can make
\* a consensus.
VerifierInit ==
    \E active \in SUBSET InitialVerifiers :
        /\ InitialThreshold <= Cardinality(active)
        /\ verifiers = [listed |-> InitialVerifiers, active |-> active,
                        threshold |-> InitialThreshold]

\* Signatures that count: of distinct, active verifiers.
ValidSignatures(signers) == Cardinality(signers \cap verifiers.active)

IsConsensus(signers) == ValidSignatures(signers) >= verifiers.threshold

-----------------------------------------------------------------------------
AddVerifier(v) ==
    /\ v \notin verifiers.listed
    /\ verifiers' = [verifiers EXCEPT !.listed = @ \cup {v}, !.active = @ \cup {v}]

\* Nothing compares the number of verifiers that are left with the threshold.
DeactivateVerifier(v) ==
    /\ v \in verifiers.listed
    /\ verifiers' = [verifiers EXCEPT !.active = @ \ {v}]

SetConsensusThreshold(n) ==
    /\ 1 <= n /\ n <= Cardinality(verifiers.active)
    /\ verifiers' = [verifiers EXCEPT !.threshold = n]

VerifierAdmin ==
    \/ \E v \in Verifiers : AddVerifier(v) \/ DeactivateVerifier(v)
    \/ \E n \in 1 .. Cardinality(Verifiers) : SetConsensusThreshold(n)
=============================================================================
