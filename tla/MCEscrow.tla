------------------------------ MODULE MCEscrow ------------------------------
(* Small instances of the escrow contract. *)
EXTENDS EscrowProperties, TLC

CONSTANTS agent, worker, relayer, owner, key

Term1(mode, amount, fee, timeout) ==
    [agent |-> agent, amount |-> amount, fee |-> fee, timeout |-> timeout, mode |-> mode,
     max |-> 2, deadline |-> 1, threshold |-> 80]

StandardTerms == {Term1("Standard", 2, 1, 0)}
CompetitiveTerms == {[Term1("Competitive", 2, 1, 0) EXCEPT !.deadline = 0]}
TwoFees == StandardTerms \cup {Term1("Standard", 1, 0, 0)}
AllTerms == TwoFees \cup CompetitiveTerms

Verdict(score, passed) == [kind |-> "verdict", score |-> score, passed |-> passed]

AllPayloads == {Verdict(90, TRUE), Verdict(70, TRUE), NoPayload}
\* A score that is no u8: its low byte is 44.
WidePayloads == AllPayloads \cup {Verdict(300, TRUE)}
TwoPayloads == {Verdict(90, TRUE), NoPayload}

\* No action and no property tells one job id from another.
JobSymmetry == Permutations(Jobs)

\* The counters influence nothing but the bound on creations.
WithoutStats == <<escrows, index, stats["total"], config, yields, batches, transfers, flow, now,
                  wallet, pool, verifiers>>
=============================================================================
