--------------------------- MODULE MCEscrowHistory ---------------------------
(* Small instances of the escrow contract with the history of its tokens.   *)
(* The views leave out the counters but for the bound on creations.         *)
EXTENDS MCEscrow, EscrowHistory

WithoutFlow == <<escrows, index, stats["total"], config, yields, batches, transfers, now,
                 wallet, pool, verifiers, disturbed>>

\* The stakes and storage refunds of all escrows and the tokens of disturbed ones
\* matter neither to an action nor to what is checked of undisturbed ones.
TokensOfUndisturbed ==
    <<WithoutFlow, [j \in Jobs |-> IF j \in disturbed THEN <<>> ELSE Tokens(flow[j])]>>

\* Solvent and overpaid depend on what is left of a deposit.
NetTokens == <<WithoutFlow, overpaid, [j \in Jobs |-> flow[j].in - Paid(j)]>>
=============================================================================
