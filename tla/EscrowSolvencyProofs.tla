------------------------ MODULE EscrowSolvencyProofs ------------------------
(***************************************************************************)
(* The token account that all escrows, all internal workers and all        *)
(* deposits in flight share covers what is owed to each of them, but for   *)
(* what disturbed escrows were paid too much, for any number of escrows    *)
(* and workers and under every fault.  The first part is about sums; the   *)
(* second shows that whatever a handler moves, it moves between the        *)
(* account and one term of each sum at most.  That no undisturbed escrow   *)
(* is overpaid (EscrowPromiseProofs) is what keeps one from living on the  *)
(* deposit of another.                                                     *)
(***************************************************************************)
EXTENDS EscrowPromiseProofs

-----------------------------------------------------------------------------
(* Sums. *)

\* A sum counted out: one unit for each token of each x in s.
Units(F, s) == UNION {{x} \X (1 .. F[x]) : x \in s}

\* The units of a finite set of x, with and without those of one x.
LEMMA UnitsAdd ==
    ASSUME NEW S, IsFiniteSet(S), NEW F \in [S -> Nat], NEW s \in SUBSET S
    PROVE  /\ IsFiniteSet(Units(F, s))
           /\ Cardinality(Units(F, s)) \in Nat
           /\ \A x \in s : Cardinality(Units(F, s)) = F[x] + Cardinality(Units(F, s \ {x}))
<1>1. ASSUME NEW r \in SUBSET S
      PROVE  IsFiniteSet(Units(F, r)) /\ Cardinality(Units(F, r)) \in Nat
  <2> DEFINE heap == [x \in r |-> {x} \X (1 .. F[x])]
             heaps == {{x} \X (1 .. F[x]) : x \in r}
  <2>1. IsFiniteSet(r)
    BY FS_Subset
  <2>2. heap \in Surjection(r, heaps)
    BY DEF Surjection
  <2>3. IsFiniteSet(heaps)
    BY <2>1, <2>2, FS_Surjection
  <2>4. ASSUME NEW x \in r
        PROVE  IsFiniteSet({x} \X (1 .. F[x]))
    <3>1. F[x] \in Nat
      OBVIOUS
    <3>2. IsFiniteSet({x})
      BY FS_Singleton
    <3>3. IsFiniteSet(1 .. F[x])
      BY <3>1, FS_Interval
    <3> QED
      BY <3>2, <3>3, FS_Product
  <2>5. IsFiniteSet(UNION heaps)
    BY <2>3, <2>4, FS_UNION
  <2> QED
    BY <2>5, FS_CardinalityType DEF Units
<1>2. ASSUME NEW x \in s
      PROVE  Cardinality(Units(F, s)) = F[x] + Cardinality(Units(F, s \ {x}))
  <2> DEFINE own == {x} \X (1 .. F[x])
             rest == Units(F, s \ {x})
  <2>1. IsFiniteSet(rest) /\ Cardinality(rest) \in Nat
    BY <1>1
  <2>2. IsFiniteSet(own) /\ Cardinality(own) = F[x]
    <3>1. F[x] \in Nat
      OBVIOUS
    <3>2. IsFiniteSet({x}) /\ Cardinality({x}) = 1
      BY FS_Singleton
    <3>3. IsFiniteSet(1 .. F[x]) /\ Cardinality(1 .. F[x]) = F[x]
      BY <3>1, FS_Interval
    <3>4. IsFiniteSet(own) /\ Cardinality(own) = 1 * F[x]
      BY <3>2, <3>3, FS_Product
    <3> QED
      BY <3>1, <3>4
  <2>3. Units(F, s) = rest \cup own
    BY DEF Units
  <2>4. rest \cap own = {}
    BY DEF Units
  <2> HIDE DEF own, rest
  <2>5. Cardinality(rest \cap own) = 0
    BY <2>4, FS_EmptySet
  <2>6. F[x] \in Nat
    OBVIOUS
  <2>7. Cardinality(rest \cup own) = Cardinality(rest) + Cardinality(own) - Cardinality(rest \cap own)
    BY <2>1, <2>2, FS_Union
  <2> QED
    BY <2>1, <2>2, <2>3, <2>5, <2>6, <2>7 DEF rest
<1> QED
  BY <1>1, <1>2

\* SumFunction is defined by a recursion whose existence has to be shown, over an
\* order of summation that CHOOSE fixes; the sum is the number of units whatever
\* the order.  A smallest set on which the two differed would lose an element.
LEMMA SumIsUnits ==
    ASSUME NEW S, IsFiniteSet(S), NEW F \in [S -> Nat]
    PROVE  SumFunction(F) = Cardinality(Units(F, S))
<1> DEFINE pick(s) == CHOOSE x \in s : TRUE
           step(h, s) == IF s = {} THEN 0 ELSE F[pick(s)] + h[s \ {pick(s)}]
           count == [s \in SUBSET S |-> Cardinality(Units(F, s))]
           sum == CHOOSE h : h = [s \in SUBSET S |-> step(h, s)]
<1>1. \A s \in SUBSET S : s # {} => pick(s) \in s /\ s \ {pick(s)} \in SUBSET S
  OBVIOUS
<1>2. \A s \in SUBSET S : count[s] = step(count, s)
  <2> TAKE s \in SUBSET S
  <2>1. CASE s = {}
    BY <2>1, FS_EmptySet DEF Units
  <2>2. CASE s # {}
    <3>1. \A x \in s : Cardinality(Units(F, s)) = F[x] + Cardinality(Units(F, s \ {x}))
      BY UnitsAdd
    <3> QED
      BY <1>1, <2>2, <3>1
  <2> QED
    BY <2>1, <2>2
<1>3. count = [s \in SUBSET S |-> step(count, s)]
  BY <1>2
<1>4. sum = [s \in SUBSET S |-> step(sum, s)]
  BY <1>3
<1>5. SumFunction(F) = sum[S]
  BY DEF SumFunction, SumFunctionOnSet, FoldFunctionOnSet, MapThenFoldSet
<1> HIDE DEF sum
<1>6. \A s \in SUBSET S : sum[s] = count[s]
  <2> DEFINE wrong == {s \in SUBSET S : sum[s] # count[s]}
  <2> SUFFICES ASSUME wrong # {} PROVE FALSE
    OBVIOUS
  <2>1. IsWellFoundedOn(StrictSubsetOrdering(S), SUBSET S)
    BY FS_StrictSubsetOrderingWellFounded, FS_FiniteSubsetsOfFinite
  <2>2. PICK s \in wrong : \A r \in wrong : <<r, s>> \notin StrictSubsetOrdering(S)
    BY <2>1, WFMin
  <2>3. s # {}
    BY <1>2, <1>4
  <2>4. <<s \ {pick(s)}, s>> \in StrictSubsetOrdering(S)
    BY <1>1, <2>3 DEF StrictSubsetOrdering
  <2>5. sum[s \ {pick(s)}] = count[s \ {pick(s)}]
    BY <1>1, <2>2, <2>3, <2>4
  <2> HIDE DEF count
  <2> QED
    BY <1>2, <1>4, <2>2, <2>3, <2>5
<1> QED
  BY <1>5, <1>6

\* A sum changes by what one of its terms changes by.
LEMMA SumChanges ==
    ASSUME NEW S, IsFiniteSet(S), NEW F \in [S -> Nat], NEW G \in [S -> Nat], NEW x \in S,
           \A y \in S \ {x} : G[y] = F[y]
    PROVE  /\ SumFunction(F) \in Nat /\ SumFunction(G) \in Nat
           /\ SumFunction(G) - G[x] = SumFunction(F) - F[x]
<1>1. Units(G, S \ {x}) = Units(F, S \ {x})
  BY DEF Units
<1>2. /\ Cardinality(Units(F, S)) = F[x] + Cardinality(Units(F, S \ {x}))
      /\ Cardinality(Units(G, S)) = G[x] + Cardinality(Units(G, S \ {x}))
      /\ Cardinality(Units(F, S \ {x})) \in Nat
  BY UnitsAdd
<1>3. F[x] \in Nat /\ G[x] \in Nat
  OBVIOUS
<1> QED
  BY <1>1, <1>2, <1>3, SumIsUnits

\* The sum of zeros.
LEMMA SumOfNothing ==
    ASSUME NEW S, IsFiniteSet(S), NEW F \in [S -> Nat], \A x \in S : F[x] = 0
    PROVE  SumFunction(F) = 0
<1>1. Units(F, S) = {}
  BY DEF Units
<1> QED
  BY <1>1, SumIsUnits, FS_EmptySet

-----------------------------------------------------------------------------
(* What a step may do to the four sums. *)

\* The account is judged when the types are right and nobody is overpaid unseen.
Sane == TypeOK /\ HistoryOK /\ NeverOverpaid

\* What the sums are made of.
SumsTyped ==
    /\ pool \in Nat
    /\ Shortfall \in [Jobs -> Nat]
    /\ Owed \in [Jobs -> Nat] /\ Arriving \in [Jobs -> Nat] /\ Balances \in [Pubkeys -> Nat]
    /\ \A j \in Jobs : flow[j].in \in Nat /\ Paid(j) \in Nat

LEMMA TermsOfSums == Sane => SumsTyped
<1> SUFFICES ASSUME Sane PROVE SumsTyped
  OBVIOUS
<1> USE DEF Sane
<1>1. ASSUME NEW j \in Jobs
      PROVE  flow[j].in \in Nat /\ Paid(j) \in Nat /\ transfers[j].amount \in Nat
  BY DEF TypeOK, Flow, Paid
<1>2. ASSUME NEW p \in Pubkeys
      PROVE  wallet[p].ft \in Nat
  BY DEF TypeOK, WalletTypeOK, Worker
<1>3. ASSUME NEW j \in Jobs
      PROVE  (IF Paid(j) <= flow[j].in THEN flow[j].in - Paid(j) ELSE 0) \in Nat
  BY <1>1
<1>4. ASSUME NEW j \in Jobs
      PROVE  overpaid[j] \in Nat /\ Excess(j) \in Nat
  BY <1>1 DEF HistoryOK, Excess
<1>5. ASSUME NEW j \in Jobs
      PROVE  overpaid[j] + (IF j \in disturbed THEN Excess(j) ELSE 0) \in Nat
  BY <1>4
<1>6. Shortfall \in [Jobs -> Nat]
  BY <1>5 DEF Shortfall
<1> QED
  BY <1>1, <1>2, <1>3, <1>6 DEF SumsTyped, Owed, Arriving, Balances, TypeOK, WalletTypeOK

LEMMA TermsOfSumsNext == Sane' => SumsTyped'
  BY TermsOfSums, PTL

\* The sums are numbers, and no term is larger than its sum.
LEMMA TermInSum ==
    ASSUME NEW S, IsFiniteSet(S), NEW F \in [S -> Nat]
    PROVE  SumFunction(F) \in Nat /\ \A x \in S : F[x] <= SumFunction(F)
<1>1. Cardinality(Units(F, S)) \in Nat
  BY UnitsAdd
<1>2. ASSUME NEW x \in S
      PROVE  F[x] <= Cardinality(Units(F, S))
  <2>1. /\ Cardinality(Units(F, S)) = F[x] + Cardinality(Units(F, S \ {x}))
        /\ Cardinality(Units(F, S \ {x})) \in Nat /\ F[x] \in Nat
    BY UnitsAdd
  <2> QED
    BY <2>1
<1> QED
  BY <1>1, <1>2, SumIsUnits

\* A sum of terms for the job ids.
LEMMA JobSumChanges ==
    ASSUME NEW F \in [Jobs -> Nat], NEW G \in [Jobs -> Nat], NEW j \in Jobs,
           \A k \in Jobs \ {j} : G[k] = F[k]
    PROVE  /\ SumFunction(F) \in Nat /\ SumFunction(G) \in Nat
           /\ SumFunction(G) - G[j] = SumFunction(F) - F[j]
  BY FiniteAssumption, SumChanges

\* One escrow and its deposit in flight may take from the account what they owe
\* less or what it counts as a shortfall, or owe what the account gained.
LEMMA OneJobMoves ==
    ASSUME Sane, Sane', Solvent, NEW j \in Jobs,
           \A k \in Jobs \ {j} : /\ Owed'[k] = Owed[k] /\ Arriving'[k] = Arriving[k]
                                 /\ Shortfall'[k] = Shortfall[k],
           Balances' = Balances,
           pool' + Shortfall'[j] - Owed'[j] - Arriving'[j]
             >= pool + Shortfall[j] - Owed[j] - Arriving[j]
    PROVE  Solvent'
<1>1. SumsTyped /\ SumsTyped' /\ IsFiniteSet(Jobs) /\ IsFiniteSet(Pubkeys)
  BY TermsOfSums, TermsOfSumsNext, FiniteAssumption
<1>2. /\ SumFunction(Owed) \in Nat /\ SumFunction(Owed') \in Nat
      /\ SumFunction(Owed') - Owed'[j] = SumFunction(Owed) - Owed[j]
  <2>1. /\ Owed \in [Jobs -> Nat] /\ Owed' \in [Jobs -> Nat]
        /\ \A k \in Jobs \ {j} : Owed'[k] = Owed[k]
    BY <1>1 DEF SumsTyped
  <2> QED
    BY <2>1, JobSumChanges
<1>8. /\ SumFunction(Shortfall) \in Nat /\ SumFunction(Shortfall') \in Nat
      /\ SumFunction(Shortfall') - Shortfall'[j] = SumFunction(Shortfall) - Shortfall[j]
  <2>1. /\ Shortfall \in [Jobs -> Nat] /\ Shortfall' \in [Jobs -> Nat]
        /\ \A k \in Jobs \ {j} : Shortfall'[k] = Shortfall[k]
    BY <1>1 DEF SumsTyped
  <2> QED
    BY <2>1, JobSumChanges
<1>3. /\ SumFunction(Arriving) \in Nat /\ SumFunction(Arriving') \in Nat
      /\ SumFunction(Arriving') - Arriving'[j] = SumFunction(Arriving) - Arriving[j]
  BY <1>1, JobSumChanges DEF SumsTyped
<1>4. SumFunction(Balances) \in Nat /\ SumFunction(Balances') = SumFunction(Balances)
  BY <1>1, TermInSum DEF SumsTyped
<1>5. /\ pool \in Nat /\ pool' \in Nat /\ Owed[j] \in Nat /\ Owed'[j] \in Nat
      /\ Arriving[j] \in Nat /\ Arriving'[j] \in Nat
      /\ Shortfall[j] \in Nat /\ Shortfall'[j] \in Nat
  BY <1>1 DEF SumsTyped
<1>6. pool + SumFunction(Shortfall)
        >= SumFunction(Owed) + SumFunction(Balances) + SumFunction(Arriving)
  BY DEF Solvent
<1>7. pool' + SumFunction(Shortfall')
        >= SumFunction(Owed') + SumFunction(Balances') + SumFunction(Arriving')
  BY <1>2, <1>3, <1>4, <1>5, <1>6, <1>8
<1> QED
  BY <1>7 DEF Solvent

\* What a worker is credited with is owed less by one escrow.
LEMMA CreditMoves ==
    ASSUME Sane, Sane', Solvent, NEW j \in Jobs, NEW p \in Pubkeys,
           \A k \in Jobs \ {j} : Owed'[k] = Owed[k] /\ Shortfall'[k] = Shortfall[k],
           \A q \in Pubkeys \ {p} : Balances'[q] = Balances[q],
           Owed'[j] + Balances'[p] - Shortfall'[j] = Owed[j] + Balances[p] - Shortfall[j],
           pool' = pool, Arriving' = Arriving
    PROVE  Solvent'
<1>1. SumsTyped /\ SumsTyped' /\ IsFiniteSet(Jobs) /\ IsFiniteSet(Pubkeys)
  BY TermsOfSums, TermsOfSumsNext, FiniteAssumption
<1>2. /\ SumFunction(Owed) \in Nat /\ SumFunction(Owed') \in Nat
      /\ SumFunction(Owed') - Owed'[j] = SumFunction(Owed) - Owed[j]
  <2>1. /\ Owed \in [Jobs -> Nat] /\ Owed' \in [Jobs -> Nat]
        /\ \A k \in Jobs \ {j} : Owed'[k] = Owed[k]
    BY <1>1 DEF SumsTyped
  <2> QED
    BY <2>1, JobSumChanges
<1>8. /\ SumFunction(Shortfall) \in Nat /\ SumFunction(Shortfall') \in Nat
      /\ SumFunction(Shortfall') - Shortfall'[j] = SumFunction(Shortfall) - Shortfall[j]
  <2>1. /\ Shortfall \in [Jobs -> Nat] /\ Shortfall' \in [Jobs -> Nat]
        /\ \A k \in Jobs \ {j} : Shortfall'[k] = Shortfall[k]
    BY <1>1 DEF SumsTyped
  <2> QED
    BY <2>1, JobSumChanges
<1>3. /\ SumFunction(Balances) \in Nat /\ SumFunction(Balances') \in Nat
      /\ SumFunction(Balances') - Balances'[p] = SumFunction(Balances) - Balances[p]
  BY <1>1, SumChanges DEF SumsTyped
<1>4. SumFunction(Arriving) \in Nat /\ SumFunction(Arriving') = SumFunction(Arriving)
  BY <1>1, TermInSum DEF SumsTyped
<1>5. /\ pool \in Nat /\ Owed[j] \in Nat /\ Owed'[j] \in Nat
      /\ Balances[p] \in Nat /\ Balances'[p] \in Nat
      /\ Shortfall[j] \in Nat /\ Shortfall'[j] \in Nat
  BY <1>1 DEF SumsTyped
<1>6. pool + SumFunction(Shortfall)
        >= SumFunction(Owed) + SumFunction(Balances) + SumFunction(Arriving)
  BY DEF Solvent
<1>7. pool' + SumFunction(Shortfall')
        >= SumFunction(Owed') + SumFunction(Balances') + SumFunction(Arriving')
  BY <1>2, <1>3, <1>4, <1>5, <1>6, <1>8
<1> QED
  BY <1>7 DEF Solvent

\* A worker that withdraws takes at most its own balance from the account.
LEMMA WithdrawalMoves ==
    ASSUME Sane, Sane', Solvent, NEW p \in Pubkeys,
           \A q \in Pubkeys \ {p} : Balances'[q] = Balances[q],
           pool' - Balances'[p] >= pool - Balances[p],
           Owed' = Owed, Arriving' = Arriving, Shortfall' = Shortfall
    PROVE  Solvent'
<1>1. SumsTyped /\ SumsTyped' /\ IsFiniteSet(Jobs) /\ IsFiniteSet(Pubkeys)
  BY TermsOfSums, TermsOfSumsNext, FiniteAssumption
<1>2. /\ SumFunction(Owed) \in Nat /\ SumFunction(Arriving) \in Nat
      /\ SumFunction(Shortfall) \in Nat
  BY <1>1, TermInSum DEF SumsTyped
<1>3. /\ SumFunction(Balances) \in Nat /\ SumFunction(Balances') \in Nat
      /\ SumFunction(Balances') - Balances'[p] = SumFunction(Balances) - Balances[p]
  BY <1>1, SumChanges DEF SumsTyped
<1>4. pool \in Nat /\ pool' \in Nat /\ Balances[p] \in Nat /\ Balances'[p] \in Nat
  BY <1>1 DEF SumsTyped
<1>5. pool + SumFunction(Shortfall)
        >= SumFunction(Owed) + SumFunction(Balances) + SumFunction(Arriving)
  BY DEF Solvent
<1>6. pool' + SumFunction(Shortfall')
        >= SumFunction(Owed') + SumFunction(Balances') + SumFunction(Arriving')
  BY <1>2, <1>3, <1>4, <1>5
<1> QED
  BY <1>6 DEF Solvent

\* What leaves tokens, balances and account alone.
LEMMA NothingMoves ==
    ASSUME Solvent, Owed' = Owed, Balances' = Balances, Arriving' = Arriving, pool' = pool,
           Shortfall' = Shortfall
    PROVE  Solvent'
  BY DEF Solvent

-----------------------------------------------------------------------------
(* The handlers. *)

\* What an escrow owes and what it was paid too much follow from its history.
LEMMA AccountOf ==
    ASSUME Sane, NEW j \in Jobs
    PROVE  /\ flow[j].in \in Nat /\ Paid(j) \in Nat /\ overpaid[j] \in Nat
           /\ Owed[j] \in Nat /\ Shortfall[j] \in Nat
           /\ Owed[j] - Shortfall[j] = flow[j].in - Paid(j) - overpaid[j]
           /\ Shortfall[j] = overpaid[j] + Excess(j)
<1>1. SumsTyped /\ overpaid[j] \in Nat
  BY TermsOfSums DEF Sane, HistoryOK
<1>2. j \notin disturbed => Excess(j) = 0
  BY <1>1 DEF Sane, NeverOverpaid, Undisturbed, Excess, SumsTyped
<1>3. Shortfall[j] = overpaid[j] + Excess(j)
  BY <1>1, <1>2 DEF Shortfall, SumsTyped
<1> QED
  BY <1>1, <1>3 DEF SumsTyped, Owed, Excess

LEMMA AccountOfNext ==
    ASSUME Sane', NEW j \in Jobs
    PROVE  /\ flow'[j].in \in Nat /\ Paid(j)' \in Nat /\ overpaid'[j] \in Nat
           /\ Owed'[j] \in Nat /\ Shortfall'[j] \in Nat
           /\ Owed'[j] - Shortfall'[j] = flow'[j].in - Paid(j)' - overpaid'[j]
           /\ Shortfall'[j] = overpaid'[j] + Excess(j)'
<1>1. SumsTyped' /\ overpaid'[j] \in Nat
  BY TermsOfSumsNext DEF Sane, HistoryOK
<1>2. j \notin disturbed' => Excess(j)' = 0
  BY <1>1 DEF Sane, NeverOverpaid, Undisturbed, Excess, SumsTyped
<1>3. Shortfall'[j] = overpaid'[j] + Excess(j)'
  BY <1>1, <1>2 DEF Shortfall, SumsTyped
<1> QED
  BY <1>1, <1>3 DEF SumsTyped, Owed, Excess

\* Both depend on the tokens in the history alone.
LEMMA OwedKept ==
    ASSUME Sane, Sane', NEW k \in Jobs, Tokens(flow'[k]) = Tokens(flow[k]), overpaid'[k] = overpaid[k]
    PROVE  Owed'[k] = Owed[k] /\ Shortfall'[k] = Shortfall[k]
<1>1. flow'[k].in = flow[k].in /\ Paid(k)' = Paid(k)
  BY TokenFields DEF Paid
<1>2. Owed'[k] = Owed[k] /\ Excess(k)' = Excess(k)
  BY <1>1 DEF Owed, Excess
<1> QED
  BY <1>2, AccountOf, AccountOfNext

LEMMA AllOwedKept ==
    ASSUME Sane, Sane', TokensKept, overpaid' = overpaid
    PROVE  Owed' = Owed /\ Shortfall' = Shortfall
<1>1. \A k \in Jobs : Owed'[k] = Owed[k] /\ Shortfall'[k] = Shortfall[k]
  BY OwedKept DEF TokensKept
<1> QED
  BY <1>1 DEF Owed, Shortfall

\* Only create_escrow forgets what an earlier escrow was paid.
NoneCreated == \A k \in Jobs : ~Created(k)

LEMMA OverpaidKept ==
    ASSUME Sane, HistoryNext, NoneCreated
    PROVE  overpaid' = overpaid
<1>1. overpaid \in [Jobs -> Nat]
  BY DEF Sane, HistoryOK
<1> QED
  BY <1>1 DEF HistoryNext, NoneCreated

LEMMA NotCreated ==
    ASSUME NEW j \in Jobs, Exists(j), \A k \in Jobs \ {j} : escrows'[k] = escrows[k]
    PROVE  NoneCreated
  BY DEF NoneCreated, Created, Exists

LEMMA RecordExists ==
    ASSUME NEW j \in Jobs, escrows[j] \in EscrowRecord
    PROVE  Exists(j)
  BY DEF Exists, EscrowRecord, Statuses

LEMMA SettlesCreatesNone ==
    ASSUME TypeOK, NEW j \in Jobs, NEW e \in EscrowRecord, Settles(j, e)
    PROVE  NoneCreated
<1>1. Exists(j) /\ \A k \in Jobs \ {j} : escrows'[k] = escrows[k]
  BY SettlesKeeps, RecordExists DEF Settles, Kept
<1> QED
  BY <1>1, NotCreated

\* The end of a settlement: an internal worker is credited with what the escrow
\* owed it, any other settlement moves no tokens.
LEMMA FinishSolvent ==
    ASSUME Sane, Sane', Solvent, overpaid' = overpaid,
           NEW j \in Jobs, NEW e \in EscrowRecord, NEW st, NEW f \in Flow,
           Tokens(f) = Tokens(flow[j]), Finish(j, e, st, f),
           pool' = pool, transfers' = transfers
    PROVE  Solvent'
<1>1. /\ flow \in [Jobs -> Flow] /\ wallet \in [Pubkeys -> Worker] /\ e.payout \in Nat
      /\ e.pubkey \in Pubkeys \cup {NoOne}
  BY DEF Sane, TypeOK, WalletTypeOK, EscrowRecord
<1>2. /\ flow' = [flow EXCEPT ![j] = flow'[j]]
      /\ Tokens(flow'[j]) = IF e.pubkey = NoOne THEN Tokens(f)
                            ELSE Tokens([f EXCEPT !.credit = @ + e.payout])
  BY FinishTokens DEF Sane
<1>3. \A k \in Jobs \ {j} : flow'[k] = flow[k]
  BY <1>1, <1>2
<1>4. Arriving' = Arriving
  BY DEF Arriving
<1>5. CASE e.pubkey = NoOne
  <2>1. TokensKept
    BY <1>2, <1>3, <1>5 DEF TokensKept
  <2>2. Balances' = Balances
    BY <1>5 DEF Finish, Balances
  <2> QED
    BY <1>4, <2>1, <2>2, AllOwedKept, NothingMoves
<1>6. CASE e.pubkey # NoOne
  <2> DEFINE p == e.pubkey
  <2>1. p \in Pubkeys /\ wallet' = [wallet EXCEPT ![p] = Credited(@, e.payout, e.stakeRefund)]
    BY <1>1, <1>6 DEF Finish
  <2>2. wallet'[p].ft = wallet[p].ft + e.payout
    BY <1>1, <2>1 DEF Credited, Worker
  <2>3. \A q \in Pubkeys \ {p} : wallet'[q] = wallet[q]
    BY <1>1, <2>1
  <2>4. Tokens([f EXCEPT !.credit = @ + e.payout])
           = <<f.in, f.agent, f.worker, f.owner, f.credit + e.payout>>
    BY DEF Tokens, Flow
  <2>5. /\ flow'[j].in = flow[j].in /\ flow'[j].agent = flow[j].agent
        /\ flow'[j].worker = flow[j].worker /\ flow'[j].owner = flow[j].owner
        /\ flow'[j].credit = flow[j].credit + e.payout
    BY <1>2, <1>6, <2>4 DEF Tokens
  <2>6. Paid(j)' = Paid(j) + e.payout
    BY <1>1, <2>5 DEF Paid, Flow
  <2>7. Owed'[j] + wallet'[p].ft - Shortfall'[j] = Owed[j] + wallet[p].ft - Shortfall[j]
    <3>1. wallet[p].ft \in Nat
      BY <1>1, <2>1 DEF Worker
    <3>2. Owed'[j] - Shortfall'[j] = Owed[j] - Shortfall[j] - e.payout
      BY <1>1, <2>5, <2>6, AccountOf, AccountOfNext
    <3> QED
      BY <1>1, <2>2, <3>1, <3>2, AccountOf, AccountOfNext
  <2>8. \A k \in Jobs \ {j} : Owed'[k] = Owed[k] /\ Shortfall'[k] = Shortfall[k]
    BY <1>3, OwedKept
  <2>9. /\ Balances'[p] = wallet'[p].ft /\ Balances[p] = wallet[p].ft
        /\ \A q \in Pubkeys \ {p} : Balances'[q] = Balances[q]
    BY <2>1, <2>3 DEF Balances
  <2> HIDE DEF p
  <2> QED
    BY <1>4, <2>1, <2>7, <2>8, <2>9, CreditMoves
<1> QED
  BY <1>5, <1>6

\* _settle_escrow, at the end of whichever handler.
LEMMA SettlesSolvent ==
    ASSUME Sane, Sane', Solvent, HistoryNext,
           NEW j \in Jobs, NEW e \in EscrowRecord, Settles(j, e),
           pool' = pool, transfers' = transfers
    PROVE  Solvent'
<1>4. overpaid' = overpaid
  BY SettlesCreatesNone, OverpaidKept DEF Sane
<1>1. PICK st \in Counters, f \in Flow : Tokens(f) = Tokens(flow[j]) /\ SettleEscrow(j, e, st, f)
  BY DEF Settles
<1>2. CASE flow' = [flow EXCEPT ![j] = f] /\ UNCHANGED wallet
  <2>1. TokensKept
    BY <1>1, <1>2 DEF TokensKept, TypeOK, Sane
  <2> QED
    BY <1>2, <1>4, <2>1, AllOwedKept, NothingMoves DEF Balances, Arriving
<1>3. CASE Finish(j, Prepared(e), st, f)
  BY <1>1, <1>3, <1>4, PreparedType, FinishSolvent
<1> QED
  BY <1>1, <1>2, <1>3 DEF SettleEscrow

\* No call for an escrow touches the account or the deposits in flight.
LEMMA CallKeepsPool ==
    ASSUME NEW j \in Jobs, UserCall(j)
    PROVE  pool' = pool /\ transfers' = transfers
<1>1. CASE \/ \E t \in Terms, attached \in Deposits : CreateEscrow(j, t, attached)
           \/ \E w \in Workers, attached \in Deposits : Claim(j, w, attached)
           \/ \E w \in Accounts : SubmitResult(j, w)
           \/ \E w \in Workers, attached \in Deposits : SubmitCompetitive(j, w, attached)
  BY <1>1 DEF CreateEscrow, Claim, SubmitResult, SubmitCompetitive
<1>2. CASE \/ \E p \in Pubkeys, r \in Relayers : ClaimFor(j, p, r) \/ SubmitCompetitiveFor(j, p, r)
           \/ \E p \in Pubkeys : SubmitResultFor(j, p) \/ SubmitResultForReplay(j, p)
  BY <1>2 DEF ClaimFor, SubmitResultFor, SubmitResultForReplay, SubmitCompetitiveFor
<1>3. CASE \E caller \in Accounts : \/ \E s \in escrows[j].subs : DesignateWinner(j, caller, s)
                                    \/ RetrySettlement(j, caller)
  BY <1>3 DEF DesignateWinner, RetrySettlement
<1>4. CASE RetryExhausted(j) \/ Cancel(j) \/ ForceCancelVerifying(j) \/ RefundExpired(j)
  BY <1>4 DEF RetryExhausted, Cancel, CancelUnfunded, ForceCancelVerifying, RefundExpired,
              RefundUnsubmitted, RefundStuck
<1> QED
  BY <1>1, <1>2, <1>3, <1>4, ZenonT(60) DEF UserCall

\* Claims and submissions cost an internal worker a nonce and NEAR, no tokens.
LEMMA WorkKeepsBalances ==
    ASSUME TypeOK, NEW j \in Jobs, NEW p \in Pubkeys,
           \/ \E r \in Relayers : ClaimFor(j, p, r) \/ SubmitCompetitiveFor(j, p, r)
           \/ SubmitResultFor(j, p) \/ SubmitResultForReplay(j, p)
    PROVE  Balances' = Balances
<1>1. wallet \in [Pubkeys -> Worker]
  BY DEF TypeOK, WalletTypeOK
<1>2. ASSUME NEW w, w.ft = wallet[p].ft, wallet' = [wallet EXCEPT ![p] = w]
      PROVE  Balances' = Balances
  BY <1>1, <1>2 DEF Balances
<1>3. ASSUME NEW w \in Worker, NEW n
      PROVE  /\ Bumped(w).ft = w.ft /\ [w EXCEPT !.near = n].ft = w.ft
             /\ [w EXCEPT !.registered = TRUE].ft = w.ft
             /\ Bumped([w EXCEPT !.near = n]).ft = w.ft
             /\ Bumped([w EXCEPT !.registered = TRUE]).ft = w.ft
             /\ [Bumped([w EXCEPT !.registered = TRUE]) EXCEPT !.near = n].ft = w.ft
  BY DEF Bumped, Worker
<1>4. CASE \E r \in Relayers : ClaimFor(j, p, r)
  <2>1. PICK n : wallet' = [wallet EXCEPT ![p] = Bumped([wallet[p] EXCEPT !.near = n])]
    <3> DEFINE n == wallet[p].near - config.workerStake
    <3>1. wallet' = [wallet EXCEPT ![p] = Bumped([wallet[p] EXCEPT !.near = n])]
      BY <1>4 DEF ClaimFor
    <3> QED
      BY <3>1
  <2>2. Bumped([wallet[p] EXCEPT !.near = n]).ft = wallet[p].ft
    BY <1>1, <1>3
  <2> QED
    BY <1>2, <2>1, <2>2
<1>5. CASE SubmitResultFor(j, p) \/ SubmitResultForReplay(j, p)
  BY <1>1, <1>2, <1>3, <1>5 DEF SubmitResultFor, SubmitResultForReplay, Relayed
<1>6. CASE \E r \in Relayers : SubmitCompetitiveFor(j, p, r)
  <2>1. PICK n : wallet' \in {[wallet EXCEPT ![p] = Relayed(p)],
                              [wallet EXCEPT ![p] = [Relayed(p) EXCEPT !.near = n]]}
    <3> DEFINE n == Relayed(p).near - config.workerStake
    <3>1. wallet' \in {[wallet EXCEPT ![p] = Relayed(p)],
                       [wallet EXCEPT ![p] = [Relayed(p) EXCEPT !.near = n]]}
      BY <1>6 DEF SubmitCompetitiveFor
    <3> QED
      BY <3>1
  <2>2. Relayed(p).ft = wallet[p].ft /\ [Relayed(p) EXCEPT !.near = n].ft = wallet[p].ft
    BY <1>1, <1>3 DEF Relayed
  <2> QED
    BY <1>2, <2>1, <2>2
<1> QED
  BY <1>4, <1>5, <1>6

\* A call for an escrow.
LEMMA CallSolvent ==
    ASSUME Sane, Sane', FailedHasTarget, Solvent, HistoryNext, NEW j \in Jobs, UserCall(j)
    PROVE  Solvent'
<1>1. pool' = pool /\ transfers' = transfers /\ Arriving' = Arriving
  BY CallKeepsPool DEF Arriving
<1>2. CASE \/ \E caller \in Accounts : RetrySettlement(j, caller)
           \/ RetryExhausted(j) \/ Cancel(j) \/ ForceCancelVerifying(j) \/ RefundExpired(j)
  <2>1. Cancels(j) \/ Refunds(j)
    BY <1>2, CancelShape, ZenonT(60) DEF Sane
  <2>2. CASE Cancels(j)
    <3>1. TokensKept /\ Balances' = Balances
      BY <2>2 DEF Cancels, Balances
    <3>2. Exists(j) /\ \A k \in Jobs \ {j} : escrows'[k] = escrows[k]
      BY <2>2, StepKeeps DEF StepOf, CallShape, Kept, Cancels, Retryable, Exists, Sane
    <3> QED
      BY <1>1, <3>1, <3>2, NotCreated, OverpaidKept, AllOwedKept, NothingMoves
  <2>3. CASE Refunds(j)
    BY <1>1, <2>3, SettlesSolvent DEF Refunds
  <2> QED
    BY <2>1, <2>2, <2>3
<1>3. CASE \/ \E t \in Terms, attached \in Deposits : CreateEscrow(j, t, attached)
           \/ \E w \in Workers, attached \in Deposits : Claim(j, w, attached)
           \/ \E w \in Accounts : SubmitResult(j, w)
           \/ \E w \in Workers, attached \in Deposits : SubmitCompetitive(j, w, attached)
           \/ \E p \in Pubkeys, r \in Relayers : ClaimFor(j, p, r) \/ SubmitCompetitiveFor(j, p, r)
           \/ \E p \in Pubkeys : SubmitResultFor(j, p) \/ SubmitResultForReplay(j, p)
           \/ \E caller \in Accounts, s \in escrows[j].subs :
                 escrows[j].status = "Open" /\ DesignateWinner(j, caller, s)
  <2>1. Balances' = Balances
    <3>1. CASE UNCHANGED wallet
      BY <3>1 DEF Balances
    <3>2. CASE \/ \E p \in Pubkeys, r \in Relayers : ClaimFor(j, p, r) \/ SubmitCompetitiveFor(j, p, r)
               \/ \E p \in Pubkeys : SubmitResultFor(j, p) \/ SubmitResultForReplay(j, p)
      BY <3>2, WorkKeepsBalances, ZenonT(60) DEF Sane
    <3> QED
      BY <1>3, <3>1, <3>2
      DEF CreateEscrow, Claim, SubmitResult, SubmitCompetitive, DesignateWinner
  <2>2. Rests \/ Creates(j) \/ Takes(j) \/ \E d \in YieldIds : Opens(j, d)
    BY <1>3, WorkShape, ZenonT(60) DEF Sane
  <2>3. CASE Rests \/ Takes(j) \/ \E d \in YieldIds : Opens(j, d)
    <3>1. TokensKept
      BY <2>3 DEF Rests, Takes, Opens
    <3>2. NoneCreated
      <4>1. CASE Rests
        BY <4>1 DEF Rests, NoneCreated, Created, Exists
      <4>2. CASE Takes(j) \/ \E d \in YieldIds : Opens(j, d)
        <5>1. Exists(j) /\ \A k \in Jobs \ {j} : escrows'[k] = escrows[k]
          BY <4>2, StepKeeps DEF StepOf, CallShape, Kept, Takes, Opens, Exists, Sane
        <5> QED
          BY <5>1, NotCreated
      <4> QED
        BY <2>3, <4>1, <4>2
    <3> QED
      BY <1>1, <2>1, <3>1, <3>2, OverpaidKept, AllOwedKept, NothingMoves
\* A new escrow owes nothing, whatever an earlier one with its job id owed; what
\* that one was paid too much stays on record.
  <2>4. CASE Creates(j)
    <3>1. flow'[j] = NoFlow /\ \A k \in Jobs \ {j} : flow'[k] = flow[k] /\ escrows'[k] = escrows[k]
      BY <2>4 DEF Creates, TypeOK, Sane
    <3>2. Owed'[j] = 0 /\ Excess(j)' = 0
      <4>1. Paid(j)' = 0 /\ flow'[j].in = 0
        BY <3>1 DEF Paid, NoFlow
      <4> QED
        BY <4>1 DEF Owed, Excess
    <3>3. \A k \in Jobs \ {j} : overpaid'[k] = overpaid[k]
      <4>1. \A k \in Jobs \ {j} : ~Created(k)
        BY <3>1 DEF Created, Exists
      <4> QED
        BY <4>1 DEF HistoryNext, Sane, HistoryOK
    <3>4. \A k \in Jobs \ {j} : Owed'[k] = Owed[k] /\ Shortfall'[k] = Shortfall[k]
      BY <3>1, <3>3, OwedKept
    <3>5. Shortfall'[j] >= Shortfall[j]
      <4>1. Created(j)
        <5>1. ~Exists(j)
          BY <2>4 DEF Creates, Exists, NoEscrow
        <5>2. escrows'[j].status = "PendingFunding"
          BY <2>4 DEF Creates, TypeOK, NewEscrow, Sane
        <5> QED
          BY <5>1, <5>2 DEF Created, Exists
      <4>2. overpaid'[j] = overpaid[j] + IF j \in disturbed THEN Excess(j) ELSE 0
        BY <4>1 DEF HistoryNext
      <4>3. Shortfall'[j] = overpaid'[j]
        BY <3>2, AccountOfNext
      <4> QED
        BY <4>2, <4>3, AccountOf DEF Shortfall
    <3>6. pool \in Nat /\ Arriving[j] \in Nat
      BY TermsOfSums DEF SumsTyped
    <3> QED
      BY <1>1, <2>1, <3>2, <3>4, <3>5, <3>6, AccountOf, AccountOfNext, OneJobMoves
  <2> QED
    BY <2>2, <2>3, <2>4
<1> QED
  BY <1>2, <1>3, ZenonT(60) DEF UserCall

\* A deposit is on its way, is accepted, or is taken back.
LEMMA DepositSolvent ==
    ASSUME Sane, Sane', Solvent, HistoryNext, NEW j \in Jobs, Deposit(j) \/ FtOnTransfer(j)
    PROVE  Solvent'
<1> USE DEF SumsTyped, Sane
<1>6. overpaid' = overpaid
  <2>1. CASE UNCHANGED escrows
    BY <2>1, OverpaidKept DEF NoneCreated, Created, Exists
  <2>2. CASE FtOnTransferAccept(j)
    <3>1. Exists(j) /\ \A k \in Jobs \ {j} : escrows'[k] = escrows[k]
      BY <2>2 DEF FtOnTransferAccept, Accepted, Exists, TypeOK
    <3> QED
      BY <3>1, NotCreated, OverpaidKept
  <2> QED
    BY <2>1, <2>2 DEF Deposit, FtTransferCall, FtOnTransfer, FtOnTransferReject
<1>1. /\ SumsTyped /\ SumsTyped' /\ transfers[j].amount \in Nat
      /\ Arriving[j] = transfers[j].amount /\ Arriving'[j] = transfers'[j].amount
  BY TermsOfSums, TermsOfSumsNext DEF TypeOK, Arriving
<1>2. ASSUME \A k \in Jobs \ {j} : transfers'[k] = transfers[k]
      PROVE  \A k \in Jobs \ {j} : Arriving'[k] = Arriving[k]
  BY <1>2 DEF Arriving
<1>3. CASE Deposit(j)
  <2>1. PICK from \in Depositors, t \in Terms : FtTransferCall(j, from, t.amount)
    BY <1>3 DEF Deposit
  <2>2. t.amount \in Nat
    BY EscrowAssumption DEF Term
  <2>3. /\ transfers'[j].amount = t.amount /\ pool' = pool + t.amount
        /\ \A k \in Jobs \ {j} : transfers'[k] = transfers[k]
        /\ UNCHANGED <<flow, wallet>>
    BY <2>1 DEF FtTransferCall, TypeOK
  <2>4. Owed' = Owed /\ Shortfall' = Shortfall /\ Balances' = Balances
    BY <1>6, <2>3, AllOwedKept DEF TokensKept, Balances
  <2> QED
    BY <1>1, <1>2, <2>2, <2>3, <2>4, AccountOf, OneJobMoves
<1>4. CASE FtOnTransferAccept(j)
  <2>1. /\ transfers'[j].amount = 0 /\ UNCHANGED <<pool, wallet>>
        /\ \A k \in Jobs \ {j} : transfers'[k] = transfers[k]
    BY <1>4 DEF FtOnTransferAccept, TypeOK, NoTransfer
  <2>2. /\ flow'[j].in = flow[j].in + transfers[j].amount
        /\ Paid(j)' = Paid(j)
        /\ \A k \in Jobs \ {j} : flow'[k] = flow[k]
    <3>1. flow[j] \in Flow /\ flow \in [Jobs -> Flow]
      BY DEF TypeOK
    <3>2. flow' = [flow EXCEPT ![j] = [flow[j] EXCEPT !.in = @ + transfers[j].amount]]
      BY <1>4, <3>1 DEF FtOnTransferAccept
    <3>3. flow'[j] = [flow[j] EXCEPT !.in = @ + transfers[j].amount]
      BY <3>1, <3>2
    <3> QED
      BY <3>1, <3>2, <3>3 DEF Paid, Flow
  <2>3. Owed'[j] - Shortfall'[j] = Owed[j] - Shortfall[j] + transfers[j].amount
    BY <1>1, <1>6, <2>2, AccountOf, AccountOfNext
  <2>4. /\ Balances' = Balances
        /\ \A k \in Jobs \ {j} : Owed'[k] = Owed[k] /\ Shortfall'[k] = Shortfall[k]
    BY <1>6, <2>1, <2>2, OwedKept DEF Balances
  <2> QED
    BY <1>1, <1>2, <2>1, <2>3, <2>4, AccountOf, AccountOfNext, OneJobMoves
<1>5. CASE FtOnTransferReject(j)
  <2>1. /\ transfers'[j].amount = 0 /\ UNCHANGED <<flow, wallet>>
        /\ \A k \in Jobs \ {j} : transfers'[k] = transfers[k]
        /\ pool' >= pool - transfers[j].amount
    BY <1>1, <1>5 DEF FtOnTransferReject, TypeOK, NoTransfer
  <2>2. Owed' = Owed /\ Shortfall' = Shortfall /\ Balances' = Balances
    BY <1>6, <2>1, AllOwedKept DEF TokensKept, Balances
  <2> QED
    BY <1>1, <1>2, <2>1, <2>2, AccountOf, OneJobMoves
<1> QED
  BY <1>3, <1>4, <1>5 DEF FtOnTransfer

\* The token contract executes a batch, and settle_callback runs.
LEMMA BatchSolvent ==
    ASSUME Sane, Sane', Solvent, HistoryNext, NEW b \in BatchIds, FtExecute(b) \/ SettleCallback(b)
    PROVE  Solvent'
<1> DEFINE s == batches[b]
<1>1. s \in Batch /\ flow \in [Jobs -> Flow] /\ stats \in Counters
  BY DEF TypeOK, Counters, Sane
<1>2. s.phase # "free" => s.job \in Jobs /\ s.amount \in Nat /\ s.fee \in Nat /\ s.to \in {"agent", "worker"}
  BY <1>1 DEF Batch, NoBatch
<1>6. overpaid' = overpaid
  <2>1. CASE UNCHANGED escrows
    BY <2>1, OverpaidKept DEF NoneCreated, Created, Exists
  <2>2. CASE SettleCallbackOk(b) \/ SettleCallbackFailed(b)
    <3>1. s.phase # "free" /\ Exists(s.job)
      BY <2>2 DEF SettleCallbackOk, SettleCallbackFailed, Exists
    <3>2. \A k \in Jobs \ {s.job} : escrows'[k] = escrows[k]
      BY <2>2, BatchKeeps DEF SettleCallback, Kept, Sane
    <3> QED
      BY <1>2, <3>1, <3>2, NotCreated, OverpaidKept
  <2> QED
    BY <2>1, <2>2 DEF FtExecute, SettleCallback, SettleCallbackAborts
<1>3. CASE FtExecute(b)
  <2> PICK j \in Jobs : j = s.job
    BY <1>2, <1>3 DEF FtExecute
  <2>1. /\ s.amount \in Nat /\ s.fee \in Nat /\ s.to \in {"agent", "worker"}
        /\ flow[j] \in Flow
    BY <1>1, <1>2, <1>3 DEF FtExecute
  <2>2. PICK mainOk \in BOOLEAN, feeOk \in BOOLEAN :
           LET main == IF mainOk THEN s.amount ELSE 0
               fee == IF feeOk THEN s.fee ELSE 0
           IN /\ pool' = pool - main - fee
              /\ flow' = [flow EXCEPT ![j].agent = IF s.to = "agent" THEN @ + main ELSE @,
                                      ![j].worker = IF s.to = "worker" THEN @ + main ELSE @,
                                      ![j].owner = @ + fee]
    BY <1>3 DEF FtExecute
  <2> DEFINE main == IF mainOk THEN s.amount ELSE 0
             fee == IF feeOk THEN s.fee ELSE 0
  <2>3. main \in Nat /\ fee \in Nat
    BY <2>1
  <2> DEFINE g == [flow[j] EXCEPT !.agent = IF s.to = "agent" THEN @ + main ELSE @,
                                  !.worker = IF s.to = "worker" THEN @ + main ELSE @,
                                  !.owner = @ + fee]
  <2>4. flow' = [flow EXCEPT ![j] = g]
    BY <1>1, <2>1, <2>2
  <2>5. pool' = pool - main - fee
    BY <2>2
  <2>6. UNCHANGED <<wallet, transfers>>
    BY <1>3 DEF FtExecute
  <2> HIDE DEF main, fee
  <2>7. /\ g.in = flow[j].in /\ g.credit = flow[j].credit /\ g.owner = flow[j].owner + fee
        /\ g.agent + g.worker = flow[j].agent + flow[j].worker + main
        /\ g.agent \in Nat /\ g.worker \in Nat
    BY <2>1, <2>3 DEF Flow
  <2> HIDE DEF g, s
  <2>8. /\ \A k \in Jobs \ {j} : flow'[k] = flow[k]
        /\ flow'[j].in = flow[j].in /\ Paid(j)' = Paid(j) + main + fee
    <3>1. flow'[j] = g /\ \A k \in Jobs \ {j} : flow'[k] = flow[k]
      BY <1>1, <2>1, <2>4
    <3>2. /\ flow[j].agent \in Nat /\ flow[j].worker \in Nat /\ flow[j].owner \in Nat
          /\ flow[j].credit \in Nat
      BY <2>1 DEF Flow
    <3> QED
      BY <2>3, <2>7, <3>1, <3>2 DEF Paid
  <2>9. Owed'[j] - Shortfall'[j] = Owed[j] - Shortfall[j] - main - fee
    BY <1>6, <2>1, <2>3, <2>8, AccountOf, AccountOfNext
  <2>10. /\ Balances' = Balances /\ Arriving' = Arriving
         /\ \A k \in Jobs \ {j} : Owed'[k] = Owed[k] /\ Shortfall'[k] = Shortfall[k]
    BY <1>6, <2>6, <2>8, OwedKept DEF Balances, Arriving
  <2>11. pool \in Nat /\ Arriving[j] \in Nat
    BY <2>1, TermsOfSums DEF SumsTyped
  <2>12. pool' + Shortfall'[j] - Owed'[j] - Arriving'[j]
           >= pool + Shortfall[j] - Owed[j] - Arriving[j]
    BY <2>3, <2>5, <2>9, <2>10, <2>11, AccountOf, AccountOfNext
  <2> QED
    BY <2>1, <2>10, <2>12, OneJobMoves
<1>4. CASE SettleCallbackOk(b)
  <2> PICK j \in Jobs : j = s.job
    BY <1>2, <1>4 DEF SettleCallbackOk
  <2>1. /\ escrows[j].status # "Absent"
        /\ Finish(j, escrows[j], stats, flow[j]) /\ UNCHANGED <<pool, transfers>>
    BY <1>4 DEF SettleCallbackOk
  <2>2. escrows[j] \in EscrowRecord /\ flow[j] \in Flow
    BY <1>1, <2>1, EscrowPresent DEF Sane
  <2> QED
    BY <1>6, <2>1, <2>2, FinishSolvent
<1>5. CASE SettleCallbackFailed(b) \/ SettleCallbackAborts(b)
  <2>1. TokensKept /\ UNCHANGED <<pool, wallet, transfers>>
    BY <1>5 DEF SettleCallbackFailed, SettleCallbackAborts, TokensKept
  <2> QED
    BY <1>6, <2>1, AllOwedKept, NothingMoves DEF Balances, Arriving
<1> QED
  BY <1>3, <1>4, <1>5 DEF SettleCallback

\* What workers do with the wallet.
LEMMA WalletSolvent ==
    ASSUME Sane, Sane', Solvent, HistoryNext, NEW p \in Pubkeys,
           RegisterWorker(p) \/ WalletUse(p) \/ WalletAdmin(p),
           UNCHANGED <<escrows, flow, transfers>>
    PROVE  Solvent'
<1> USE DEF Sane
<1>1. Owed' = Owed /\ Shortfall' = Shortfall /\ Arriving' = Arriving
  <2>1. NoneCreated /\ TokensKept /\ Arriving' = Arriving
    BY DEF NoneCreated, Created, Exists, TokensKept, Arriving
  <2> QED
    BY <2>1, OverpaidKept, AllOwedKept
<1>2. wallet \in [Pubkeys -> Worker] /\ wallet[p] \in Worker /\ pool \in Nat
  BY DEF TypeOK, WalletTypeOK
<1>3. CASE \/ RegisterWorker(p) \/ WalletAdmin(p)
           \/ \E amount \in Deposits : DepositToWorker(p, amount)
           \/ \E amount \in 1 .. wallet[p].near : WithdrawNear(p, amount)
  <2>1. PICK w : w.ft = wallet[p].ft /\ wallet' = [wallet EXCEPT ![p] = w] /\ pool' = pool
    <3>1. CASE RegisterWorker(p) \/ WalletAdmin(p)
      BY <1>2, <3>1 DEF RegisterWorker, WalletAdmin, LinkNearAccount, PauseWorker, UnpauseWorker,
                        Bumped, Worker
    <3>2. CASE \E amount \in Deposits : DepositToWorker(p, amount)
      <4>1. PICK amount \in Deposits : DepositToWorker(p, amount)
        BY <3>2
      <4>2. Credited(wallet[p], 0, amount).ft = wallet[p].ft
        BY <1>2 DEF Credited, Worker
      <4> QED
        BY <1>2, <4>1, <4>2 DEF DepositToWorker
    <3>3. CASE \E amount \in 1 .. wallet[p].near : WithdrawNear(p, amount)
      BY <1>2, <3>3 DEF WithdrawNear, Bumped, Worker
    <3> QED
      BY <1>3, <3>1, <3>2, <3>3
  <2>2. Balances' = Balances
    BY <1>2, <2>1 DEF Balances
  <2> QED
    BY <1>1, <2>1, <2>2, NothingMoves
<1>4. ASSUME NEW amount \in 1 .. wallet[p].ft, NEW delivered \in BOOLEAN,
             WithdrawToken(p, amount, delivered)
      PROVE  Solvent'
  <2>1. amount \in Nat /\ wallet[p].ft \in Nat /\ wallet[p].ft - amount \in Nat
    BY <1>2, <1>4 DEF Worker
  <2>2. pool' >= pool - amount
    BY <1>2, <1>4, <2>1 DEF WithdrawToken
  <2> DEFINE w == [wallet[p] EXCEPT !.ft = @ - amount]
  <2>3. w \in Worker /\ w.ft = wallet[p].ft - amount
    BY <1>2, <2>1 DEF Worker
  <2>4. wallet' = [wallet EXCEPT ![p] = Bumped(w)]
    BY <1>4 DEF WithdrawToken
  <2> HIDE DEF w
  <2>5. Bumped(w).ft = wallet[p].ft - amount
    BY <2>3 DEF Bumped, Worker
  <2>6. wallet'[p].ft = wallet[p].ft - amount /\ \A q \in Pubkeys \ {p} : wallet'[q] = wallet[q]
    BY <1>2, <2>4, <2>5
  <2>7. /\ Balances'[p] = Balances[p] - amount /\ Balances[p] = wallet[p].ft
        /\ \A q \in Pubkeys \ {p} : Balances'[q] = Balances[q]
    BY <2>6 DEF Balances
  <2>8. pool' \in Nat
    BY DEF TypeOK, WalletTypeOK
  <2> QED
    BY <1>1, <1>2, <2>1, <2>2, <2>7, <2>8, WithdrawalMoves
<1> QED
  BY <1>3, <1>4 DEF WalletUse

LEMMA SolventStep ==
    ASSUME Sane, Sane', IndexInv, Solvent, HistoryNext
    PROVE  Solvent'
<1> USE DEF Sane
<1>1. CASE UNCHANGED <<flow, transfers, wallet, pool>> /\ NoneCreated
  <2>1. TokensKept /\ Balances' = Balances /\ Arriving' = Arriving /\ pool' = pool
    BY <1>1 DEF TokensKept, Balances, Arriving
  <2> QED
    BY <1>1, <2>1, OverpaidKept, AllOwedKept, NothingMoves
<1>9. UNCHANGED escrows => NoneCreated
  BY DEF NoneCreated, Created, Exists
<1>2. CASE \E j \in Jobs : UserCall(j)
  BY <1>2, CallSolvent DEF IndexInv
<1>3. CASE \E j \in Jobs : Deposit(j) \/ FtOnTransfer(j)
  BY <1>3, DepositSolvent
<1>4. CASE \E removed \in SUBSET Jobs : CleanupCompleted(removed)
  <2>1. NoneCreated
    BY <1>4 DEF CleanupCompleted, NoneCreated, Created, Exists, NoEscrow
  <2> QED
    BY <1>1, <1>4, <2>1 DEF CleanupCompleted
<1>5. ASSUME NEW d \in YieldIds, VerifierCall(d) \/ YieldCallback(d)
      PROVE  Solvent'
  <2>1. CASE VerifierCall(d) \/ CallbackAborts(d) \/ CallbackStale(d)
    BY <1>1, <1>9, <2>1 DEF VerifierCall, ResumeVerificationMulti, ResumeVerification, Resume,
                            CallbackAborts, CallbackStale
  <2>2. CASE CallbackVerdict(d) \/ CallbackNoVerdict(d)
    <3>1. pool' = pool /\ transfers' = transfers
      BY <2>2 DEF CallbackVerdict, CallbackNoVerdict
    <3>2. PICK j \in Jobs, e \in EscrowRecord : Settles(j, e)
      BY <2>2, JudgeShape DEF Judges
    <3> QED
      BY <3>1, <3>2, SettlesSolvent
  <2> QED
    BY <1>5, <2>1, <2>2 DEF YieldCallback
<1>6. CASE \E b \in BatchIds : FtExecute(b) \/ SettleCallback(b)
  BY <1>6, BatchSolvent
<1>7. CASE Tick
  BY <1>1, <1>7, <1>9 DEF Tick
<1>8. CASE \E p \in Pubkeys : /\ RegisterWorker(p) \/ WalletUse(p) \/ WalletAdmin(p)
                              /\ UNCHANGED <<escrows, flow, transfers>>
  BY <1>8, WalletSolvent
<1>10. CASE UNCHANGED <<escrows, flow, transfers, wallet, pool>>
  BY <1>1, <1>9, <1>10
<1>11. Next
  BY DEF HistoryNext
<1> QED
  BY <1>2, <1>3, <1>4, <1>5, <1>6, <1>7, <1>8, <1>10, <1>11, ZenonT(60) DEF Next, escrowVars

LEMMA SolventInit == HistoryInit => Solvent
<1> SUFFICES ASSUME HistoryInit PROVE Solvent
  OBVIOUS
<1>1. /\ Owed \in [Jobs -> Nat] /\ \A j \in Jobs : Owed[j] = 0
      /\ Arriving \in [Jobs -> Nat] /\ \A j \in Jobs : Arriving[j] = 0
      /\ Balances \in [Pubkeys -> Nat] /\ \A p \in Pubkeys : Balances[p] = 0
      /\ Shortfall \in [Jobs -> Nat] /\ \A j \in Jobs : Shortfall[j] = 0
      /\ pool = 0
  BY DEF HistoryInit, Init, WalletInit, Owed, Paid, NoFlow, Arriving, NoTransfer, Balances,
         Unregistered, Shortfall
<1>2. /\ SumFunction(Owed) = 0 /\ SumFunction(Arriving) = 0 /\ SumFunction(Balances) = 0
      /\ SumFunction(Shortfall) = 0
  BY <1>1, FiniteAssumption, SumOfNothing
<1> QED
  BY <1>1, <1>2 DEF Solvent

LEMMA HistoryTyped == HistorySpec => []HistoryOK
<1>1. HistoryInit => HistoryOK
  BY DEF HistoryInit, HistoryOK
<1>2. ASSUME TypeOK, HistoryOK, HistoryNext
      PROVE  HistoryOK'
  <2>1. ASSUME NEW j \in Jobs
        PROVE  overpaid[j] + (IF Created(j) /\ j \in disturbed THEN Excess(j) ELSE 0) \in Nat
    <3>1. overpaid[j] \in Nat /\ flow[j].in \in Nat /\ Paid(j) \in Nat
      BY <1>2 DEF HistoryOK, TypeOK, Flow, Paid
    <3> QED
      BY <3>1 DEF Excess
  <2>2. overpaid' \in [Jobs -> Nat]
    BY <1>2, <2>1 DEF HistoryNext
  <2>3. disturbed' \in SUBSET Jobs
    BY <1>2 DEF HistoryNext
  <2> QED
    BY <2>2, <2>3 DEF HistoryOK
<1>3. HistoryOK /\ UNCHANGED <<vars, historyVars>> => HistoryOK'
  BY DEF HistoryOK, historyVars
<1> QED
  BY <1>1, <1>2, <1>3, HistoryKeepsTypes, PTL DEF HistorySpec

\* However many escrows, workers and deposits share the contract's account in
\* the token contract, whichever of them is paid, withdraws or is refused first,
\* and whatever goes wrong, the account covers all that is still owed but for
\* what disturbed escrows were paid too much.
THEOREM SolventHolds == HistorySpec => []Solvent
<1>1. Sane /\ Sane' /\ IndexInv /\ Solvent /\ HistoryNext => Solvent'
  BY SolventStep
<1>2. Solvent /\ UNCHANGED <<vars, historyVars>> => Solvent'
  BY DEF Solvent, Owed, Paid, Balances, Arriving, Shortfall, Excess, vars, historyVars
<1>3. HistorySpec => []Sane
  BY HistoryKeepsTypes, HistoryTyped, NeverOverpaidHolds, PTL DEF Sane
<1> QED
  BY <1>1, <1>2, <1>3, SolventInit, HistoryKeepsTypes, PTL DEF HistorySpec

=============================================================================
