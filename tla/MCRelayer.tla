------------------------------ MODULE MCRelayer ------------------------------
(* A small wallet with its owner and its relayer. *)
EXTENDS RelayerProperties

CONSTANTS j1, tok, other, k1, k2, wallet, relayer

Act(kind, amount) ==
    [kind |-> kind, job |-> NoOne, token |-> NoOne, amount |-> amount, key |-> NoOne,
     valid |-> TRUE]
OnJob(kind) == [Act(kind, 0) EXCEPT !.job = j1]
Create == [OnJob("create") EXCEPT !.token = tok, !.amount = 1]
Fund == [Create EXCEPT !.kind = "fund"]
Rotate == [Act("rotate", 0) EXCEPT !.key = k2]
Register == [Act("register", 0) EXCEPT !.token = tok]
WithdrawTokens(amount) == [Act("withdraw", amount) EXCEPT !.token = tok]
Invalid == [Create EXCEPT !.valid = FALSE]

SmallActions ==
    {Create, Fund, OnJob("cancel"), OnJob("designate"), Rotate, Register, Invalid,
     Act("withdraw", 1), WithdrawTokens(1), WithdrawTokens(2)}

SmallLimits == {[max |-> 2, daily |-> 2]}

Msg(key, nonce, action) == [key |-> key, nonce |-> nonce, action |-> action]
Carries(msgs) == [copy |-> 1, msgs |-> msgs]

Task == Carries(<<Msg(k1, 1, Create), Msg(k1, 2, Fund)>>)
Later == Carries(<<Msg(k1, 3, Rotate)>>)
FundAlone == Carries(<<Msg(k1, 2, Fund)>>)

\* What an agent that holds both keys may ask for, one action per event.
Asks(nonces, actions) ==
    {Carries(<<m>>) : m \in [key : Keys, nonce : nonces, action : actions]}

Spending == {e \in Asks(1 .. 3, {WithdrawTokens(1), WithdrawTokens(2)}) : e.msgs[1].key = k1}
Keyed == Asks(1 .. 3, {Rotate, Register})
OneJob == {e \in Asks(1 .. 3, {Create, Fund, OnJob("cancel"), OnJob("designate")}) :
              e.msgs[1].key = k1}
Others == {Carries(<<Msg(k1, 1, Register)>>), Carries(<<Msg(k1, 2, Act("withdraw", 1))>>)}

SmallEvents == {Task, Later, FundAlone, Carries(<<Msg(k1, 1, Invalid)>>)} \cup Spending \cup Keyed \cup OneJob \cup Others

Watching == [account |-> FALSE, limited |-> FALSE, events |-> {}, others |-> Submitters, ops |-> {}, crash |-> FALSE,
             blocks |-> 0]
Relaying == [Watching EXCEPT !.account = TRUE, !.others = {}]

RelayedSetups == {[Relaying EXCEPT !.events = {Task}]}

SmallSetups ==
    {[Watching EXCEPT !.events = Spending, !.others = {relayer}, !.ops = {"limits"}, !.blocks = 3],
     [Watching EXCEPT !.events = Keyed, !.others = {relayer}, !.ops = {"rotate"}, !.blocks = 4],
     [Watching EXCEPT !.events = OneJob],
     [Watching EXCEPT !.events = Others, !.ops = {"tokens", "incoming"}],
     [Relaying EXCEPT !.events = {Task, Later}, !.others = {relayer}],
     [Relaying EXCEPT !.events = {Task, Later}, !.limited = TRUE, !.crash = TRUE],
     [Relaying EXCEPT !.events = {Task, FundAlone}],
     [Relaying EXCEPT !.events = {Carries(<<Msg(k1, 1, Invalid)>>)}]}
=============================================================================
