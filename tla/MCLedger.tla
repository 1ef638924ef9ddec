------------------------------- MODULE MCLedger -------------------------------
(* Instances of Ledger: trees of three notes, deposits of two coins.          *)
EXTENDS Ledger, TLC

CONSTANTS Op, Op2, Miner, Alice, d1, d2, m, z, c, y, x, w, e1, e2, n, q, k, v

V1Notes == {d1, d2, m, z, c, y, x, w}
V7Notes == {e1, e2, n, q, k, v}

MCShape == [cm \in V1Notes \union V7Notes |-> IF cm \in V1Notes THEN "V1" ELSE "V7"]
MCOwner == [cm \in V1Notes \union V7Notes |-> "alice"]
MCValue == [cm \in V1Notes \union V7Notes |->
              CASE cm \in {d1, d2, m, e1, e2, n} -> 2 [] cm \in {z, x, q} -> 1 [] OTHER -> 0]

MCPremine == [u \in {Op, Op2, Miner, Alice, Commons} |-> IF u = Alice THEN 6 ELSE 0]
MCRotation == 1 :> Op2

Deposit(cm) == [op |-> "Shield", wallet |-> Alice, amount |-> 2, ins |-> <<>>, outs |-> <<cm>>]
Send(ins, outs) == [op |-> "ShieldedSend", wallet |-> Alice, amount |-> 1, ins |-> ins, outs |-> outs]
Withdraw(ins, outs) == [op |-> "Unshield", wallet |-> Alice, amount |-> 2, ins |-> ins, outs |-> outs]

\* Deposits, a merge of both, a withdrawal of its result, and a second payment
\* with an input of the merge.
V1Payments ==
    {Deposit(d1), Deposit(d2), Send(<<d1, d2>>, <<m, z>>), Withdraw(<<m>>, <<c, y>>),
     Send(<<d1>>, <<x, w>>)}
V7Payments ==
    {Deposit(e1), Deposit(e2), Send(<<e1, e2>>, <<n, q>>), Withdraw(<<n>>, <<k, v>>)}
MCPayments == [g2 |-> V1Payments, g3 |-> V7Payments,
               r1 |-> {Deposit(d1), Deposit(d2), Send(<<d1>>, <<x, w>>), Send(<<d2>>, <<m, y>>),
                       Deposit(e1), Withdraw(<<e1>>, <<k, v>>), Deposit(e2)}]
=============================================================================
