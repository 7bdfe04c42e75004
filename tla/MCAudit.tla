------------------------------ MODULE MCAudit ------------------------------
(***************************************************************************)
(* Instances of Audit.                                                     *)
(***************************************************************************)
EXTENDS Audit

Entry(found, recipient, amount) ==
    [found |-> found, burning |-> TRUE, recipient |-> recipient,
     amount |-> amount]

\* Two burns, one that was converted to another amount once, a payment that is
\* no burn, and a hash that does not exist.
MCXrpl == [h1 |-> Entry(TRUE, "r1", 5), h2 |-> Entry(TRUE, "r2", 3),
           h3 |-> Entry(TRUE, "r1", 4),
           h4 |-> [Entry(TRUE, "r1", 4) EXCEPT !.burning = FALSE],
           h5 |-> Entry(FALSE, "r1", 0)]

Call(method, id, recipient, amount) ==
    [method |-> method, id |-> id, recipient |-> recipient, amount |-> amount]

Send(id, recipient, amount) == Call("threshold_bank_send", id, recipient, amount)

Tx(msgs) == [ok |-> TRUE, msgs |-> msgs, sent |-> {"ucore"}]

SoundTxs ==
    {Tx(<<Send("h1", "r1", 5)>>), Tx(<<Send("h2", "r2", 3)>>),
     Tx(<<Call("execute_pending", "h3", "r1", 4)>>)}

WrongTxs ==
    {Tx(<<Send("h1", "r1", 5)>>),
     Tx(<<Send("h2", "r1", 3), Call("execute_pending", "h3", "r1", 4)>>),
     Tx(<<Send("h3", "r1", 9)>>),
     Tx(<<Send("h5", "r1", 4)>>)}

\* Evidence and the execution of another transfer in one transaction.
Both == Tx(<<Send("h1", "r1", 5), Call("execute_pending", "h3", "r1", 4)>>)

\* A failed call, a call the auditor does not know, evidence that was paid beside
\* another denomination, evidence that was not, events in which no coins are
\* found, and a payment that is no burn.
OddTxs ==
    {[Tx(<<Send("h2", "r2", 3)>>) EXCEPT !.ok = FALSE],
     Tx(<<Send("h1", "r1", 5), Call("update_trusted_addresses", "h1", "r1", 0)>>),
     [Both EXCEPT !.sent = {"ucore", "other"}], [Both EXCEPT !.sent = {"other"}],
     [Tx(<<Send("h1", "r1", 5)>>) EXCEPT !.sent = {}],
     Tx(<<Send("h4", "r1", 4)>>)}

AllTxs == SoundTxs \cup WrongTxs \cup OddTxs

=============================================================================
