---------------------------- MODULE MCXRPLScanner ----------------------------
(***************************************************************************)
(* Instances of XRPLScanner for TLC.  With pages of two transactions, page *)
(* boundaries fall inside and between ledgers, and the last page is empty  *)
(* or not.                                                                 *)
(***************************************************************************)
EXTENDS XRPLScanner

Txs(ledgers, undecodable) ==
    [i \in DOMAIN ledgers |->
        [ledger |-> ledgers[i], wellFormed |-> i \notin undecodable]]

\* Ledgers 1 and 2 are history, 3 and 4 the recent window, 5 and 6 the future.
\* The last transaction cannot be decoded.
BusyAccount ==
    [a \in Accounts |-> Txs(<<1, 1, 1, 2, 3, 3, 4, 5, 6, 6>>, {10})]

\* Two issuers of different activity.
TwoAccounts ==
    [a \in Accounts |-> IF a = "busy" THEN Txs(<<3, 5, 6>>, {})
                                      ELSE Txs(<<2, 3>>, {})]

=============================================================================
