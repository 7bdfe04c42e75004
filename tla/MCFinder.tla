------------------------------ MODULE MCFinder ------------------------------
(***************************************************************************)
(* Instances of Finder: burns of a token of which half units exist, that   *)
(* is worth 3 coins, with a tolerance of a quarter of the balance.         *)
(***************************************************************************)
EXTENDS Finder

MCCodes == {"ABC", "abc", "DEF"}

\* Hexadecimal digits of either case stand for the same currency.
MCDecode == [c \in MCCodes |-> IF c = "DEF" THEN "def-currency" ELSE "abc-currency"]

Token(issuer, code, date, num, den) ==
    [issuer |-> issuer, currency |-> code, activation_date |-> date,
     num |-> num, den |-> den]

\* The registry's bounds, what is beyond them, and a second multiplier, issuer
\* and currency.
OneSpelling ==
    {Token("i1", "ABC", 1, 1, 1), Token("i1", "ABC", 1, 5, 2),
     Token("i1", "ABC", 1, 10, 1), Token("i1", "ABC", 1, 11, 1),
     Token("i1", "ABC", 1, 1, 10), Token("i1", "ABC", 1, 0, 1),
     Token("i1", "DEF", 2, 5, 2), Token("i2", "ABC", 1, 1, 1)}

TwoSpellings == {Token("i1", "ABC", 1, 1, 1), Token("i1", "abc", 1, 5, 2)}

Line(change, balance) ==
    [currency |-> "abc-currency", change |-> change, balance |-> balance]

\* A payment of value with the given changes of the issuer's balances.
Payment(value, lines) ==
    [hash |-> "h", validated |-> TRUE, success |-> TRUE, payment |-> TRUE,
     native |-> FALSE, currency |-> "abc-currency", issuer |-> "i1",
     destination |-> "i1", value |-> value, date |-> 1,
     memos |-> <<"no_address", "r1", "r2">>, readable |-> TRUE, lines |-> lines]

\* Full, partial and rounded burns, by one holder or with a second balance.
Burns ==
    {Payment(value, <<Line(change, balance)>>) :
        value \in 0 .. 9, change \in 0 .. 9, balance \in {0, 3, 8}}
    \cup {Payment(value, <<Line(change, 0), Line(-2, 1)>>) :
        value \in {1, 4}, change \in 0 .. 7}
    \cup {Payment(4, <<>>)}

Burn == Payment(4, <<Line(4, 0)>>)

\* Payments that are no burns of the registered tokens, and burns that the
\* finder cannot take.
Others ==
    {[Burn EXCEPT !.validated = FALSE], [Burn EXCEPT !.success = FALSE],
     [Burn EXCEPT !.payment = FALSE], [Burn EXCEPT !.native = TRUE],
     [Burn EXCEPT !.currency = "def-currency"], [Burn EXCEPT !.issuer = "i2"],
     [Burn EXCEPT !.destination = "i2"], [Burn EXCEPT !.date = 0],
     [Burn EXCEPT !.memos = <<"no_address">>], [Burn EXCEPT !.memos = <<>>],
     [Burn EXCEPT !.readable = FALSE],
     [Burn EXCEPT !.currency = "def-currency", !.date = 2,
                  !.lines[1].currency = "def-currency"],
     [Burn EXCEPT !.issuer = "i2", !.destination = "i2"]}

MCXRPLTxs == Burns \cup Others

=============================================================================
