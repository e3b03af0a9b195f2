---------------------------- MODULE MCAssetLedger ----------------------------
(* Values for AssetLedger's constants.                                       *)
EXTENDS AssetLedger

CONSTANTS a, b, v, none, c1, c2

To(address) == [address |-> address, value |-> 2]
Data        == [address |-> none, value |-> 0]

MCLayouts == { <<To(a), To(b)>>, <<To(b), Data>>, <<To(v), To(a)>> }

Order(skip, range, percent, output, amount) ==
    [skip |-> skip, range |-> range, percent |-> percent, output |-> output, amount |-> amount]

MCInstructions ==
    { Order(FALSE, FALSE, FALSE, 0, 2),
      Order(TRUE, FALSE, TRUE, 1, 127),        \* half of it, then the next input
      Order(FALSE, TRUE, FALSE, 1, 1),         \* one to each of two outputs
      Order(FALSE, TRUE, FALSE, 1, 1025),      \* a total of 2, after the wrap
      Order(FALSE, FALSE, FALSE, 31, 1) }      \* burnt, or an output there is not

Issuance(opcode, version, amount, locked, kind, statements) ==
    [opcode |-> opcode, version |-> version, amount |-> amount, locked |-> locked,
     kind |-> kind, decimals |-> 1, statements |-> statements]

Fence     == [code |-> "allowed", countries |-> <<c1>>]
Deflation == [code |-> "deflation", amount |-> 1]
Approval  == [code |-> "approval", need |-> 2, list |-> <<[output |-> 0, weight |-> 2]>>, start |-> 0, length |-> 0]
Ballot    == [code |-> "vote", movable |-> FALSE, cutoff |-> 1, from |-> 2, length |-> 1]
Units     == [code |-> "units", standard |-> TRUE, index |-> 1, start |-> 0, length |-> 1]
OwnUnits  == [code |-> "units", standard |-> FALSE, output |-> 0, start |-> 0, length |-> 1]

MCIssuances ==
    { Issuance(1, 3, 4, FALSE, "aggregable", << >>),
      Issuance(3, 3, 4, FALSE, "aggregable", <<Deflation>>),
      Issuance(4, 3, 4, FALSE, "aggregable", <<Fence>>),
      Issuance(4, 3, 3, FALSE, "dispersed", <<Ballot>>),
      Issuance(4, 3, 4, FALSE, "aggregable", <<OwnUnits>>),   \* a feed of its own
      Issuance(4, 1, 40, TRUE, "hybrid", <<Approval, Units>>) }

MCVersions == {2, 3}
\* What the table has after earlier issuances: nothing; two dispersed assets of one
\* id with a fenced one; a hybrid with approval and royalties beside one without rules.
Row(kind, locked, seed, opcode, statements) ==
    [id |-> [locked |-> locked, kind |-> kind, decimals |-> 1, seed |-> seed], kind |-> kind, locked |-> locked,
     rules |-> DecodeRules(opcode, statements, <<To(a), To(b)>>, {}).rules, created |-> 1, updated |-> 1]
Coins(held) ==
    {[tx |-> 0, n |-> k - 1, address |-> held[k][1], value |-> 2, holds |-> held[k][2],
      issued |-> FALSE, spent |-> FALSE] : k \in DOMAIN held}
Some(index, kind, count) == [index |-> index, kind |-> kind, count |-> count]
MCGenesis ==
    { [made |-> 0, height |-> 2, rows |-> << >>, coins |-> Coins(<< <<a, << >>>>, <<b, << >>>> >>)],
      [made |-> 1, height |-> 1, rows |-> << Row("dispersed", FALSE, a, 4, <<Ballot>>), Row("dispersed", FALSE, a, 4, <<Ballot>>),
                   Row("aggregable", FALSE, a, 4, <<Fence>>) >>,
       coins |-> Coins(<< <<a, <<Some(1, "dispersed", 2), Some(2, "dispersed", 1)>>>>,
                          <<a, <<Some(3, "aggregable", 2)>>>>,
                          <<b, <<Some(3, "aggregable", 1), Some(1, "dispersed", 1)>>>> >>)],
      [made |-> 1, height |-> 1, rows |-> << Row("hybrid", TRUE, <<0, 9>>, 4, <<Approval, Units>>),
                   Row("aggregable", FALSE, b, 3, <<Deflation>>) >>,
       coins |-> Coins(<< <<a, <<Some(1, "hybrid", 3)>>>>, <<b, <<Some(2, "aggregable", 4)>>>>,
                          <<a, <<Some(2, "aggregable", 1), Some(1, "hybrid", 2)>>>> >>)] }
MCRates == [c \in {NoCurrency, <<v, 1>>} |-> IF c = NoCurrency THEN Coin ELSE 2]
MCCertified == [x \in {a} |-> [country |-> c1, created |-> 1, revoked |-> 0]]
MCNoWatch == {}
MCStandardRates == << <<v, 1>> >>
MCStandardOptions == <<a, b>>
=============================================================================
