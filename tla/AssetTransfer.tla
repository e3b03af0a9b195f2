--------------------------- MODULE AssetTransfer ---------------------------
(***************************************************************************)
(* DigiByteTransaction::decodeAssetTransfer: where the assets of a           *)
(* transaction's inputs go.  A holding is a DigiAsset object with its count: *)
(* [index, kind, count], index 0 while the asset is not in the database.     *)
(*                                                                         *)
(* The transfer is a record that the code keeps in locals and in _outputs:   *)
(*   left       the holdings not moved yet, one sequence per input with any  *)
(*   index      the input the next instruction takes from (from 1)           *)
(*   allowSkip  whether a skip counts                                        *)
(*   outs       the outputs: address, value, holdings                        *)
(*   stopped    the loop over the instructions was left                      *)
(* with two histories: burnt, what burns took per asset, and wrapped, that a  *)
(* total did not fit 64 bits.                                               *)
(***************************************************************************)
EXTENDS Naturals, Sequences, SequencesExt

CONSTANTS AmountWidth,  \* 2^64: amounts are unsigned and wrap
          BurnOutput    \* 31, the output number that means "burn"

ASSUME TransferAssumption == AmountWidth \in Nat \ {0} /\ BurnOutput \in Nat

\* The inputs that hold something.
Holding(txos) ==
    FlattenSeq([k \in DOMAIN txos |-> IF txos[k].holds = << >> THEN << >> ELSE <<txos[k].holds>>])

Started(ins, outs) ==
    [left |-> Holding(ins), index |-> 1, allowSkip |-> TRUE, outs |-> outs,
     stopped |-> FALSE, burnt |-> << >>, wrapped |-> FALSE]

Stripped(outs) == [k \in DOMAIN outs |-> [outs[k] EXCEPT !.holds = << >>]]

\* addAssetToOutput: a holding of an aggregable asset joins the one there is.
AddAssetToOutput(out, h) ==
    LET same == {k \in DOMAIN out.holds : out.holds[k].index = h.index} IN
    IF h.kind = "aggregable" /\ same # {}
      THEN LET k == CHOOSE x \in same : \A y \in same : x <= y
           IN [out EXCEPT !.holds[k].count = @ + h.count]
      ELSE [out EXCEPT !.holds = Append(@, h)]

-----------------------------------------------------------------------------
(* Taking an amount from the inputs, holding by holding.                     *)

TakeOne(p, wanted) ==
    IF p.index > Len(p.left) \/ p.left[p.index] = << >> THEN [p EXCEPT !.bad = TRUE]
    ELSE
    LET h == p.left[p.index][1]
        emptied == Len(p.left[p.index]) = 1
    IN IF h.index # wanted.index \/ (h.count < p.need /\ h.kind = "hybrid") THEN [p EXCEPT !.bad = TRUE]
       ELSE IF h.count <= p.need
         THEN [p EXCEPT !.need = @ - h.count, !.left[p.index] = Tail(@),
                        !.index = IF emptied THEN @ + 1 ELSE @, !.allowSkip = ~emptied]
         ELSE [p EXCEPT !.left[p.index][1].count = @ - p.need, !.need = 0, !.allowSkip = TRUE]

\* At most one turn of the loop per holding and one to find there is none.
Take(t, wanted, amount) ==
    LET turns == Len(FlattenSeq(t.left)) + 1
        taken[k \in 0 .. turns] ==
            IF k = 0 THEN [left |-> t.left, index |-> t.index, allowSkip |-> t.allowSkip,
                           need |-> amount, bad |-> FALSE]
            ELSE IF taken[k - 1].need = 0 \/ taken[k - 1].bad THEN taken[k - 1]
            ELSE TakeOne(taken[k - 1], wanted)
    IN taken[turns]

(* One instruction.  A percentage is of the holding the instruction begins    *)
(* with; past the last input the code reads beyond a vector, and whatever it  *)
(* reads, the test that follows throws.                                       *)

Available(t) == t.index <= Len(t.left) /\ t.left[t.index] # << >>

AmountOf(t, i) ==
    IF i.percent THEN ((t.left[t.index][1].count * (i.amount + 1)) % AmountWidth) \div 256
                 ELSE i.amount

\* Seeded fault: what was given before stays given.
UndoneInputs(t, ins) == [t EXCEPT !.left = Holding(ins), !.stopped = TRUE, !.burnt = << >>]

\* What the catch does: nothing was moved, all of it is change.
Undone(t, ins) == [t EXCEPT !.outs = Stripped(@), !.left = Holding(ins), !.stopped = TRUE, !.burnt = << >>]

Targets(i) == IF i.range THEN 0 .. i.output ELSE {i.output}

Burns(type, i) == type = "burn" /\ ~i.range /\ i.output = BurnOutput

Give(outs, i, h) ==
    [k \in DOMAIN outs |-> IF k - 1 \in Targets(i) THEN AddAssetToOutput(outs[k], h) ELSE outs[k]]

Skip(t, i) ==
    [t EXCEPT !.index = IF i.skip /\ t.allowSkip THEN @ + 1 ELSE @,
              !.allowSkip = @ \/ i.skip]

Instruct(t, i, type, ins) ==
    IF ~Available(t) THEN Undone(t, ins)
    ELSE
    LET amount == AmountOf(t, i)
        exact  == IF i.range THEN (i.output + 1) * amount ELSE amount
        total  == exact % AmountWidth
        wanted == t.left[t.index][1]
        taken  == Take(t, wanted, total)
        after  == [t EXCEPT !.left = taken.left, !.index = taken.index, !.allowSkip = taken.allowSkip,
                            !.wrapped = @ \/ exact # total]
    IN CASE taken.bad -> Undone(t, ins)
         [] ~taken.bad /\ total = 0 -> Skip(after, i)
         [] ~taken.bad /\ total > 0 /\ Burns(type, i) ->
              Skip([after EXCEPT !.burnt = Append(@, [wanted EXCEPT !.count = total])], i)
         [] ~taken.bad /\ total > 0 /\ ~Burns(type, i) ->
              IF i.output >= Len(t.outs) THEN Undone(t, ins)
              ELSE Skip([after EXCEPT !.outs = Give(@, i, [wanted EXCEPT !.count = amount])], i)

-----------------------------------------------------------------------------
(* What is left, if it counts anything, goes to the last output.  The search  *)
(* for a holding to join asks both for an index they may not have yet.         *)

Remaining(t) == FlattenSeq(t.left)

NeedsIndex(outs, h) ==
    h.kind = "aggregable" /\ outs[Len(outs)].holds # << >> /\ h.index = 0

GiveChange(t) ==
    FoldLeft(LAMBDA acc, h :
                IF acc.unknown \/ h.count = 0 THEN acc
                ELSE IF NeedsIndex(acc.outs, h) THEN [acc EXCEPT !.unknown = TRUE]
                ELSE [acc EXCEPT !.outs[Len(acc.outs)] = AddAssetToOutput(@, h)],
             [outs |-> t.outs, unknown |-> FALSE], Remaining(t))

\* An output without an address is an OP_RETURN and can hold nothing.
HoldsOnData(outs, none) == \E k \in DOMAIN outs : outs[k].address = none /\ outs[k].holds # << >>

WithoutData(outs, none) ==
    [k \in DOMAIN outs |-> IF outs[k].address = none THEN [outs[k] EXCEPT !.holds = << >>] ELSE outs[k]]
=============================================================================
