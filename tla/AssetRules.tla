----------------------------- MODULE AssetRules -----------------------------
(***************************************************************************)
(* The rules of an asset: how an issuance states them (DigiAssetRules), how *)
(* table "assets" keeps them (serialize, deserialize), and what they demand *)
(* of a transaction that moves the asset (DigiAsset::checkRulesPass).       *)
(*                                                                         *)
(* A rule set is a record.  The bits a rule is written with are BitStream's *)
(* subject: here a rule of the issuance is a record with its code.  Reading *)
(* an output that does not exist is undefined in decodeApproval and in      *)
(* decodeVoteAndExpiry: the statements enumerated here name outputs that do. *)
(***************************************************************************)
EXTENDS Integers, FiniteSets, SequencesExt

CONSTANTS Never,      \* EXPIRE_NEVER, above every other expiry
          MinEpoch,   \* MIN_EPOCH_VALUE: an expiry below it is a height
          PerSecond,  \* milliseconds of a second
          Coin,       \* 100000000: satoshis of a coin
          Width,      \* 2^64: amounts are unsigned and wrap
          StandardRates,      \* DigiAsset::standardExchangeRates
          StandardOptions     \* DigiAsset::standardVoteAddresses

ASSUME RulesAssumption ==
    /\ Never \in Nat /\ MinEpoch \in Nat /\ MinEpoch <= Never
    /\ PerSecond \in Nat \ {0} /\ Coin \in Nat \ {0} /\ Width \in Nat \ {0}

NoCurrency == <<>>

NoRules == [none |-> TRUE, rewritable |-> TRUE, movable |-> TRUE, required |-> 0,
            signers |-> << >>, royalties |-> << >>, currency |-> NoCurrency,
            countries |-> << >>, ban |-> FALSE, expiry |-> Never,
            options |-> << >>, deflate |-> 0, labels |-> FALSE]

-----------------------------------------------------------------------------
(* Decoding.  vout is the sequence of the transaction's outputs, records    *)
(* with an address and a value; outputs are numbered from 0.                *)

AddressOf(vout, n) == vout[n + 1].address
ValueOf(vout, n)   == vout[n + 1].value

\* The outputs a rule names; addresses[0] of one that has none is undefined.
Named(s) ==
    CASE s.code = "approval" -> {s.list[k].output : k \in DOMAIN s.list} \cup (s.start .. s.start + s.length - 1)
      [] s.code = "units"    -> IF s.standard THEN {} ELSE {s.output}
      [] s.code = "vote"     -> IF s.from = 0 THEN {} ELSE s.from - 1 .. s.from + s.length - 2
      [] OTHER               -> {}

\* "range" lists outputs whose weight is what they were sent above 600.
DecodeApproval(r, s, vout) ==
    LET single == [k \in DOMAIN s.list |->
                     [address |-> AddressOf(vout, s.list[k].output), weight |-> s.list[k].weight]]
        many   == [k \in 1 .. s.length |->
                     [address |-> AddressOf(vout, s.start + k - 1),
                      weight  |-> (ValueOf(vout, s.start + k - 1) + Width - 600) % Width]]
    IN [r EXCEPT !.required = s.need, !.signers = @ \o single \o many]

\* A rate of an address of its own has the value sent there, less 600, for index.
UnitsAddress(s, vout) == AddressOf(vout, s.output)

DecodeRoyaltyUnits(r, s, vout) ==
    [r EXCEPT !.currency = IF s.standard THEN StandardRates[s.index]
                                         ELSE <<UnitsAddress(s, vout), ValueOf(vout, s.output) - 600>>]

\* addWatchAddress takes the row it inserted for a failure: only an address that
\* was watched already lets the decoding go on.
UnitsFault(s, vout, watched) ==
    IF s.standard \/ UnitsAddress(s, vout) \in watched THEN "none" ELSE "insert"

RoyaltiesFit(s, vout) == s.start + s.length <= Len(vout)

DecodeRoyalties(r, s, vout) ==
    [r EXCEPT !.royalties = @ \o [k \in 1 .. s.length |->
        [address |-> AddressOf(vout, s.start + k - 1), amount |-> ValueOf(vout, s.start + k - 1)]]]

DecodeGeofence(r, s, ban) == [r EXCEPT !.ban = ban, !.countries = @ \o s.countries]

DecodeVoteAndExpiry(r, s, vout) ==
    LET q == [r EXCEPT !.movable = s.movable, !.expiry = IF s.cutoff = 0 THEN @ ELSE s.cutoff]
        listed == IF s.from = 0 THEN [k \in 1 .. s.length |-> StandardOptions[k]]
                                ELSE [k \in 1 .. s.length |-> AddressOf(vout, s.from - 1 + k - 1)]
    IN IF s.length = 0 THEN q ELSE [q EXCEPT !.options = @ \o listed, !.labels = TRUE]

\* One rule of the list.  A fault is what the code throws: "range" for
\* out_of_range, "insert" for the database's exceptionFailedInsert.
DecodeRule(acc, s, vout, watched) ==
    LET r == acc.rules
        Fault(f) == [acc EXCEPT !.fault = f]
        With(q)  == [acc EXCEPT !.rules = q]
        Royal(q) == IF RoyaltiesFit(s, vout) THEN With(DecodeRoyalties(q, s, vout)) ELSE Fault("range")
    IN CASE acc.fault # "none"  -> acc
         [] acc.fault = "none" /\ s.code = "approval"  -> With(DecodeApproval(r, s, vout))
         [] acc.fault = "none" /\ s.code = "units"     ->
                IF UnitsFault(s, vout, watched) # "none" THEN Fault(UnitsFault(s, vout, watched))
                ELSE Royal(DecodeRoyaltyUnits(r, s, vout))
         [] acc.fault = "none" /\ s.code = "royalties" -> Royal(r)
         [] acc.fault = "none" /\ s.code = "allowed"   -> With(DecodeGeofence(r, s, FALSE))
         [] acc.fault = "none" /\ s.code = "denied"    -> With(DecodeGeofence(r, s, TRUE))
         [] acc.fault = "none" /\ s.code = "vote"      ->
                IF r.rewritable THEN Fault("range") ELSE With(DecodeVoteAndExpiry(r, s, vout))
         [] acc.fault = "none" /\ s.code = "deflation" -> With([r EXCEPT !.deflate = s.amount])
         [] OTHER -> Fault("range")

\* The constructor: only opcodes 3 and 4 carry rules, and 3 lets them be rewritten.
DecodeRules(opcode, statements, vout, watched) ==
    IF opcode \notin {3, 4} THEN [fault |-> "none", rules |-> NoRules]
    ELSE FoldLeft(LAMBDA acc, s : DecodeRule(acc, s, vout, watched),
                  [fault |-> "none", rules |-> [NoRules EXCEPT !.none = FALSE, !.rewritable = (opcode = 3)]],
                  statements)

-----------------------------------------------------------------------------
(* What the table keeps: nothing for an asset without rules, else three     *)
(* flags and the parts that are not empty.                                  *)

Part(present, value) == IF present THEN <<value>> ELSE << >>

Read(part, default) == IF part = << >> THEN default ELSE part[1]

Serialize(r) ==
    [flags     |-> Part(~r.none, <<r.rewritable, r.movable, r.ban>>),
     signers   |-> Part(~r.none /\ r.required > 0, <<r.required, r.signers>>),
     royalties |-> Part(~r.none /\ r.royalties # << >>, r.royalties),
     countries |-> Part(~r.none /\ r.countries # << >>, r.countries),
     options   |-> Part(~r.none /\ r.options # << >>, r.options),
     expiry    |-> Part(~r.none /\ r.expiry # Never, r.expiry),
     deflate   |-> Part(~r.none /\ r.deflate # 0, r.deflate),
     currency  |-> Part(~r.none /\ r.currency # NoCurrency, r.currency),
     labels    |-> Part(~r.none /\ r.labels, TRUE)]

Deserialize(parts) ==
    IF parts.flags = << >> THEN NoRules
    ELSE [none       |-> FALSE,
          rewritable |-> parts.flags[1][1], movable |-> parts.flags[1][2], ban |-> parts.flags[1][3],
          required   |-> Read(parts.signers, <<0, << >>>>)[1],
          signers    |-> Read(parts.signers, <<0, << >>>>)[2],
          royalties  |-> Read(parts.royalties, << >>),
          countries  |-> Read(parts.countries, << >>),
          options    |-> Read(parts.options, << >>),
          expiry     |-> Read(parts.expiry, Never),
          deflate    |-> Read(parts.deflate, 0),
          currency   |-> Read(parts.currency, NoCurrency),
          labels     |-> Read(parts.labels, FALSE)]

-----------------------------------------------------------------------------
(* The questions asked of a rule set.                                       *)

GeoFenced(r) == r.ban \/ r.countries # << >>

CountryAllowed(r, country) ==
    GeoFenced(r) => (r.ban # (country \in ToSet(r.countries)))

Expired(r, height, time) ==
    /\ r.expiry # Never
    /\ IF r.expiry >= MinEpoch THEN time >= r.expiry \div PerSecond ELSE height > r.expiry

ValidVoteAddress(r, address) == address \in ToSet(r.options)

\* Seeded fault: new rules always win.
NewestRules(old, new) == IF old.none \/ ~new.none THEN new ELSE old

\* handleRulesConflict: which rules an issuance of an existing unlocked
\* aggregable asset leaves.
Prevailing(old, new) ==
    IF old.none THEN new
    ELSE IF ~old.rewritable \/ new.none THEN old ELSE new

-----------------------------------------------------------------------------
(* checkRulesPass.  ins and outs are sequences of records with an address, a *)
(* value and a sequence of holdings (index, count); certified has the country *)
(* of each address with a KYC record valid at the height; rate is the         *)
(* accepted exchange rate.                                                  *)

Total(holdings, index) ==
    FoldLeft(LAMBDA sum, h : IF h.index = index THEN sum + h.count ELSE sum, 0, holdings)

TotalAt(txos, address, index) ==
    FoldLeft(LAMBDA sum, u : IF u.address = address THEN sum + Total(u.holds, index) ELSE sum, 0, txos)

TotalIn(txos, index) == FoldLeft(LAMBDA sum, u : sum + Total(u.holds, index), 0, txos)

AddressesOf(txos) == {txos[k].address : k \in DOMAIN txos}

Change(ins, outs, address, index) == TotalAt(outs, address, index) - TotalAt(ins, address, index)

Receivers(ins, outs, index) == {a \in AddressesOf(outs) : Change(ins, outs, a, index) > 0}

SignedWeight(r, ins) ==
    FoldLeft(LAMBDA sum, s : IF s.address \in AddressesOf(ins) THEN sum + s.weight ELSE sum, 0, r.signers)

SignersPass(r, ins) == r.required > 0 => SignedWeight(r, ins) >= r.required

\* One of several outputs that hold the asset is taken for change.
Recipients(outs, index) ==
    LET n == Cardinality({k \in DOMAIN outs : \E j \in DOMAIN outs[k].holds : outs[k].holds[j].index = index})
    IN IF n > 1 THEN n - 1 ELSE 1

\* A satoshi less than the price, in 64 bits.
MinimumRoyalty(count, amount, rate) ==
    ((((count * amount * rate) % Width) \div Coin) + Width - 1) % Width

RoyaltiesPass(r, outs, index, rate) ==
    \A k \in DOMAIN r.royalties :
        \E u \in DOMAIN outs :
            /\ outs[u].address = r.royalties[k].address
            /\ outs[u].value >= MinimumRoyalty(Recipients(outs, index), r.royalties[k].amount, rate)

KycPasses(r, receivers, certified) ==
    GeoFenced(r) => \A a \in receivers : a \in DOMAIN certified /\ CountryAllowed(r, certified[a])

VotePasses(r, receivers) == ~r.movable => \A a \in receivers : ValidVoteAddress(r, a)

DeflationPasses(r, ins, outs, index) ==
    r.deflate > 0 => (TotalIn(ins, index) - TotalIn(outs, index)) % Width >= r.deflate

\* What checkRulesPass throws, the rules tested in the code's order: "rule" for
\* exceptionRuleFailed, "range" for a royalty in a currency nobody published
\* ("Unknown Exchange Rate"); rates has the accepted rate of every known one.
CheckRulesPass(r, ins, outs, index, height, time, certified, rates) ==
    LET receivers == Receivers(ins, outs, index)
        priced    == r.royalties # << >>
    IN CASE r.none \/ receivers = {} -> "none"      \* a consolidation or a pure burn
         [] ~r.none /\ receivers # {} /\ ~SignersPass(r, ins) -> "rule"
         [] ~r.none /\ receivers # {} /\ SignersPass(r, ins) /\ priced /\ r.currency \notin DOMAIN rates -> "range"
         [] OTHER ->
              IF /\ priced => RoyaltiesPass(r, outs, index, rates[r.currency])
                 /\ KycPasses(r, receivers, certified)
                 /\ ~Expired(r, height, time)
                 /\ VotePasses(r, receivers)
                 /\ DeflationPasses(r, ins, outs, index)
              THEN "none" ELSE "rule"
=============================================================================
