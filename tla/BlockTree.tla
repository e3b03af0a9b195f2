----------------------------- MODULE BlockTree -----------------------------
(***************************************************************************)
(* The tree of DigiByte blocks that DigiByte Core may ever choose its main *)
(* chain from, and what of a block the analyzer writes to its database.    *)
(*                                                                         *)
(* A block is an atom: its hash.  Ht is its height, Chain its ancestry     *)
(* (the block itself included).  Core is not part of this repository; all  *)
(* that src/ uses of it is that a hash determines the whole ancestry.      *)
(***************************************************************************)
EXTENDS Integers

CONSTANTS
    Block,               \* every block that may become part of a chain
    Block1,              \* the block whose hash is DIGIBYTE_BLOCK1_HASH
    Ht,                  \* Ht[b]: the height of block b
    Chain,               \* Chain[b]: b and all its ancestors
    TxCount,             \* TxCount[b]: number of transactions of b
    StoreNonAssetUTXO,   \* config "storenonassetutxo"
    AssetStart           \* 8432316: below it only non asset utxos exist

ASSUME BlockTreeAssumption ==
    /\ Ht \in [Block -> Nat]
    /\ Chain \in [Block -> SUBSET Block]
    /\ \A b \in Block : b \in Chain[b]
    /\ \A b \in Block : \A c \in Chain[b] :
          Chain[c] = {d \in Chain[b] : Ht[d] <= Ht[c]}
    /\ \A b \in Block : \A c, d \in Chain[b] : Ht[c] = Ht[d] => c = d
    /\ \A b \in Block : \A k \in 0 .. Ht[b] : \E c \in Chain[b] : Ht[c] = k

\* Every chain contains the hard coded block 1.
ASSUME Block1Assumption ==
    /\ Block1 \in Block
    /\ Ht[Block1] = 1
    /\ \A b \in Block : Ht[b] >= 1 => Block1 \in Chain[b]

\* Core serves no transaction of the genesis block.
ASSUME TxAssumption ==
    /\ TxCount \in [Block -> Nat]
    /\ \A b \in Block : Ht[b] = 0 => TxCount[b] = 0
    /\ StoreNonAssetUTXO \in BOOLEAN
    /\ AssetStart \in Nat

-----------------------------------------------------------------------------
(* phaseSync skips the transactions of a block below the first DigiAsset   *)
(* when non asset utxos are not stored.                                    *)
ToProcess(b) ==
    IF StoreNonAssetUTXO \/ Ht[b] >= AssetStart THEN TxCount[b] ELSE 0

\* What addToDatabase writes for the i-th transaction of b is the row <<b, i>>.
RowsOf(b) == {b} \X (1 .. ToProcess(b))

Row == UNION {RowsOf(b) : b \in Block}

\* The rows of every block of the chain ending in b; and without those of b.
Ledger(b) == {r \in Row : r[1] \in Chain[b]}
Below(b)  == {r \in Ledger(b) : r[1] # b}

=============================================================================
