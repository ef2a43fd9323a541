---------------------------- MODULE ProofContexts ----------------------------
(***************************************************************************)
(* The ciphertexts of confidential transfers, and the contexts of the      *)
(* zero-knowledge proofs that a transfer is accompanied by.                *)
(*                                                                         *)
(* A Pedersen commitment is the value v it hides and the opening r it      *)
(* hides it with.  A ciphertext adds a decrypt handle, the opening h       *)
(* multiplied by a public key: it decrypts to v when h is r.  All of them  *)
(* are added, subtracted and scaled component by component, as the points  *)
(* of the curve are.                                                       *)
(***************************************************************************)
EXTENDS FeeArithmetic, Sequences

CONSTANTS
    LoLimit,        \* 2^16: the low part of an amount is below it
    HiLimit,        \* 2^32: the high part of an amount is below it
    BalanceLimit,   \* 2^64: an available balance is below it
    DeltaLimit      \* 2^48: the rounding difference of a fee is below it

ASSUME LimitsAssumption ==
    /\ LoLimit \in Nat \ {0} /\ HiLimit \in Nat \ {0} /\ BalanceLimit \in Nat \ {0}
    /\ DeltaLimit \in Nat \ {0} /\ OneInBasisPoints \in Nat \ {0}

Commitment == [v : Int, r : Int]
Ciphertext == [v : Int, r : Int, h : Int]
Grouped2 == [v : Int, r : Int, h1 : Int, h2 : Int]

(* The all-zero ciphertext is an encryption of zero. *)
Zeroed == [v |-> 0, r |-> 0, h |-> 0]

Decrypts(c) == c.r = c.h

add(c, d) == [v |-> c.v + d.v, r |-> c.r + d.r, h |-> c.h + d.h]
subtract(c, d) == [v |-> c.v - d.v, r |-> c.r - d.r, h |-> c.h - d.h]

subtract_from(c, x) == [c EXCEPT !.v = @ - x]

(* The low and the high part of an amount count for lo + 2^16 * hi. *)
combine_lo_hi(lo, hi) ==
    [v |-> lo.v + LoLimit * hi.v, r |-> lo.r + LoLimit * hi.r, h |-> lo.h + LoLimit * hi.h]
add_with_lo_hi(c, lo, hi) == add(c, combine_lo_hi(lo, hi))
subtract_with_lo_hi(c, lo, hi) == subtract(c, combine_lo_hi(lo, hi))

combine_lo_hi_pedersen_points(lo, hi) ==
    [v |-> lo.v + LoLimit * hi.v, r |-> lo.r + LoLimit * hi.r]
-----------------------------------------------------------------------------
extract_commitment_from_grouped_ciphertext(g) == [v |-> g.v, r |-> g.r]

(* A transfer amount has a handle for the source, the destination and the  *)
(* auditor.  The split proofs lack the first; the instruction carries it.  *)
transfer_amount_encryption_from_decrypt_handle(handle, g) ==
    [v |-> g.v, r |-> g.r, hs |-> handle, hd |-> g.h1, ha |-> g.h2]

transfer_amount_source_ciphertext(t) == [v |-> t.v, r |-> t.r, h |-> t.hs]
transfer_amount_destination_ciphertext(t) == [v |-> t.v, r |-> t.r, h |-> t.hd]

(* A fee has a handle for the destination and the withdraw authority. *)
fee_amount_destination_ciphertext(g) == [v |-> g.v, r |-> g.r, h |-> g.h1]
fee_amount_withdraw_withheld_authority_ciphertext(g) == [v |-> g.v, r |-> g.r, h |-> g.h2]

verify_and_split_deposit_amount(amount) == <<amount % LoLimit, amount \div LoLimit>>
DepositAllowed(amount) == amount < LoLimit * HiLimit
-----------------------------------------------------------------------------
(* What the proof program has verified when it stores a context. *)
ProvesEquality(ctx) ==
    /\ ctx.commitment \in Commitment /\ ctx.ciphertext \in Ciphertext
    /\ Decrypts(ctx.ciphertext) /\ ctx.commitment.v = ctx.ciphertext.v
ProvesValidity(ctx) ==
    /\ ctx.grouped_ciphertext_lo \in Grouped2 /\ ctx.grouped_ciphertext_hi \in Grouped2
    /\ \A g \in {ctx.grouped_ciphertext_lo, ctx.grouped_ciphertext_hi} : g.h1 = g.r /\ g.h2 = g.r
ProvesRange(ctx) ==
    /\ ctx.commitments \in Seq(Commitment) /\ ctx.bit_lengths \in Seq(Nat)
    /\ Len(ctx.bit_lengths) = Len(ctx.commitments)
    /\ \A i \in 1 .. Len(ctx.commitments) : ctx.commitments[i].v \in 0 .. ctx.bit_lengths[i] - 1
ProvesFeeSigma(ctx) ==
    /\ ctx.fee_commitment \in Commitment /\ ctx.delta_commitment \in Commitment
    /\ ctx.claimed_commitment \in Commitment
    /\ \/ ctx.fee_commitment.v = ctx.max_fee
       \/ ctx.delta_commitment.v = ctx.claimed_commitment.v
-----------------------------------------------------------------------------
(* The first commitments of the range proof are those of the other proofs, *)
(* each for its number of bits (here, the limit that it stands for).       *)
Covers(range, commitments, limits) ==
    /\ Len(range.commitments) >= Len(commitments)
    /\ \A i \in 1 .. Len(commitments) : range.commitments[i] = commitments[i]
    /\ \A i \in 1 .. Len(limits) : i <= Len(range.bit_lengths) => range.bit_lengths[i] = limits[i]

(* Mutant: only the transfer amount is looked up in the range proof. *)
accepts_uncovered_balance(eq, validity, range) ==
    LET lo == extract_commitment_from_grouped_ciphertext(validity.grouped_ciphertext_lo)
        hi == extract_commitment_from_grouped_ciphertext(validity.grouped_ciphertext_hi)
    IN  Covers(range, <<range.commitments[1], lo, hi>>, <<BalanceLimit, LoLimit, HiLimit>>)

(* TransferProofContextInfo::verify_and_extract: the contexts it accepts.  *)
accepts_transfer(eq, validity, range) ==
    LET lo == extract_commitment_from_grouped_ciphertext(validity.grouped_ciphertext_lo)
        hi == extract_commitment_from_grouped_ciphertext(validity.grouped_ciphertext_hi)
    IN  Covers(range, <<eq.commitment, lo, hi>>, <<BalanceLimit, LoLimit, HiLimit>>)

verify_delta_commitment(lo, hi, fee, delta, points) ==
    LET amount == combine_lo_hi_pedersen_points(lo, hi)
    IN  delta = [v |-> OneInBasisPoints * fee.v - points * amount.v,
                 r |-> OneInBasisPoints * fee.r - points * amount.r]

(* TransferWithFeeProofContextInfo::verify_and_extract. *)
accepts_transfer_with_fee(eq, validity, sigma, fee_validity, range, fee) ==
    LET lo == extract_commitment_from_grouped_ciphertext(validity.grouped_ciphertext_lo)
        hi == extract_commitment_from_grouped_ciphertext(validity.grouped_ciphertext_hi)
        fee_lo == extract_commitment_from_grouped_ciphertext(fee_validity.grouped_ciphertext_lo)
        fee_hi == extract_commitment_from_grouped_ciphertext(fee_validity.grouped_ciphertext_hi)
        complement == [v |-> OneInBasisPoints - sigma.claimed_commitment.v,
                       r |-> 0 - sigma.claimed_commitment.r]
    IN  /\ sigma.max_fee = fee.maximum_fee
        /\ validity.destination_pubkey = fee_validity.destination_pubkey
        /\ Covers(range,
                  <<eq.commitment, lo, hi, sigma.claimed_commitment, complement, fee_lo, fee_hi>>,
                  <<BalanceLimit, LoLimit, HiLimit, DeltaLimit, DeltaLimit, LoLimit, HiLimit>>)
        /\ combine_lo_hi_pedersen_points(fee_lo, fee_hi) = sigma.fee_commitment
        /\ verify_delta_commitment(lo, hi, sigma.fee_commitment, sigma.delta_commitment,
                                   fee.basis_points)
=============================================================================
