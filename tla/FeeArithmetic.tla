---------------------------- MODULE FeeArithmetic ----------------------------
(***************************************************************************)
(* The fee of a token transfer, and the transfer that leaves a given       *)
(* amount after its fee.                                                   *)
(***************************************************************************)
EXTENDS Integers

CONSTANTS
    MaxAmount,         \* the largest amount, u64::MAX in the code
    OneInBasisPoints   \* 10 000 in the code

(* A checked operation of the code that has no result. *)
NoAmount == -1

ceil_div(numerator, denominator) == (numerator + denominator - 1) \div denominator

calculate_fee(fee, pre_fee_amount) ==
    IF fee.basis_points = 0 \/ pre_fee_amount = 0
    THEN 0
    ELSE LET raw_fee == ceil_div(pre_fee_amount * fee.basis_points, OneInBasisPoints)
         IN  IF raw_fee <= fee.maximum_fee THEN raw_fee ELSE fee.maximum_fee

calculate_post_fee_amount(fee, pre_fee_amount) ==
    pre_fee_amount - calculate_fee(fee, pre_fee_amount)

Checked(x) == IF x <= MaxAmount THEN x ELSE NoAmount

calculate_pre_fee_amount(fee, post_fee_amount) ==
    IF fee.basis_points = 0 THEN post_fee_amount
    ELSE IF fee.basis_points = OneInBasisPoints \/ post_fee_amount = 0 THEN 0
    ELSE LET raw == ceil_div(post_fee_amount * OneInBasisPoints, OneInBasisPoints - fee.basis_points)
         IN  Checked(IF raw - post_fee_amount >= fee.maximum_fee
                     THEN post_fee_amount + fee.maximum_fee ELSE raw)

calculate_inverse_fee(fee, post_fee_amount) ==
    LET pre == calculate_pre_fee_amount(fee, post_fee_amount)
    IN  IF pre = NoAmount THEN NoAmount ELSE calculate_fee(fee, pre)
=============================================================================
