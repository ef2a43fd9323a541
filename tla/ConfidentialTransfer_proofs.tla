-------------------- MODULE ConfidentialTransfer_proofs --------------------
(***************************************************************************)
(* What the proofs of a confidential transfer establish, however they are  *)
(* put together.                                                           *)
(***************************************************************************)
EXTENDS ConfidentialTransfer, TLAPS

(* The quotient of ceil_div is the least number whose multiple reaches the *)
(* numerator: the fee that is due is the least one that covers its rate.   *)
LEMMA CeilDivLeast ==
    ASSUME NEW n \in Int, NEW d \in Nat \ {0}, NEW f \in Int, d * f >= n
    PROVE  f >= ceil_div(n, d)
<1> DEFINE q == (n + d - 1) \div d
<1>1. q \in Int /\ d * q <= n + d - 1
    BY SMT
<1>2. SUFFICES ASSUME f < q PROVE FALSE
    BY <1>1 DEF ceil_div
<1>3. f + 1 <= q /\ d * (f + 1) <= d * q
    BY <1>1, <1>2
<1>4. d * (f + 1) = d * f + d
    BY SMT
<1> QED
    BY <1>1, <1>3, <1>4

(* A range proof that covers a commitment bounds what it hides. *)
LEMMA CoveredInRange ==
    ASSUME NEW range, ProvesRange(range), NEW commitments \in Seq(Commitment),
           NEW limits \in Seq(Nat), Len(limits) = Len(commitments),
           Covers(range, commitments, limits), NEW i \in 1 .. Len(commitments)
    PROVE  commitments[i].v \in 0 .. limits[i] - 1
<1>1. i \in 1 .. Len(range.commitments) /\ i \in 1 .. Len(range.bit_lengths)
    BY DEF Covers, ProvesRange
<1>2. range.commitments[i] = commitments[i] /\ range.bit_lengths[i] = limits[i]
    BY <1>1 DEF Covers
<1>3. range.commitments[i].v \in 0 .. range.bit_lengths[i] - 1
    BY <1>1, Zenon DEF ProvesRange
<1> QED
    BY <1>2, <1>3, Zenon

(* The contexts that TransferProofContextInfo::verify_and_extract accepts  *)
(* hide an amount of two parts and a remaining balance, each in its range. *)
LEMMA TransferProofsSound ==
    ASSUME NEW eq, NEW validity, NEW range,
           ProvesEquality(eq), ProvesValidity(validity), ProvesRange(range),
           accepts_transfer(eq, validity, range)
    PROVE  /\ validity.grouped_ciphertext_lo.v \in 0 .. LoLimit - 1
           /\ validity.grouped_ciphertext_hi.v \in 0 .. HiLimit - 1
           /\ eq.ciphertext.v \in 0 .. BalanceLimit - 1
<1> DEFINE lo == extract_commitment_from_grouped_ciphertext(validity.grouped_ciphertext_lo)
           hi == extract_commitment_from_grouped_ciphertext(validity.grouped_ciphertext_hi)
           all == <<eq.commitment, lo, hi>>
           limits == <<BalanceLimit, LoLimit, HiLimit>>
<1>1. eq.commitment \in Commitment /\ lo \in Commitment /\ hi \in Commitment
    BY Zenon DEF ProvesEquality, ProvesValidity, Commitment, Grouped2,
           extract_commitment_from_grouped_ciphertext
<1>2. all \in Seq(Commitment) /\ limits \in Seq(Nat) /\ Len(all) = 3 /\ Len(limits) = 3
    BY <1>1, LimitsAssumption DEF LimitsAssumption
<1>3. Covers(range, all, limits)
    BY Zenon DEF accepts_transfer
<1> HIDE DEF all, limits
<1>4. \A i \in 1 .. 3 : all[i].v \in 0 .. limits[i] - 1
    BY <1>2, <1>3, CoveredInRange, Zenon
<1>5. /\ all[1] = eq.commitment /\ all[2] = lo /\ all[3] = hi
      /\ limits[1] = BalanceLimit /\ limits[2] = LoLimit /\ limits[3] = HiLimit
    BY Zenon DEF all, limits
<1>6. /\ eq.commitment.v \in 0 .. BalanceLimit - 1 /\ lo.v \in 0 .. LoLimit - 1
      /\ hi.v \in 0 .. HiLimit - 1
    BY <1>4, <1>5
<1> QED
    BY <1>6, Zenon DEF ProvesEquality, extract_commitment_from_grouped_ciphertext

(* The contexts that TransferWithFeeProofContextInfo::verify_and_extract   *)
(* accepts moreover hide a fee, in two parts, that is at least the one due *)
(* for the amount: it is the maximum fee, or it covers the rate.           *)
LEMMA FeeProofsSound ==
    ASSUME NEW eq, NEW validity, NEW sigma, NEW fee_validity, NEW range,
           NEW f \in [basis_points : Nat, maximum_fee : Nat],
           ProvesEquality(eq), ProvesValidity(validity), ProvesFeeSigma(sigma),
           ProvesValidity(fee_validity), ProvesRange(range),
           accepts_transfer_with_fee(eq, validity, sigma, fee_validity, range, f)
    PROVE  /\ validity.grouped_ciphertext_lo.v \in 0 .. LoLimit - 1
           /\ validity.grouped_ciphertext_hi.v \in 0 .. HiLimit - 1
           /\ eq.ciphertext.v \in 0 .. BalanceLimit - 1
           /\ fee_validity.grouped_ciphertext_lo.v \in 0 .. LoLimit - 1
           /\ fee_validity.grouped_ciphertext_hi.v \in 0 .. HiLimit - 1
           /\ fee_validity.grouped_ciphertext_lo.v + LoLimit * fee_validity.grouped_ciphertext_hi.v
                 >= calculate_fee(f, validity.grouped_ciphertext_lo.v
                                     + LoLimit * validity.grouped_ciphertext_hi.v)
<1> DEFINE lo == extract_commitment_from_grouped_ciphertext(validity.grouped_ciphertext_lo)
           hi == extract_commitment_from_grouped_ciphertext(validity.grouped_ciphertext_hi)
           fee_lo == extract_commitment_from_grouped_ciphertext(fee_validity.grouped_ciphertext_lo)
           fee_hi == extract_commitment_from_grouped_ciphertext(fee_validity.grouped_ciphertext_hi)
           claimed == sigma.claimed_commitment
           complement == [v |-> OneInBasisPoints - claimed.v, r |-> 0 - claimed.r]
           all == <<eq.commitment, lo, hi, claimed, complement, fee_lo, fee_hi>>
           limits == <<BalanceLimit, LoLimit, HiLimit, DeltaLimit, DeltaLimit, LoLimit, HiLimit>>
           amount_sent == lo.v + LoLimit * hi.v
           whole_fee == fee_lo.v + LoLimit * fee_hi.v
<1>1. /\ eq.commitment \in Commitment /\ lo \in Commitment /\ hi \in Commitment
      /\ fee_lo \in Commitment /\ fee_hi \in Commitment
    BY Zenon DEF ProvesEquality, ProvesValidity, Commitment, Grouped2,
           extract_commitment_from_grouped_ciphertext
<1>2. claimed \in Commitment
    BY Zenon DEF ProvesFeeSigma
<1>3. complement \in Commitment
    BY <1>2, LimitsAssumption DEF LimitsAssumption, Commitment
<1>4. /\ all \in Seq(Commitment) /\ limits \in Seq(Nat) /\ Len(all) = 7 /\ Len(limits) = 7
    BY <1>1, <1>2, <1>3, LimitsAssumption DEF LimitsAssumption
<1>5. Covers(range, all, limits)
    BY Zenon DEF accepts_transfer_with_fee
<1>6. /\ all[1] = eq.commitment /\ all[2] = lo /\ all[3] = hi /\ all[4] = claimed
      /\ all[5] = complement /\ all[6] = fee_lo /\ all[7] = fee_hi
      /\ limits[1] = BalanceLimit /\ limits[2] = LoLimit /\ limits[3] = HiLimit
      /\ limits[4] = DeltaLimit /\ limits[5] = DeltaLimit /\ limits[6] = LoLimit
      /\ limits[7] = HiLimit
    BY Zenon
<1> HIDE DEF all, limits
<1>7. \A i \in 1 .. 7 : all[i].v \in 0 .. limits[i] - 1
    BY <1>4, <1>5, CoveredInRange, Zenon
<1>8. /\ eq.commitment.v \in 0 .. BalanceLimit - 1 /\ lo.v \in 0 .. LoLimit - 1
      /\ hi.v \in 0 .. HiLimit - 1 /\ fee_lo.v \in 0 .. LoLimit - 1
      /\ fee_hi.v \in 0 .. HiLimit - 1 /\ claimed.v >= 0
    BY <1>6, <1>7, <1>2, LimitsAssumption DEF LimitsAssumption, Commitment
<1>9. whole_fee >= calculate_fee(f, amount_sent)
  <2>1. whole_fee \in Nat /\ amount_sent \in Nat
    BY <1>8, LimitsAssumption DEF LimitsAssumption
  <2>2. sigma.fee_commitment.v = whole_fee /\ sigma.max_fee = f.maximum_fee
    BY DEF accepts_transfer_with_fee, combine_lo_hi_pedersen_points
  <2>3. sigma.delta_commitment.v = OneInBasisPoints * whole_fee - f.basis_points * amount_sent
    BY <2>2 DEF accepts_transfer_with_fee, verify_delta_commitment, combine_lo_hi_pedersen_points
  <2> DEFINE raw == ceil_div(amount_sent * f.basis_points, OneInBasisPoints)
  <2> HIDE DEF whole_fee, amount_sent
  <2>4. raw \in Int
    BY <2>1, LimitsAssumption DEF LimitsAssumption, ceil_div
  <2>5. CASE sigma.fee_commitment.v = sigma.max_fee
    <3>1. whole_fee = f.maximum_fee
        BY <2>2, <2>5, Zenon
    <3> HIDE DEF raw
    <3> QED
        BY <3>1, <2>1, <2>4 DEF calculate_fee, raw
  <2>6. CASE sigma.delta_commitment.v = claimed.v
    <3>1. OneInBasisPoints * whole_fee >= amount_sent * f.basis_points
        BY <2>1, <2>3, <2>6, <1>8, LimitsAssumption DEF LimitsAssumption
    <3>2. whole_fee >= raw
        BY <3>1, <2>1, CeilDivLeast, LimitsAssumption DEF LimitsAssumption
    <3> HIDE DEF raw
    <3> QED
        BY <3>2, <2>1, <2>4 DEF calculate_fee, raw
  <2> QED
    BY <2>5, <2>6, Zenon DEF ProvesFeeSigma
<1> QED
    BY <1>8, <1>9, Zenon DEF ProvesEquality, extract_commitment_from_grouped_ciphertext
-----------------------------------------------------------------------------
(* The inductive invariant: contexts are only kept of proofs that were     *)
(* verified, and the fee is one of the mint's.                             *)
ContextsProved ==
    /\ contexts = [a \in Accounts |-> [k \in ContextKinds |-> contexts[a][k]]]
    /\ \A a \in Accounts : \A k \in ContextKinds :
           contexts[a][k] = Nothing \/ Proved(k, contexts[a][k])
    /\ fee \in Fees

(* Of all steps only StoreContext and CloseContext change the contexts. *)
LEMMA ContextsStayProved ==
    ASSUME ContextsProved, [Next]_vars
    PROVE  ContextsProved'
<1>f. ASSUME UNCHANGED contexts, fee' \in Fees
      PROVE  ContextsProved'
    BY <1>f, Zenon DEF ContextsProved
<1>1. CASE UNCHANGED vars
    BY <1>1, <1>f, Zenon DEF vars, mintVars, clientVars, ContextsProved
<1>2. CASE MintStep
    BY <1>2, <1>f, Zenon DEF MintStep, InitializeMint, UpdateMint, InitializeTransferFeeConfig,
        InitializeConfidentialTransferFeeConfig, OpenMint, SetHarvestToMint, FeeChanges,
        clientVars, ContextsProved
<1>3. CASE BaseStep
    BY <1>3, <1>f DEF BaseStep, InitializeAccount, ToggleFreezeAccount, CloseAccount, MintTo,
        OpenTransfer, clientVars, mintVars, ContextsProved
<1>4. CASE SetupStep
    BY <1>4, <1>f, Zenon DEF SetupStep, ConfigureAccount, ApproveAccount, AllowConfidentialCredits,
        AllowNonConfidentialCredits, clientVars, mintVars, ContextsProved
<1>5. CASE BalanceStep
    BY <1>5, <1>f, ZenonT(30) DEF BalanceStep, Deposit, PrepareWithdraw, PrepareApply, ApplyPendingBalance,
        PrepareEmpty, EmptyAccount, Withdraw, Prepare, clientVars, mintVars, ContextsProved
<1>6. CASE TransferStep
    BY <1>6, <1>f DEF TransferStep, PrepareTransfer, Transfer, Prepare, clientVars, mintVars,
        ContextsProved
<1>7. CASE WithheldStep
    BY <1>7, <1>f, SMTT(30) DEF WithheldStep, HarvestWithheldTokensToMint, WithdrawWithheldTokensFromMint,
        WithdrawWithheldTokensFromAccounts, PrepareWithdrawWithheld, Prepare, clientVars, mintVars,
        ContextsProved
<1>8. CASE SplitStep
  <2>1. ASSUME NEW s \in Accounts, NEW k \in ContextKinds, NEW ctx, StoreContext(s, k, ctx)
        PROVE  ContextsProved'
    <3>1. contexts' = [contexts EXCEPT ![s][k] = ctx] /\ Proved(k, ctx) /\ UNCHANGED fee
        BY <2>1, Zenon DEF StoreContext, mintVars
    <3>2. \A a \in Accounts : \A j \in ContextKinds :
              contexts'[a][j] = IF a = s /\ j = k THEN ctx ELSE contexts[a][j]
        BY <3>1, Zenon DEF ContextsProved
    <3>3. \A a \in Accounts : \A j \in ContextKinds :
              contexts'[a][j] = Nothing \/ Proved(j, contexts'[a][j])
        BY <3>1, <3>2 DEF ContextsProved
    <3>4. contexts' = [a \in Accounts |-> [j \in ContextKinds |-> contexts'[a][j]]]
        BY <3>1, Zenon DEF ContextsProved
    <3>5. fee' \in Fees
        BY <3>1, Zenon DEF ContextsProved
    <3> QED
        BY <3>3, <3>4, <3>5, Zenon DEF ContextsProved
  <2>2. ASSUME NEW s \in Accounts, NEW k \in ContextKinds, CloseContext(s, k)
        PROVE  ContextsProved'
    <3>1. contexts' = [contexts EXCEPT ![s][k] = Nothing] /\ UNCHANGED fee
        BY <2>2, Zenon DEF CloseContext, mintVars
    <3>2. \A a \in Accounts : \A j \in ContextKinds :
              contexts'[a][j] = IF a = s /\ j = k THEN Nothing ELSE contexts[a][j]
        BY <3>1, Zenon DEF ContextsProved
    <3>3. \A a \in Accounts : \A j \in ContextKinds :
              contexts'[a][j] = Nothing \/ Proved(j, contexts'[a][j])
        BY <3>1, <3>2 DEF ContextsProved
    <3>4. contexts' = [a \in Accounts |-> [j \in ContextKinds |-> contexts'[a][j]]]
        BY <3>1, Zenon DEF ContextsProved
    <3>5. fee' \in Fees
        BY <3>1, Zenon DEF ContextsProved
    <3> QED
        BY <3>3, <3>4, <3>5, Zenon DEF ContextsProved
  <2>3. ASSUME NEW s \in Accounts, NEW d \in Accounts, TransferWaits(s, d)
        PROVE  ContextsProved'
    BY <2>3, <1>f, Zenon DEF TransferWaits, vars, clientVars, mintVars, ContextsProved
  <2>4. ASSUME NEW s \in Accounts, NEW d \in Accounts, NEW o, NEW close \in BOOLEAN,
               TransferWithSplitProofs(s, d, o, close)
        PROVE  ContextsProved'
    <3>1. fee' \in Fees
        BY <2>4, Zenon DEF TransferWithSplitProofs, mintVars, ContextsProved
    <3>2. CASE ~close
        BY <2>4, <3>1, <3>2, <1>f, Zenon DEF TransferWithSplitProofs
    <3>3. CASE close
      <4> DEFINE left == [k \in ContextKinds |->
                              IF k \in NeededKinds THEN Nothing ELSE contexts[s][k]]
      <4>1. contexts' = [contexts EXCEPT ![s] = left]
        BY <2>4, <3>3, Zenon DEF TransferWithSplitProofs
      <4>2. \A a \in Accounts : contexts'[a] = IF a = s THEN left ELSE contexts[a]
        BY <4>1, Zenon DEF ContextsProved
      <4>3. \A k \in ContextKinds : left[k] = Nothing \/ left[k] = contexts[s][k]
        BY Zenon
      <4>4. left = [k \in ContextKinds |-> left[k]]
        BY Zenon
      <4> HIDE DEF left
      <4>5. \A a \in Accounts : \A k \in ContextKinds :
                contexts'[a][k] = Nothing \/ contexts'[a][k] = contexts[a][k]
        BY <4>2, <4>3, Zenon
      <4>6. \A a \in Accounts : \A k \in ContextKinds :
                contexts'[a][k] = Nothing \/ Proved(k, contexts'[a][k])
        BY <4>5, Zenon DEF ContextsProved
      <4>7. \A a \in Accounts : contexts'[a] = [k \in ContextKinds |-> contexts'[a][k]]
        BY <4>2, <4>4, Zenon DEF ContextsProved
      <4>8. contexts' = [a \in Accounts |-> contexts'[a]]
        BY <4>1, Zenon DEF ContextsProved
      <4>9. contexts' = [a \in Accounts |-> [k \in ContextKinds |-> contexts'[a][k]]]
        BY <4>7, <4>8, Zenon
      <4> QED
        BY <3>1, <4>6, <4>9, Zenon DEF ContextsProved
    <3> QED
        BY <3>2, <3>3, Zenon
  <2> QED
    BY <1>8, <2>1, <2>2, <2>3, <2>4, Zenon DEF SplitStep
<1> QED
    BY <1>1, <1>2, <1>3, <1>4, <1>5, <1>6, <1>7, <1>8, Zenon DEF Next

(* What is proved of the contexts makes the accepted ones sound. *)
LEMMA ProvedContextsSound ==
    ASSUME ContextsProved
    PROVE  AcceptedProofsSound
<1> SUFFICES ASSUME NEW a \in Accounts, ProofsAccepted(contexts[a])
             PROVE  LET c == contexts[a]
                        lo == c.validity.grouped_ciphertext_lo
                        hi == c.validity.grouped_ciphertext_hi
                    IN  /\ lo.v \in 0 .. LoLimit - 1 /\ hi.v \in 0 .. HiLimit - 1
                        /\ c.equality.ciphertext.v \in 0 .. BalanceLimit - 1
                        /\ WithFee => c.fee_validity.grouped_ciphertext_lo.v
                                          + LoLimit * c.fee_validity.grouped_ciphertext_hi.v
                                      >= calculate_fee(fee, lo.v + LoLimit * hi.v)
    BY Zenon DEF AcceptedProofsSound
<1> DEFINE c == contexts[a]
<1>1. \A k \in NeededKinds : Proved(k, c[k])
    BY Zenon DEF ProofsAccepted, ContextsProved, NeededKinds, ContextKinds
<1>2. ProvesEquality(c.equality) /\ ProvesValidity(c.validity) /\ ProvesRange(c.range)
    BY <1>1, Zenon DEF NeededKinds, ContextKinds, Proved
<1>3. fee \in [basis_points : Nat, maximum_fee : Nat]
    BY ParametersAssumption, Zenon DEF ParametersAssumption, ContextsProved
<1>4. CASE WithFee
  <2>1. ProvesFeeSigma(c.sigma) /\ ProvesValidity(c.fee_validity)
    BY <1>1, <1>4, Zenon DEF NeededKinds, ContextKinds, Proved
  <2>2. accepts_transfer_with_fee(c.equality, c.validity, c.sigma, c.fee_validity, c.range, fee)
    BY <1>4, Zenon DEF ProofsAccepted
  <2> QED
    BY <1>2, <1>3, <2>1, <2>2, FeeProofsSound, Zenon
<1>5. CASE ~WithFee
  <2>1. accepts_transfer(c.equality, c.validity, c.range)
    BY <1>5, Zenon DEF ProofsAccepted
  <2> QED
    BY <1>2, <1>5, <2>1, TransferProofsSound, Zenon
<1> QED
    BY <1>4, <1>5, Zenon

(* Whatever proofs are stored, mixed or replaced, the ones the program     *)
(* accepts for a transfer prove amounts in range, a remaining balance that *)
(* is not negative, and a fee no smaller than the one due.                 *)
THEOREM AcceptedProofsAreSound == Spec => []AcceptedProofsSound
<1>1. Init => ContextsProved
    BY DEF Init, ContextsProved
<1>2. ContextsProved /\ [Next]_vars => ContextsProved'
    BY ContextsStayProved, Zenon
<1> QED
    BY <1>1, <1>2, ProvedContextsSound, PTL DEF Spec
-----------------------------------------------------------------------------
(* The parts of an amount that is allowed are within their limits. *)
LEMMA SplitInRange ==
    ASSUME NEW x \in Nat
    PROVE  /\ verify_and_split_deposit_amount(x)[1] \in 0 .. LoLimit - 1
           /\ verify_and_split_deposit_amount(x)[2] \in Nat
           /\ DepositAllowed(x) => verify_and_split_deposit_amount(x)[2] \in 0 .. HiLimit - 1
<1> DEFINE q == x \div LoLimit
           m == x % LoLimit
<1>1. q \in Nat /\ m \in 0 .. LoLimit - 1 /\ x = LoLimit * q + m
    BY LimitsAssumption, SMT DEF LimitsAssumption
<1>2. x < LoLimit * HiLimit => q < HiLimit
  <2> SUFFICES ASSUME x < LoLimit * HiLimit, q >= HiLimit PROVE FALSE
    BY <1>1, LimitsAssumption DEF LimitsAssumption
  <2> HIDE DEF q, m
  <2>1. LoLimit * q >= LoLimit * HiLimit
    BY <1>1, LimitsAssumption DEF LimitsAssumption
  <2> QED
    BY <1>1, <2>1, LimitsAssumption DEF LimitsAssumption
<1> QED
    BY <1>1, <1>2, LimitsAssumption DEF LimitsAssumption, verify_and_split_deposit_amount,
        DepositAllowed

(* A fee is a natural number. *)
LEMMA FeeIsNatural ==
    ASSUME NEW f \in [basis_points : Nat, maximum_fee : Nat], NEW x \in Nat
    PROVE  calculate_fee(f, x) \in Nat
<1> DEFINE n == x * f.basis_points
           raw == ceil_div(n, OneInBasisPoints)
<1>1. n \in Nat
    OBVIOUS
<1> HIDE DEF n
<1>2. raw \in Nat
    BY <1>1, LimitsAssumption DEF LimitsAssumption, ceil_div
<1> HIDE DEF raw
<1> QED
    BY <1>2, Zenon DEF calculate_fee, raw, n

(* The parts of a transfer, and of its fee, are within their limits: of    *)
(* the contexts of a transfer, and of the data that a client prepares.     *)
PartsInRange(c) ==
    /\ c.validity.grouped_ciphertext_lo.v \in 0 .. LoLimit - 1
    /\ c.validity.grouped_ciphertext_hi.v \in 0 .. HiLimit - 1
    /\ WithFee => /\ c.fee_validity.grouped_ciphertext_lo.v \in Nat
                  /\ c.fee_validity.grouped_ciphertext_hi.v \in Nat

DataInRange(c) ==
    /\ c.validity.grouped_ciphertext_lo.v \in 0 .. LoLimit - 1
    /\ c.validity.grouped_ciphertext_hi.v \in 0 .. HiLimit - 1
    /\ c.fee_validity.grouped_ciphertext_lo.v \in Nat
    /\ c.fee_validity.grouped_ciphertext_hi.v \in Nat

PreparedInRange ==
    /\ prepared = [a \in Accounts |-> prepared[a]]
    /\ \A a \in Accounts : prepared[a].kind = "transfer" => DataInRange(prepared[a])

(* The pending balances with what is needed for their bound. *)
PendingBounded ==
    /\ pending_balance_lo = [a \in Accounts |-> pending_balance_lo[a]]
    /\ pending_balance_hi = [a \in Accounts |-> pending_balance_hi[a]]
    /\ pending_balance_credit_counter \in [Accounts -> Nat]
    /\ \A a \in Accounts : pending_balance_lo[a].v \in Int /\ pending_balance_hi[a].v \in Int
    /\ PendingFitsDecryption

(* An update of a function is a function on the same domain. *)
LEMMA UpdateIsFunction ==
    ASSUME NEW S, NEW f, f = [a \in S |-> f[a]], NEW d, NEW x, NEW g, g = [f EXCEPT ![d] = x]
    PROVE  g = [a \in S |-> g[a]]
    BY Zenon

(* A credit of parts within their limits, or of less, keeps the bound. *)
LEMMA CreditKeepsBound ==
    ASSUME PendingBounded, NEW d \in Accounts, NEW lo, NEW hi,
           lo.v \in Int, lo.v <= LoLimit - 1, hi.v \in Int, hi.v <= HiLimit - 1,
           Credit(d, lo, hi)
    PROVE  PendingBounded'
<1>1. /\ pending_balance_lo' = [pending_balance_lo EXCEPT ![d] = add(pending_balance_lo[d], lo)]
      /\ pending_balance_hi' = [pending_balance_hi EXCEPT ![d] = add(pending_balance_hi[d], hi)]
      /\ pending_balance_credit_counter' =
             [pending_balance_credit_counter EXCEPT ![d] = pending_balance_credit_counter[d] + 1]
    BY Zenon DEF Credit
<1>2. /\ add(pending_balance_lo[d], lo).v = pending_balance_lo[d].v + lo.v
      /\ add(pending_balance_hi[d], hi).v = pending_balance_hi[d].v + hi.v
    BY Zenon DEF add
<1>3. \A a \in Accounts :
          /\ pending_balance_lo'[a].v = IF a = d THEN pending_balance_lo[d].v + lo.v
                                        ELSE pending_balance_lo[a].v
          /\ pending_balance_hi'[a].v = IF a = d THEN pending_balance_hi[d].v + hi.v
                                        ELSE pending_balance_hi[a].v
          /\ pending_balance_credit_counter'[a] =
                 IF a = d THEN pending_balance_credit_counter[d] + 1
                 ELSE pending_balance_credit_counter[a]
    BY <1>1, <1>2, Zenon DEF PendingBounded
<1>4. \A n \in Nat : /\ (LoLimit - 1) * (n + 1) = (LoLimit - 1) * n + (LoLimit - 1)
                     /\ (HiLimit - 1) * (n + 1) = (HiLimit - 1) * n + (HiLimit - 1)
                     /\ (LoLimit - 1) * n \in Int /\ (HiLimit - 1) * n \in Int
    BY LimitsAssumption DEF LimitsAssumption
<1>5. ASSUME NEW a \in Accounts
      PROVE  /\ pending_balance_lo'[a].v \in Int /\ pending_balance_hi'[a].v \in Int
             /\ pending_balance_lo'[a].v <= (LoLimit - 1) * pending_balance_credit_counter'[a]
             /\ pending_balance_hi'[a].v <= (HiLimit - 1) * pending_balance_credit_counter'[a]
  <2> DEFINE n == pending_balance_credit_counter[a]
             L == (LoLimit - 1) * n
             H == (HiLimit - 1) * n
  <2>1. /\ n \in Nat /\ pending_balance_lo[a].v \in Int /\ pending_balance_hi[a].v \in Int
        /\ pending_balance_lo[a].v <= L /\ pending_balance_hi[a].v <= H
    BY Zenon DEF PendingBounded, PendingFitsDecryption
  <2>2. CASE a = d
    <3>1. /\ (LoLimit - 1) * pending_balance_credit_counter'[a] = L + (LoLimit - 1)
          /\ (HiLimit - 1) * pending_balance_credit_counter'[a] = H + (HiLimit - 1)
          /\ L \in Int /\ H \in Int
        BY <1>3, <1>4, <2>1, <2>2, Zenon
    <3> HIDE DEF L, H
    <3> QED
        BY <3>1, <1>3, <2>1, <2>2, LimitsAssumption DEF LimitsAssumption
  <2>3. CASE a # d
    BY <1>3, <2>1, <2>3, Zenon
  <2> QED
    BY <2>2, <2>3, Zenon
<1>6. /\ pending_balance_lo' = [a \in Accounts |-> pending_balance_lo'[a]]
      /\ pending_balance_hi' = [a \in Accounts |-> pending_balance_hi'[a]]
      /\ pending_balance_credit_counter' \in [Accounts -> Nat]
  <2>1. pending_balance_lo' = [a \in Accounts |-> pending_balance_lo'[a]]
    BY <1>1, UpdateIsFunction, Zenon DEF PendingBounded
  <2>2. pending_balance_hi' = [a \in Accounts |-> pending_balance_hi'[a]]
    BY <1>1, UpdateIsFunction, Zenon DEF PendingBounded
  <2>3. pending_balance_credit_counter' \in [Accounts -> Nat]
    BY <1>1 DEF PendingBounded
  <2> QED
    BY <2>1, <2>2, <2>3, Zenon
<1> QED
    BY <1>5, <1>6, Zenon DEF PendingBounded, PendingFitsDecryption

(* The credit of a transfer: its parts, less those of the fee. *)
LEMMA ReceiveKeepsBound ==
    ASSUME PendingBounded, NEW s \in Accounts, NEW d \in Accounts, NEW c, PartsInRange(c),
           Receive(s, d, c)
    PROVE  PendingBounded'
<1> DEFINE vlo == c.validity.grouped_ciphertext_lo
           vhi == c.validity.grouped_ciphertext_hi
           lo == transfer_amount_destination_ciphertext(
                     transfer_amount_encryption_from_decrypt_handle(0, vlo))
           hi == transfer_amount_destination_ciphertext(
                     transfer_amount_encryption_from_decrypt_handle(0, vhi))
           fee_lo == fee_amount_destination_ciphertext(c.fee_validity.grouped_ciphertext_lo)
           fee_hi == fee_amount_destination_ciphertext(c.fee_validity.grouped_ciphertext_hi)
<1>1. lo.v = vlo.v /\ hi.v = vhi.v
    BY Zenon DEF transfer_amount_destination_ciphertext, transfer_amount_encryption_from_decrypt_handle
<1>2. /\ lo.v \in Int /\ lo.v <= LoLimit - 1 /\ hi.v \in Int /\ hi.v <= HiLimit - 1
    BY <1>1, LimitsAssumption DEF PartsInRange, LimitsAssumption
<1>3. CASE WithFee /\ s # d
  <2>1. Credit(d, subtract(lo, fee_lo), subtract(hi, fee_hi))
    BY <1>3, Zenon DEF Receive
  <2>2. /\ subtract(lo, fee_lo).v = lo.v - c.fee_validity.grouped_ciphertext_lo.v
        /\ subtract(hi, fee_hi).v = hi.v - c.fee_validity.grouped_ciphertext_hi.v
    BY Zenon DEF subtract, fee_amount_destination_ciphertext
  <2>3. /\ c.fee_validity.grouped_ciphertext_lo.v \in Nat
        /\ c.fee_validity.grouped_ciphertext_hi.v \in Nat
    BY <1>3, Zenon DEF PartsInRange
  <2> HIDE DEF lo, hi, fee_lo, fee_hi
  <2>4. /\ subtract(lo, fee_lo).v \in Int /\ subtract(lo, fee_lo).v <= LoLimit - 1
        /\ subtract(hi, fee_hi).v \in Int /\ subtract(hi, fee_hi).v <= HiLimit - 1
    BY <1>2, <2>2, <2>3, LimitsAssumption DEF LimitsAssumption
  <2> QED
    BY <2>1, <2>4, CreditKeepsBound, Zenon
<1>4. CASE ~(WithFee /\ s # d)
  <2>1. Credit(d, lo, hi)
    BY <1>4, Zenon DEF Receive
  <2> HIDE DEF lo, hi
  <2> QED
    BY <1>2, <2>1, CreditKeepsBound, Zenon
<1> QED
    BY <1>3, <1>4, Zenon

(* An instruction that is prepared, or forgotten. *)
LEMMA PreparedUpdated ==
    ASSUME PreparedInRange, NEW a \in Accounts, NEW op,
           prepared' = [prepared EXCEPT ![a] = op],
           op.kind = "transfer" => DataInRange(op)
    PROVE  PreparedInRange'
<1>1. prepared' = [b \in Accounts |-> prepared'[b]]
    BY UpdateIsFunction, Zenon DEF PreparedInRange
<1>2. \A b \in Accounts : prepared'[b] = IF b = a THEN op ELSE prepared[b]
    BY Zenon DEF PreparedInRange
<1>3. ASSUME NEW b \in Accounts, prepared'[b].kind = "transfer"
      PROVE  DataInRange(prepared'[b])
  <2>1. CASE b = a
    <3>1. prepared'[b] = op
        BY <1>2, <2>1, Zenon
    <3> QED
        BY <3>1, <1>3, Zenon
  <2>2. CASE b # a
    <3>1. prepared'[b] = prepared[b]
        BY <1>2, <2>2, Zenon
    <3> QED
        BY <3>1, <1>3, Zenon DEF PreparedInRange
  <2> QED
    BY <2>1, <2>2, Zenon
<1>4. \A b \in Accounts : prepared'[b].kind = "transfer" => DataInRange(prepared'[b])
    BY <1>3, Zenon
<1> QED
    BY <1>1, <1>4, Zenon DEF PreparedInRange, DataInRange

(* The ciphertexts of the fee hide its two parts. *)
LEMMA FeeValidityParts ==
    ASSUME NEW key, NEW x, NEW o
    PROVE  /\ FeeValidityData(key, x, o).grouped_ciphertext_lo.v
                  = verify_and_split_deposit_amount(calculate_fee(fee, x))[1]
           /\ FeeValidityData(key, x, o).grouped_ciphertext_hi.v
                  = verify_and_split_deposit_amount(calculate_fee(fee, x))[2]
<1>1. /\ FeeValidityData(key, x, o).grouped_ciphertext_lo
             = Hidden(verify_and_split_deposit_amount(calculate_fee(fee, x))[1], o)
      /\ FeeValidityData(key, x, o).grouped_ciphertext_hi
             = Hidden(verify_and_split_deposit_amount(calculate_fee(fee, x))[2], o)
    BY Zenon DEF FeeValidityData
<1>2. \A v : Hidden(v, o).v = v
    BY Zenon DEF Hidden
<1> QED
    BY <1>1, <1>2, Zenon

(* The data of split_proof_generation.rs, of an amount that is allowed. *)
LEMMA PreparedDataInRange ==
    ASSUME fee \in Fees, NEW s, NEW d, NEW x \in Nat, NEW o, DepositAllowed(x)
    PROVE  DataInRange(transfer_split_proof_data(s, d, x, o))
<1> DEFINE data == transfer_split_proof_data(s, d, x, o)
           parts == verify_and_split_deposit_amount(x)
           f == calculate_fee(fee, x)
           fee_parts == verify_and_split_deposit_amount(f)
<1>1. /\ parts[1] \in 0 .. LoLimit - 1 /\ parts[2] \in 0 .. HiLimit - 1
    BY SplitInRange, Zenon
<1>2. f \in Nat
    BY FeeIsNatural, ParametersAssumption, Zenon DEF ParametersAssumption
<1> HIDE DEF f
<1>3. fee_parts[1] \in 0 .. LoLimit - 1 /\ fee_parts[2] \in Nat
    BY <1>2, SplitInRange, Zenon
<1>4. fee_parts[1] \in Nat
    BY <1>3, LimitsAssumption DEF LimitsAssumption
<1> HIDE DEF parts, fee_parts
<1>5. /\ data.validity.grouped_ciphertext_lo.v = parts[1]
      /\ data.validity.grouped_ciphertext_hi.v = parts[2]
    BY Zenon DEF transfer_split_proof_data, Hidden, parts
<1>6. data.fee_validity = FeeValidityData(elgamal_pubkey[d], x, o)
    BY Zenon DEF transfer_split_proof_data
<1>7. /\ data.fee_validity.grouped_ciphertext_lo.v = fee_parts[1]
      /\ data.fee_validity.grouped_ciphertext_hi.v = fee_parts[2]
    BY <1>6, FeeValidityParts DEF fee_parts, f
<1> HIDE DEF data
<1>8. DataInRange(data)
    BY <1>1, <1>3, <1>4, <1>5, <1>7, Zenon DEF DataInRange
<1> QED
    BY <1>8, Zenon DEF data

(* The inductive invariant of the bound on pending balances. *)
PendingInv == ContextsProved /\ PreparedInRange /\ PendingBounded

(* Of the contexts that are accepted, the parts are within their limits. *)
LEMMA AcceptedPartsInRange ==
    ASSUME ContextsProved, NEW s \in Accounts, ProofsAccepted(contexts[s])
    PROVE  PartsInRange(contexts[s])
<1> DEFINE c == contexts[s]
<1>1. /\ c.validity.grouped_ciphertext_lo.v \in 0 .. LoLimit - 1
      /\ c.validity.grouped_ciphertext_hi.v \in 0 .. HiLimit - 1
    BY ProvedContextsSound, Zenon DEF AcceptedProofsSound
<1>2. CASE WithFee
  <2>1. \A k \in ContextKinds : c[k] # Nothing
    BY <1>2, Zenon DEF ProofsAccepted, NeededKinds
  <2>2. \A k \in ContextKinds : Proved(k, c[k])
    BY <2>1, Zenon DEF ContextsProved
  <2>3. /\ ProvesEquality(c.equality) /\ ProvesValidity(c.validity) /\ ProvesRange(c.range)
        /\ ProvesFeeSigma(c.sigma) /\ ProvesValidity(c.fee_validity)
    BY <2>2, Zenon DEF Proved, ContextKinds
  <2>4. accepts_transfer_with_fee(c.equality, c.validity, c.sigma, c.fee_validity, c.range, fee)
    BY <1>2, Zenon DEF ProofsAccepted
  <2>5. fee \in [basis_points : Nat, maximum_fee : Nat]
    BY ParametersAssumption, Zenon DEF ParametersAssumption, ContextsProved
  <2>6. /\ c.fee_validity.grouped_ciphertext_lo.v \in 0 .. LoLimit - 1
        /\ c.fee_validity.grouped_ciphertext_hi.v \in 0 .. HiLimit - 1
    BY <2>3, <2>4, <2>5, FeeProofsSound, Zenon
  <2> QED
    BY <1>1, <2>6, LimitsAssumption DEF LimitsAssumption, PartsInRange
<1>3. CASE ~WithFee
    BY <1>1, <1>3, Zenon DEF PartsInRange
<1> QED
    BY <1>2, <1>3, Zenon

(* One step: only ConfigureAccount, Deposit, ApplyPendingBalance and the   *)
(* two transfers change pending balances.                                  *)
LEMMA PendingStep ==
    ASSUME PendingInv, [Next]_vars
    PROVE  PreparedInRange' /\ PendingBounded'
<1> USE DEF PendingInv
<1>f. ASSUME UNCHANGED pendingVars
      PROVE  PendingBounded'
    BY <1>f, Zenon DEF PendingBounded, PendingFitsDecryption, pendingVars
<1>g. ASSUME UNCHANGED prepared
      PROVE  PreparedInRange'
    BY <1>g, Zenon DEF PreparedInRange, DataInRange
<1>n. ASSUME NEW a \in Accounts, prepared' = [prepared EXCEPT ![a] = Nothing]
      PROVE  PreparedInRange'
  <2>1. Nothing.kind # "transfer"
    BY Zenon DEF Nothing
  <2> QED
    BY <1>n, <2>1, PreparedUpdated, Zenon
<1>o. ASSUME NEW a \in Accounts, NEW op, op.kind # "transfer", Prepare(a, op)
      PROVE  PreparedInRange' /\ PendingBounded'
  <2>1. prepared' = [prepared EXCEPT ![a] = op] /\ UNCHANGED pendingVars
    BY <1>o, Zenon DEF Prepare
  <2> QED
    BY <2>1, <1>o, <1>f, PreparedUpdated, Zenon
<1>z. ASSUME NEW a \in Accounts,
             pending_balance_lo' = [pending_balance_lo EXCEPT ![a] = Zeroed],
             pending_balance_hi' = [pending_balance_hi EXCEPT ![a] = Zeroed],
             pending_balance_credit_counter' = [pending_balance_credit_counter EXCEPT ![a] = 0]
      PROVE  PendingBounded'
  <2>1. pending_balance_lo' = [b \in Accounts |-> pending_balance_lo'[b]]
    BY <1>z, UpdateIsFunction, Zenon DEF PendingBounded
  <2>2. pending_balance_hi' = [b \in Accounts |-> pending_balance_hi'[b]]
    BY <1>z, UpdateIsFunction, Zenon DEF PendingBounded
  <2>3. pending_balance_credit_counter' \in [Accounts -> Nat]
    BY <1>z, Zenon DEF PendingBounded
  <2>4. \A b \in Accounts :
            /\ pending_balance_lo'[b].v = IF b = a THEN 0 ELSE pending_balance_lo[b].v
            /\ pending_balance_hi'[b].v = IF b = a THEN 0 ELSE pending_balance_hi[b].v
            /\ pending_balance_credit_counter'[b] =
                   IF b = a THEN 0 ELSE pending_balance_credit_counter[b]
    BY <1>z, Zenon DEF PendingBounded, Zeroed
  <2>5. (LoLimit - 1) * 0 = 0 /\ (HiLimit - 1) * 0 = 0
    BY LimitsAssumption DEF LimitsAssumption
  <2>6. \A b \in Accounts :
            /\ pending_balance_lo'[b].v \in Int /\ pending_balance_hi'[b].v \in Int
            /\ pending_balance_lo'[b].v <= (LoLimit - 1) * pending_balance_credit_counter'[b]
            /\ pending_balance_hi'[b].v <= (HiLimit - 1) * pending_balance_credit_counter'[b]
    BY <2>4, <2>5 DEF PendingBounded, PendingFitsDecryption
  <2> QED
    BY <2>1, <2>2, <2>3, <2>6, Zenon DEF PendingBounded, PendingFitsDecryption
<1>1. CASE UNCHANGED vars
    BY <1>1, <1>f, <1>g, Zenon DEF vars, clientVars
<1>2. CASE MintStep
    BY <1>2, <1>f, <1>g, Zenon DEF MintStep, InitializeMint, UpdateMint, InitializeTransferFeeConfig,
        InitializeConfidentialTransferFeeConfig, OpenMint, SetHarvestToMint, FeeChanges, clientVars
<1>3. CASE BaseStep
    BY <1>3, <1>f, <1>g DEF BaseStep, InitializeAccount, ToggleFreezeAccount, CloseAccount, MintTo,
        OpenTransfer, clientVars
<1>4. CASE SetupStep
  <2>1. ASSUME NEW a \in Accounts, NEW key, ConfigureAccount(a, key)
        PROVE  PreparedInRange' /\ PendingBounded'
    BY <2>1, <1>n, <1>z, Zenon DEF ConfigureAccount
  <2>2. ASSUME NEW a \in Accounts,
               \/ ApproveAccount(a)
               \/ \E allow \in BOOLEAN : \/ AllowConfidentialCredits(a, allow)
                                         \/ AllowNonConfidentialCredits(a, allow)
        PROVE  PreparedInRange' /\ PendingBounded'
    BY <2>2, <1>f, <1>g, Zenon DEF ApproveAccount, AllowConfidentialCredits, AllowNonConfidentialCredits,
        clientVars
  <2> QED
    BY <1>4, <2>1, <2>2, Zenon DEF SetupStep
<1>5. CASE BalanceStep
  <2>1. ASSUME NEW a \in Accounts, NEW x \in TransferSums, Deposit(a, x)
        PROVE  PreparedInRange' /\ PendingBounded'
    <3> DEFINE parts == verify_and_split_deposit_amount(x)
    <3>1. /\ DepositAllowed(x) /\ Credit(a, Plain(parts[1]), Plain(parts[2])) /\ UNCHANGED prepared
        BY <2>1, Zenon DEF Deposit, clientVars
    <3>2. parts[1] \in 0 .. LoLimit - 1 /\ parts[2] \in 0 .. HiLimit - 1
        BY <3>1, SplitInRange, ParametersAssumption, Zenon DEF ParametersAssumption
    <3> HIDE DEF parts
    <3>3. /\ Plain(parts[1]).v \in Int /\ Plain(parts[1]).v <= LoLimit - 1
          /\ Plain(parts[2]).v \in Int /\ Plain(parts[2]).v <= HiLimit - 1
        BY <3>2, LimitsAssumption DEF LimitsAssumption, Plain
    <3> QED
        BY <3>1, <3>3, <1>g, CreditKeepsBound, Zenon
  <2>2. ASSUME NEW a \in Accounts, NEW x \in TransferSums, PrepareWithdraw(a, x)
        PROVE  PreparedInRange' /\ PendingBounded'
    BY <2>2, <1>o, Zenon DEF PrepareWithdraw
  <2>3. ASSUME NEW a \in Accounts, PrepareApply(a) \/ PrepareEmpty(a)
        PROVE  PreparedInRange' /\ PendingBounded'
    BY <2>3, <1>o, Zenon DEF PrepareApply, PrepareEmpty
  <2>4. ASSUME NEW a \in Accounts, ApplyPendingBalance(a)
        PROVE  PreparedInRange' /\ PendingBounded'
    BY <2>4, <1>n, <1>z, Zenon DEF ApplyPendingBalance
  <2>5. ASSUME NEW a \in Accounts, EmptyAccount(a) \/ Withdraw(a)
        PROVE  PreparedInRange' /\ PendingBounded'
    BY <2>5, <1>n, <1>f, Zenon DEF EmptyAccount, Withdraw
  <2> QED
    BY <1>5, <2>1, <2>2, <2>3, <2>4, <2>5, Zenon DEF BalanceStep
<1>6. CASE TransferStep
  <2>1. ASSUME NEW s \in Accounts, NEW d \in Accounts, NEW x \in TransferSums, NEW o,
               PrepareTransfer(s, d, x, o)
        PROVE  PreparedInRange' /\ PendingBounded'
    <3> DEFINE data == transfer_split_proof_data(s, d, x, o)
    <3>1. DepositAllowed(x) /\ Prepare(s, data)
        BY <2>1, Zenon DEF PrepareTransfer
    <3>2. DataInRange(data)
        BY <3>1, PreparedDataInRange, ParametersAssumption, Zenon DEF ParametersAssumption, ContextsProved
    <3> HIDE DEF data
    <3>3. prepared' = [prepared EXCEPT ![s] = data] /\ UNCHANGED pendingVars
        BY <3>1, Zenon DEF Prepare
    <3> QED
        BY <3>2, <3>3, <1>f, PreparedUpdated, Zenon
  <2>2. ASSUME NEW s \in Accounts, NEW d \in Accounts, Transfer(s, d)
        PROVE  PreparedInRange' /\ PendingBounded'
    <3>1. /\ prepared[s].kind = "transfer" /\ Receive(s, d, prepared[s])
          /\ prepared' = [prepared EXCEPT ![s] = Nothing]
        BY <2>2, Zenon DEF Transfer
    <3>2. PartsInRange(prepared[s])
        BY <3>1, Zenon DEF PreparedInRange, DataInRange, PartsInRange
    <3> QED
        BY <3>1, <3>2, <1>n, ReceiveKeepsBound, Zenon
  <2> QED
    BY <1>6, <2>1, <2>2, Zenon DEF TransferStep
<1>7. CASE SplitStep
  <2>1. ASSUME NEW s \in Accounts, NEW d \in Accounts, NEW o, NEW close \in BOOLEAN,
               TransferWithSplitProofs(s, d, o, close)
        PROVE  PreparedInRange' /\ PendingBounded'
    <3>1. /\ ProofsAccepted(contexts[s]) /\ Receive(s, d, contexts[s])
          /\ prepared' = [prepared EXCEPT ![s] = Nothing]
        BY <2>1, Zenon DEF TransferWithSplitProofs
    <3>2. PartsInRange(contexts[s])
        BY <3>1, AcceptedPartsInRange, Zenon
    <3> QED
        BY <3>1, <3>2, <1>n, ReceiveKeepsBound, Zenon
  <2>2. ASSUME NEW s \in Accounts, NEW d \in Accounts, TransferWaits(s, d)
        PROVE  PreparedInRange' /\ PendingBounded'
    BY <2>2, <1>f, <1>g, Zenon DEF TransferWaits, vars, clientVars
  <2>3. ASSUME NEW s \in Accounts, NEW k \in ContextKinds, NEW ctx,
               StoreContext(s, k, ctx) \/ CloseContext(s, k)
        PROVE  PreparedInRange' /\ PendingBounded'
    BY <2>3, <1>f, <1>g, Zenon DEF StoreContext, CloseContext
  <2> QED
    BY <1>7, <2>1, <2>2, <2>3, Zenon DEF SplitStep
<1>8. CASE WithheldStep
  <2>1. ASSUME NEW d \in Accounts, NEW withheld, NEW o, PrepareWithdrawWithheld(d, withheld, o)
        PROVE  PreparedInRange' /\ PendingBounded'
    BY <2>1, <1>o, Zenon DEF PrepareWithdrawWithheld
  <2>2. ASSUME NEW accounts, HarvestWithheldTokensToMint(accounts)
        PROVE  PreparedInRange' /\ PendingBounded'
    BY <2>2, <1>f, <1>g, Zenon DEF HarvestWithheldTokensToMint, clientVars
  <2>3. ASSUME NEW accounts, NEW d \in Accounts,
               \/ WithdrawWithheldTokensFromMint(d)
               \/ WithdrawWithheldTokensFromAccounts(d, accounts)
        PROVE  PreparedInRange' /\ PendingBounded'
    BY <2>3, <1>f, <1>n, Zenon DEF WithdrawWithheldTokensFromMint, WithdrawWithheldTokensFromAccounts,
        CreditWithheld
  <2> QED
    BY <1>8, <2>1, <2>2, <2>3, Zenon DEF WithheldStep
<1> QED
    BY <1>1, <1>2, <1>3, <1>4, <1>5, <1>6, <1>7, <1>8, Zenon DEF Next

(* Every part of a pending balance stays below its limit for each of the   *)
(* credits that ApplyPendingBalance has not yet taken, so that the account *)
(* owner can decrypt it: whatever deposits and transfers there were, with  *)
(* one proof or with contexts that anyone stored.                          *)
THEOREM PendingBalancesFit == Spec => []PendingFitsDecryption
<1>1. Init => PendingInv
  <2> SUFFICES ASSUME Init PROVE PendingInv
    BY Zenon
  <2>1. ContextsProved
    BY Zenon DEF Init, ContextsProved
  <2>2. PreparedInRange
    BY Zenon DEF Init, PreparedInRange, Nothing
  <2>3. (LoLimit - 1) * 0 = 0 /\ (HiLimit - 1) * 0 = 0
    BY LimitsAssumption DEF LimitsAssumption
  <2>4. PendingBounded
    BY <2>3 DEF Init, PendingBounded, PendingFitsDecryption, Zeroed
  <2> QED
    BY <2>1, <2>2, <2>4, Zenon DEF PendingInv
<1>2. PendingInv /\ [Next]_vars => PendingInv'
    BY PendingStep, ContextsStayProved, Zenon DEF PendingInv
<1>3. PendingInv => PendingFitsDecryption
    BY Zenon DEF PendingInv, PendingBounded
<1> QED
    BY <1>1, <1>2, <1>3, PTL DEF Spec
=============================================================================
