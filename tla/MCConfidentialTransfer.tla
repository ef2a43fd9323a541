----------------------- MODULE MCConfidentialTransfer -----------------------
(***************************************************************************)
(* ConfidentialTransfer on small instances.  A behaviour follows one plot: *)
(* "setup" starts from nothing, "credits" from two configured accounts     *)
(* that race for each other's pending balance, "splits" from an account    *)
(* that prepares several transfers, "fees" and "fee splits" from a mint    *)
(* with transfer fees, and in "any proofs" and "any fee proofs" the        *)
(* account's contexts are anything that can be proved.  Two plots are      *)
(* about formats, on variables of their own: the bytes of an account that  *)
(* gets its extensions (ExtensionTlv), and the instructions on their way   *)
(* from a client to the program (TokenInstruction).                        *)
(***************************************************************************)
EXTENDS ConfidentialTransfer

CONSTANTS a1, a2, Plots

VARIABLES plot, tlv_data, tlv_written, wire_calls, wire_tx, wire_read

formatVars == <<tlv_data, tlv_written, wire_calls, wire_tx, wire_read>>
mcVars == <<vars, plot, formatVars>>

(* The lengths of the extensions, some of them empty, one longer; a mint   *)
(* is shorter than an account, and a multisig is as long as an account     *)
(* with extensions may be.                                                 *)
Lengths == [t \in {1, 4, 16, 9, 18} \cup {2, 5, 7, 8, 13, 17} |->
               CASE t \in {9, 13, 7} -> 0 [] t = 5 -> 2 [] OTHER -> 1]
Tlv == INSTANCE ExtensionTlv
       WITH data <- tlv_data, written <- tlv_written, ByteBase <- 5, MINT_LEN <- 1, ACCOUNT_LEN <- 3,
            MULTISIG_LEN <- 14, TypeLen <- Lengths, Bytes <- {1, 2}, MetadataLens <- {0, 1, 3}, MaxLen <- 22

(* A byte counts two source accounts at most; a proof is at most two       *)
(* instructions away.                                                      *)
Wire == INSTANCE TokenInstruction
        WITH calls <- wire_calls, tx <- wire_tx, read <- wire_read,
             Signers <- {<<>>, <<"s1">>, <<"s1", "s2">>},
             Sources <- {<<>>, <<"a1">>, <<"a1", "a2">>, <<"a1", "a2", "a3">>},
             Offsets <- {-1, 1, 2}, U8_MAX <- 2

-----------------------------------------------------------------------------
Halves == [basis_points |-> 2, maximum_fee |-> 1]
Quarters == [basis_points |-> 1, maximum_fee |-> 2]
MCFees == {Halves, Quarters}

(* Contexts about amounts that are hidden with the opening 1: also about   *)
(* negative ones, and ranges for other numbers of bits.                    *)
Grouped(v) == [v |-> v, r |-> 1, h1 |-> 1, h2 |-> 1]
Equalities(balances) ==
    {[pubkey |-> CHOOSE k \in ElGamalKeys : TRUE, commitment |-> [v |-> b, r |-> 1],
      ciphertext |-> [v |-> b, r |-> -3, h |-> -3]] : b \in balances}
Validities(los, his, key, other) ==
    {[destination_pubkey |-> key, auditor_pubkey |-> other, grouped_ciphertext_lo |-> Grouped(lo),
      grouped_ciphertext_hi |-> Grouped(hi)] : lo \in los, hi \in his}
Ranges(balances, los, his) ==
    {[commitments |-> <<[v |-> b, r |-> 1], [v |-> lo, r |-> 1], [v |-> hi, r |-> 1]>>,
      bit_lengths |-> bits] :
         b \in balances, lo \in los, hi \in his, bits \in {<<4, 2, 2>>, <<2, 4, 2>>, <<2, 2, 4>>}}
FeeRanges(balances, los, his) ==
    {[commitments |-> <<[v |-> b, r |-> 1], [v |-> lo, r |-> 1], [v |-> hi, r |-> 1],
                        [v |-> claimed, r |-> 1], [v |-> 4 - claimed, r |-> -1],
                        [v |-> fee_lo, r |-> 1], [v |-> fee_hi, r |-> 1]>>,
      bit_lengths |-> <<4, 2, 2, 8, 8, 2, 2>>] :
         b \in balances, lo \in los, hi \in his, claimed \in 0 .. 4, fee_lo, fee_hi \in 0 .. 1}
Sigmas ==
    {[fee_commitment |-> [v |-> f, r |-> 3], delta_commitment |-> [v |-> d, r |-> 6],
      claimed_commitment |-> [v |-> claimed, r |-> 1], max_fee |-> 1] :
         f \in 0 .. 2, d \in -4 .. 4, claimed \in 0 .. 4}

Key == CHOOSE k \in ElGamalKeys : TRUE
Auditor == CHOOSE k \in Auditors : TRUE
Pool ==
    [k \in ContextKinds |->
        CASE k = "equality" -> Equalities(-2 .. 3)
          [] k = "validity" -> Validities(0 .. 3, -1 .. 2, Key, Auditor)
          [] k = "range" -> Ranges(-1 .. 3, 0 .. 3, -1 .. 2) \cup FeeRanges(0 .. 1, 0 .. 1, {1})
          [] k = "sigma" -> Sigmas
          [] k = "fee_validity" -> Validities(0 .. 1, 0 .. 1, Key, WithdrawKey)]

Funded == [Zeroed EXCEPT !.v = 3]

(* Two configured accounts, the first with three tokens: in the open, or   *)
(* available after a deposit that was applied.                             *)
Configured(extensions, available) ==
    /\ mint_extensions = extensions /\ mint_live = TRUE /\ auto_approve = TRUE
    /\ auditor = CHOOSE k \in Auditors : TRUE
    /\ harvest_to_mint_enabled = ("TransferFeeConfig" \in extensions)
    /\ mint_withheld = Zeroed
    /\ fee = Halves /\ supply = 3
    /\ state = [a \in Accounts |-> "initialized"]
    /\ amount = [a \in Accounts |-> IF a = a1 THEN 3 - available.v ELSE 0]
    /\ withheld_amount = [a \in Accounts |-> 0]
    /\ configured = [a \in Accounts |-> TRUE] /\ approved = [a \in Accounts |-> TRUE]
    /\ elgamal_pubkey = [a \in Accounts |-> CHOOSE k \in ElGamalKeys : TRUE]
    /\ pending_balance_lo = [a \in Accounts |-> Zeroed]
    /\ pending_balance_hi = [a \in Accounts |-> Zeroed]
    /\ available_balance = [a \in Accounts |-> IF a = a1 THEN available ELSE Zeroed]
    /\ decryptable_available_balance = [a \in Accounts |-> available_balance[a].v]
    /\ allow_confidential_credits = [a \in Accounts |-> TRUE]
    /\ allow_non_confidential_credits = [a \in Accounts |-> TRUE]
    /\ pending_balance_credit_counter = [a \in Accounts |-> 0]
    /\ expected_pending_balance_credit_counter = [a \in Accounts |-> 0]
    /\ actual_pending_balance_credit_counter = [a \in Accounts |-> 0]
    /\ confidential_withheld = [a \in Accounts |-> Zeroed]
    /\ prepared = [a \in Accounts |-> Nothing]
    /\ contexts = [a \in Accounts |-> [k \in ContextKinds |-> Nothing]]
    /\ astray = [a \in Accounts |-> FALSE]

MCInit ==
    /\ plot \in Plots
    /\ Wire!WireInit
    /\ IF plot = "formats" THEN Tlv!TlvInit ELSE tlv_data = <<>> /\ tlv_written = Tlv!None
    /\ CASE plot = "setup" -> Init
         [] plot \in {"credits", "formats", "wire"} -> Configured({"ConfidentialTransferMint"}, Zeroed)
         [] plot \in {"splits", "any proofs"} -> Configured({"ConfidentialTransferMint"}, Funded)
         [] plot \in {"fees", "fee splits", "any fee proofs"} -> Configured(Extension, Funded)

In(plots) == plot \in plots /\ UNCHANGED plot

(* Bounds of a plot: in "splits" and in "fees" the accounts have different *)
(* parts to play, and only in "splits" are amounts hidden in several ways. *)
Modest ==
    /\ plot = "setup" => state'[a2] = "none" /\ supply' <= 1
    /\ plot # "setup" => UNCHANGED <<state, configured, approved, elgamal_pubkey, supply>>
    /\ plot # "splits" =>
           \A a \in Accounts :
               /\ prepared'[a].kind = "transfer" => prepared'[a].handle = 1
               /\ prepared'[a].kind = "withheld" => prepared'[a].destination_ciphertext.r = 1
    /\ plot = "credits" => available_balance'[a1].r <= 0 /\ available_balance'[a2].r >= 0
    /\ plot \in {"splits", "fee splits"} => prepared'[a2] = Nothing
    /\ plot = "fee splits" /\ prepared'[a1].kind = "transfer" => prepared'[a1].decryptable < 2
    /\ plot = "fees" => /\ prepared'[a1].kind \in {"nothing", "transfer", "withdraw"}
                        /\ prepared'[a2].kind \in {"nothing", "withheld", "apply"}
    /\ \A a \in Accounts : available_balance'[a].r \in -3 .. 3

(* Contexts are stored in one order; where there are fees, only those      *)
(* about the amounts of the range proof.                                   *)
First(k) ==
    CASE k = "equality" -> {} [] k = "validity" -> {"equality"}
      [] k = "range" -> {"equality", "validity"}
      [] k = "fee_validity" -> {"range"} [] k = "sigma" -> {"fee_validity"}

Related(c) ==
    LET committed == c.range.commitments
    IN  /\ Len(committed) = 7
        /\ committed[1] = c.equality.commitment
        /\ committed[2].v = c.validity.grouped_ciphertext_lo.v
        /\ committed[3].v = c.validity.grouped_ciphertext_hi.v
        /\ c.sigma # Nothing => committed[4] = c.sigma.claimed_commitment

StoreAny ==
    \E k \in NeededKinds : \E ctx \in ContextPool[k] :
        /\ \A j \in First(k) : contexts[a1][j] # Nothing
        /\ k = "equality" => \A j \in ContextKinds : contexts[a1][j] = Nothing
        /\ StoreContext(a1, k, ctx)
        /\ WithFee /\ contexts'[a1].range # Nothing => Related(contexts'[a1])

Split(s) ==
    \/ \E k \in ContextKinds :
           \/ prepared[s].kind = "transfer" /\ k \in NeededKinds /\ StoreContext(s, k, prepared[s][k])
           \/ CloseContext(s, k)
    \/ \E d \in Accounts :
           \/ TransferWaits(s, d)
           \/ \E o \in Openings, close \in BOOLEAN : TransferWithSplitProofs(s, d, o, close)

ConfidentialNext ==
    /\ \/ In({"setup"}) /\ (MintStep \/ BaseStep \/ SetupStep)
       \/ In({"setup", "credits", "fees"}) /\ BalanceStep
       \/ /\ In({"credits", "fees"})
          /\ TransferStep \/ \E s, d \in Accounts, x \in TransferSums : OpenTransfer(s, d, x)
       \/ In({"splits", "fee splits"}) /\ (TransferStep \/ \E s \in Accounts : Split(s))
       \/ In({"any proofs", "any fee proofs"})
              /\ (StoreAny \/ \E d \in Accounts : TransferWithSplitProofs(a1, d, 1, FALSE))
       \/ In({"fees"}) /\ WithheldStep
       \/ In({"fees", "fee splits"}) /\ \E new \in Fees : FeeChanges(new)
    /\ Modest

MCNext ==
    \/ ConfidentialNext /\ UNCHANGED formatVars
    \/ In({"formats"}) /\ Tlv!TlvNext /\ UNCHANGED <<vars, wire_calls, wire_tx, wire_read>>
    \/ In({"wire"}) /\ Wire!WireNext /\ UNCHANGED <<vars, tlv_data, tlv_written>>

MCSpec == MCInit /\ [][MCNext]_mcVars
-----------------------------------------------------------------------------
(* extension/mod.rs: whatever extensions were initialized, configured,     *)
(* grown and shrunk, in any order and with any reallocation, an account's  *)
(* bytes read back as the map from its extensions to what was last written. *)
EntriesAreAMap == plot = "formats" => Tlv!EntriesAreAMap

(* The builders of instruction.rs and of the extensions against the        *)
(* handlers of processor.rs: every account is taken for what the client    *)
(* gave it as, every field is read as it was written, and the proof and    *)
(* the signatures are found, but for the calls that Disagree names.        *)
ReadAsSent == plot = "wire" => Wire!ReadAsSent

(* confidential_transfer/instruction.rs:230: the accounts of a transfer    *)
(* are "The source SPL Token account", "The token mint", "The destination  *)
(* SPL Token account", in this order, whichever builder is used.           *)
TransferAsDocumented == Wire!TransferAsDocumented
=============================================================================
