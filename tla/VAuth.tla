------------------------------- MODULE VAuth -------------------------------
(***************************************************************************)
(* Who may become a vesting account: the proofs of x/vauth and the three   *)
(* guards of the cosmos lane of the ante handler (app/antedl/cosmoslane).  *)
(* A vesting account is created for an address nobody asked, so the chain  *)
(* wants a signature of its key first.                                     *)
(*                                                                         *)
(* A transaction is a sequence of messages.  A message carries the number  *)
(* of lists it is nested in: 1 for a message of the transaction itself, 2  *)
(* for one inside a MsgExec of x/authz, and so on; a MsgExec of several    *)
(* messages passes and does the same as several of one message each.  Only *)
(* the owner of a key signs with it.                                       *)
(***************************************************************************)
EXTENDS Naturals, FiniteSets, Sequences

CONSTANTS Holders,         \* addresses
          Eoas,            \* those that belong to a key
          Funds,           \* address -> balance, in CostSubmitProof
          MaxMessages,     \* bound: messages of a transaction
          MaxLevel         \* bound: nesting of a message

ASSUME VAuthAssumption ==
    /\ IsFiniteSet(Holders) /\ Eoas \subseteq Holders
    /\ Funds \in [Holders -> Nat]
    /\ {MaxMessages, MaxLevel} \subseteq Nat

VARIABLES proven,          \* accounts with a stored proof
          vesting,         \* vesting accounts
          funds,           \* address -> balance
          destroyed        \* fees burned

vauthVars == <<proven, vesting, funds, destroyed>>

(* DisabledNestedMsgs; the three vesting messages are one type here.       *)
DisabledNestedMsgs == {"MsgEthereumTx", "MsgCreateVestingAccount"}
isDisabledMsg(url) == url \in DisabledNestedMsgs
maxNestedLevelsCount == 3

Messages ==
    LET Of(types, by, accounts, signers, lower, urls) ==
            [level : 1..MaxLevel, type : types, by : by, account : accounts,
             signer : signers, lower : lower, url : urls]
        one == CHOOSE a \in Eoas : TRUE
    IN  Of({"MsgSubmitProof"}, Eoas, Holders, Eoas, BOOLEAN, {"none"})
        \cup Of({"MsgCreateVestingAccount"}, {one}, Holders, {one}, {TRUE}, {"none"})
        \cup Of({"MsgEthereumTx"}, {one}, {one}, {one}, {TRUE}, {"none"})
        \cup Of({"MsgGrant"}, {one}, {one}, {one}, {TRUE}, DisabledNestedMsgs \cup {"MsgSend"})

Transactions == UNION {[1..n -> Messages] : n \in 1..MaxMessages}

HasSingleEthereumMessage(tx) ==
    Len(tx) = 1 /\ tx[1].level = 1 /\ tx[1].type = "MsgEthereumTx"

(* 991c: no Ethereum message among the messages.                           *)
RejectEthereumMsgs(tx) ==
    \E i \in DOMAIN tx : tx[i].level = 1 /\ tx[i].type = "MsgEthereumTx"

(* Mutant: the messages directly inside a MsgExec are not taken as nested. *)
checkDisabledMsgs_SkipsFirst(m) ==
    \/ m.level > maxNestedLevelsCount
    \/ m.type = "MsgGrant" /\ isDisabledMsg(m.url)
    \/ m.type # "MsgGrant" /\ m.level > 2 /\ isDisabledMsg(m.type)

(* 992c, for one message: nested too deep, or a grant of a disabled        *)
(* message, or a disabled message that is nested.                          *)
checkDisabledMsgs(m) ==
    \/ m.level > maxNestedLevelsCount
    \/ m.type = "MsgGrant" /\ isDisabledMsg(m.url)
    \/ m.type # "MsgGrant" /\ m.level > 1 /\ isDisabledMsg(m.type)

RejectAuthzMsgs(tx) == \E i \in DOMAIN tx : checkDisabledMsgs(tx[i])

(* 993c: a vesting message of the transaction for an account that has no   *)
(* proof, before any message of the transaction ran.                       *)
RejectVestingMsgs(tx) ==
    \E i \in DOMAIN tx :
        /\ tx[i].level = 1 /\ tx[i].type = "MsgCreateVestingAccount"
        /\ tx[i].account \notin proven

Accepted(tx) == ~RejectEthereumMsgs(tx) /\ ~RejectAuthzMsgs(tx) /\ ~RejectVestingMsgs(tx)

(***************************************************************************)
(* The message servers.                                                    *)
(***************************************************************************)
VState == [proven |-> proven, vesting |-> vesting, funds |-> funds, burned |-> destroyed]
Ran(s) == [ok |-> TRUE, s |-> s]
Failed(s) == [ok |-> FALSE, s |-> s]

(* The signature must recover the account; both ValidateBasic test it.     *)
VerifySignature(account, signer) == signer = account

(* SubmitProofExternalOwnedAccount.  A signature in upper case passes the  *)
(* message's ValidateBasic and not the proof's, which panics after the fee *)
(* was taken: the transaction fails as a whole.                            *)
SubmitProof(s, m) ==
    IF \/ m.by = m.account
       \/ ~VerifySignature(m.account, m.signer)
       \/ m.account \in s.proven
       \/ s.funds[m.by] = 0
       \/ ~m.lower
    THEN Failed(s)
    ELSE Ran([s EXCEPT !.funds[m.by] = @ - 1, !.burned = @ + 1, !.proven = @ \cup {m.account}])

(* x/auth/vesting: only for an address without an account.                 *)
CreateVestingAccount(s, m) ==
    IF Funds[m.account] > 0 \/ m.account \in s.vesting THEN Failed(s)
    ELSE Ran([s EXCEPT !.vesting = @ \cup {m.account}])

Handle(result, m) ==
    IF ~result.ok THEN result
    ELSE CASE m.type = "MsgSubmitProof" -> SubmitProof(result.s, m)
           [] m.type = "MsgCreateVestingAccount" -> CreateVestingAccount(result.s, m)
           [] OTHER -> result

(* The messages of a transaction run in turn, up to the first that fails.  *)
RunMsgs(tx) ==
    LET after[i \in 0..Len(tx)] == IF i = 0 THEN Ran(VState) ELSE Handle(after[i - 1], tx[i])
    IN  after[Len(tx)]

(* A cosmos transaction; one that is refused or fails changes nothing.     *)
DeliverCosmosTx(tx) ==
    LET result == RunMsgs(tx)
    IN  /\ ~HasSingleEthereumMessage(tx)
        /\ Accepted(tx) /\ result.ok
        /\ proven' = result.s.proven /\ vesting' = result.s.vesting
        /\ funds' = result.s.funds /\ destroyed' = result.s.burned

(* An export and a new start: x/vauth exports no proofs, the accounts stay.*)
ExportVAuth ==
    /\ proven' = {}
    /\ UNCHANGED <<vesting, funds, destroyed>>

VAuthInit ==
    /\ proven = {} /\ vesting = {} /\ destroyed = 0
    /\ funds = Funds

VAuthNext == ExportVAuth \/ \E tx \in Transactions : DeliverCosmosTx(tx)
VAuthSpec == VAuthInit /\ [][VAuthNext]_vauthVars

(***************************************************************************)
(* Properties.                                                             *)
(***************************************************************************)

(* Only an address that belongs to a key becomes a vesting account or has  *)
(* a proof, and every proof was paid for: whatever messages are combined   *)
(* in a transaction or nested in each other, also when one of them fails   *)
(* after another has run, and also after an export lost the proofs.        *)
VestingProven ==
    /\ vesting \subseteq Eoas
    /\ proven \subseteq Eoas
    /\ destroyed >= Cardinality(proven)

=============================================================================
