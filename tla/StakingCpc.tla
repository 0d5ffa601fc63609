----------------------------- MODULE StakingCpc -----------------------------
(***************************************************************************)
(* The staking precompile (x/cpc/keeper/precompiles_staking.go).  Its      *)
(* methods call the message servers of x/staking and x/distribution, and   *)
(* derive the EVM logs from the SDK events found in the event manager      *)
(* afterwards: those beyond the number of events there were before.        *)
(*                                                                         *)
(* One transaction makes several calls, and a frame may be reverted after  *)
(* the calls in it returned.  Whether the context of a frame has an event  *)
(* manager of its own or shares its parent's is up to the SDK: in a shared *)
(* one the events of calls that failed and of reverted frames stay.        *)
(*                                                                         *)
(* Stake is counted in tokens, at an exchange rate of one (no slashing);   *)
(* what is undelegated leaves the model.                                   *)
(***************************************************************************)
EXTENDS Integers, SequencesExt, FiniteSets

CONSTANTS Delegators,      \* accounts that call the contract
          Validators,      \* numbers, in the order of the operator addresses
          SelfBond,        \* validator -> tokens of others
          WithdrawTo,      \* delegator -> its withdraw address
          Coins,           \* delegator -> coins at the start
          MinReward,       \* minimumRewardWithdrawalAmount
          MaxAmount,       \* bound: the amount of a call
          MaxRewards,      \* bound: rewards allocated
          MaxCalls         \* bound: calls of one transaction

ASSUME StakingAssumption ==
    /\ Validators \subseteq Nat /\ IsFiniteSet(Validators) /\ IsFiniteSet(Delegators)
    /\ SelfBond \in [Validators -> Nat] /\ Coins \in [Delegators -> Nat]
    /\ WithdrawTo \in [Delegators -> Delegators]
    /\ {MinReward, MaxAmount, MaxRewards, MaxCalls} \subseteq Nat

VARIABLES stake,           \* balances, delegations, rewards, rewards paid
          bonded,          \* validators in the active set
          manager,         \* staking events in the event manager
          shared,          \* frames share the event manager
          followed,        \* history: what a reader of the logs derives
          frame,           \* what an open frame is reverted to, if any
          calls,           \* calls made by this transaction
          allocated        \* rewards allocated so far

stakingVars ==
    <<stake, bonded, manager, shared, followed, frame, calls, allocated>>

None == [d \in Delegators |-> [v \in Validators |-> 0]]

(* A message or a method goes on from a state, or fails there.             *)
Done(s) == [ok |-> TRUE, s |-> s]
Fail(s) == [ok |-> FALSE, s |-> s]
Then(result, Step(_)) == IF result.ok THEN Step(result.s) ELSE result

(***************************************************************************)
(* x/distribution and x/staking, as the methods use them.                  *)
(***************************************************************************)
Event(type, d, v, w, n) == [type |-> type, d |-> d, v |-> v, w |-> w, n |-> n]
Emitted(s, e) == [s EXCEPT !.events = Append(@, e)]

(* It pays the withdraw address, and reports a zero as well.               *)
WithdrawDelegatorReward(s, d, v) ==
    IF s.del[d][v] = 0 THEN Fail(s)
    ELSE Done(Emitted([s EXCEPT !.bal[WithdrawTo[d]] = @ + s.rew[d][v],
                                !.rew[d][v] = 0,
                                !.paid[d][v] = @ + s.rew[d][v]],
                      Event("withdraw_rewards", d, v, v, s.rew[d][v])))

(* The hook of x/distribution on a delegation that is about to change.     *)
BeforeSharesModified(s, d, v) ==
    IF s.del[d][v] = 0 THEN Done(s) ELSE WithdrawDelegatorReward(s, d, v)

MsgDelegate(s0, d, v, n) ==
    Then(BeforeSharesModified(s0, d, v), LAMBDA s :
        IF s.bal[d] < n THEN Fail(s)
        ELSE Done(Emitted([s EXCEPT !.bal[d] = @ - n, !.del[d][v] = @ + n],
                          Event("delegate", d, v, v, n))))

MsgUndelegate(s0, d, v, n) ==
    IF s0.del[d][v] < n THEN Fail(s0)
    ELSE Then(BeforeSharesModified(s0, d, v), LAMBDA s :
        Done(Emitted([s EXCEPT !.del[d][v] = @ - n], Event("unbond", d, v, v, n))))

MsgBeginRedelegate(s0, d, v, w, n) ==
    IF v = w \/ s0.del[d][v] < n THEN Fail(s0)
    ELSE Then(BeforeSharesModified(s0, d, v), LAMBDA s :
         Then(BeforeSharesModified(s, d, w), LAMBDA t :
        Done(Emitted([t EXCEPT !.del[d][v] = @ - n, !.del[d][w] = @ + n],
                     Event("redelegate", d, v, w, n)))))

(***************************************************************************)
(* The logs.                                                               *)
(***************************************************************************)
StakingLog(type, d, v, n) == [type |-> type, d |-> d, v |-> v, n |-> n]

(* The logs of an event: none for a zero amount.  The event of a           *)
(* redelegation does not name the delegator.                               *)
LogsOf(e, delegator) ==
    CASE e.n = 0 -> <<>>
      [] e.n > 0 /\ e.type = "delegate" -> <<StakingLog("Delegate", e.d, e.v, e.n)>>
      [] e.n > 0 /\ e.type = "unbond" -> <<StakingLog("Undelegate", e.d, e.v, e.n)>>
      [] e.n > 0 /\ e.type = "redelegate" ->
            <<StakingLog("Undelegate", delegator, e.v, e.n),
              StakingLog("Delegate", delegator, e.w, e.n)>>
      [] e.n > 0 /\ e.type = "withdraw_rewards" ->
            <<StakingLog("WithdrawReward", e.d, e.v, e.n)>>

(* Mutant: all events of the manager are translated, not the new ones.     *)
autoEmitEvents_All(s, original, delegator) ==
    IF Len(s.events) <= original THEN Fail(s)
    ELSE Done([s EXCEPT !.logs =
            FlattenSeq([i \in 1..Len(s.events) |-> LogsOf(s.events[i], delegator)])])

(* autoEmitEventsFromSdkEvents: without a new event it fails, and with it  *)
(* the call.                                                               *)
autoEmitEvents(s, original, delegator) ==
    LET new == SubSeq(s.events, original + 1, Len(s.events))
    IN  IF new = <<>> THEN Fail(s)
        ELSE Done([s EXCEPT !.logs =
                FlattenSeq([i \in 1..Len(new) |-> LogsOf(new[i], delegator)])])

(***************************************************************************)
(* The methods.                                                            *)
(***************************************************************************)

(* withdrawRewards: the validators are chosen before the first payment.    *)
withdrawRewards(s, d) ==
    LET worthy == {v \in Validators : s.del[d][v] > 0 /\ s.rew[d][v] >= MinReward}
        total == FoldFunction(+, 0, s.rew[d])
    IN  IF total = 0 THEN Done(s)
        ELSE FoldLeft(LAMBDA r, v : Then(r, LAMBDA t : WithdrawDelegatorReward(t, d, v)),
                      Done(s), SetToSortSeq(worthy, <))

Tokens(s, v) == SelfBond[v] + FoldSet(LAMBDA d, n : n + s.del[d][v], 0, Delegators)

(* validatorSortFunc: by tokens, then by operator.                         *)
ByPower(s, V) ==
    SetToSortSeq(V, LAMBDA v, w : \/ Tokens(s, v) < Tokens(s, w)
                                  \/ Tokens(s, v) = Tokens(s, w) /\ v < w)

(* Who receives the delegation of a transfer: the validator of middle      *)
(* power for a new delegator, otherwise its weakest active one.            *)
SelectedValidator(s, d) ==
    LET own == {v \in bonded : s.del[d][v] > 0}
        all == ByPower(s, bonded)
    IN  IF own # {} THEN ByPower(s, own)[1] ELSE all[(Len(all) \div 2) + 1]

(* transfer to oneself: the rewards are withdrawn, the amount delegated.   *)
transferToSelf(s0, d, n) ==
    Then(withdrawRewards(s0, d), LAMBDA s :
        IF s.bal[d] < n \/ bonded = {} THEN Fail(s)
        ELSE MsgDelegate(s, d, SelectedValidator(s, d), n))

(* A reader of the logs books them on the delegations it knew.             *)
Follow(f, log) ==
    CASE log.type = "Delegate" -> [f EXCEPT !.del[log.d][log.v] = @ + log.n]
      [] log.type = "Undelegate" -> [f EXCEPT !.del[log.d][log.v] = @ - log.n]
      [] log.type = "WithdrawReward" -> [f EXCEPT !.paid[log.d][log.v] = @ + log.n]

(* What the context of a call has in its event manager.                    *)
Before == IF shared THEN manager ELSE <<>>
Start == [bal |-> stake.bal, del |-> stake.del, rew |-> stake.rew, paid |-> stake.paid,
          events |-> Before, logs |-> <<>>]

(* A call by d: the method, its logs, and the EVM's revert on an error.    *)
Invoke(d, result) ==
    LET end == Then(result, LAMBDA s : autoEmitEvents(s, Len(Before), d))
    IN  /\ calls < MaxCalls
        /\ calls' = calls + 1
        /\ manager' = IF shared THEN end.s.events ELSE <<>>
        /\ IF end.ok
           THEN /\ stake' = [bal |-> end.s.bal, del |-> end.s.del,
                             rew |-> end.s.rew, paid |-> end.s.paid]
                /\ followed' = FoldLeft(Follow, followed, end.s.logs)
           ELSE UNCHANGED <<stake, followed>>
        /\ UNCHANGED <<bonded, shared, frame, allocated>>

delegate(d, v, n) == Invoke(d, MsgDelegate(Start, d, v, n))

undelegate(d, v, n) == Invoke(d, MsgUndelegate(Start, d, v, n))

redelegate(d, v, w, n) == Invoke(d, MsgBeginRedelegate(Start, d, v, w, n))

withdrawReward(d, v) == Invoke(d, WithdrawDelegatorReward(Start, d, v))

withdrawAllRewards(d) == Invoke(d, withdrawRewards(Start, d))

transferStake(d, n) == Invoke(d, transferToSelf(Start, d, n))

(* The methods that take a signed message: it must be the caller's own and *)
(* signed by it, and then does what the method without a message does.     *)
delegateByActionMessage(caller, m) ==
    /\ caller = m.delegator /\ m.signer = m.delegator
    /\ \/ m.action = "Delegate" /\ delegate(caller, m.validator, m.amount)
       \/ m.action = "Undelegate" /\ undelegate(caller, m.validator, m.amount)
       \/ m.action = "Redelegate" /\ redelegate(caller, m.oldValidator, m.validator, m.amount)

withdrawRewardsByMessage(caller, m) ==
    /\ caller = m.delegator /\ m.signer = m.delegator
    /\ IF m.from = "all" THEN withdrawAllRewards(caller) ELSE withdrawReward(caller, m.validator)

(* A contract is called, which calls the precompile; it reverts or returns.*)
EnterFrame ==
    /\ frame = <<>> /\ calls < MaxCalls
    /\ frame' = <<[stake |-> stake, followed |-> followed]>>
    /\ UNCHANGED <<stake, bonded, manager, shared, followed, calls, allocated>>

RevertFrame ==
    /\ frame # <<>>
    /\ stake' = frame[1].stake /\ followed' = frame[1].followed
    /\ frame' = <<>>
    /\ UNCHANGED <<bonded, manager, shared, calls, allocated>>

(* The transaction ends; the next one has an event manager of its own.     *)
EndTransaction ==
    /\ calls > 0
    /\ calls' = 0 /\ frame' = <<>> /\ manager' = <<>>
    /\ UNCHANGED <<stake, bonded, shared, followed, allocated>>

(* Between transactions, a block allocates a reward.                       *)
AllocateReward(d, v) ==
    /\ calls = 0 /\ frame = <<>> /\ allocated < MaxRewards /\ stake.del[d][v] > 0
    /\ stake' = [stake EXCEPT !.rew[d][v] = @ + 1]
    /\ allocated' = allocated + 1
    /\ UNCHANGED <<bonded, manager, shared, followed, frame, calls>>

StakingInit ==
    /\ stake = [bal |-> Coins, del |-> None, rew |-> None, paid |-> None]
    /\ followed = [del |-> None, paid |-> None]
    /\ bonded \in SUBSET Validators
    /\ shared \in BOOLEAN
    /\ manager = <<>> /\ frame = <<>> /\ calls = 0 /\ allocated = 0

ActionMessages ==
    [delegator : Delegators, signer : Delegators, validator : Validators, amount : 1..MaxAmount,
     oldValidator : Validators, action : {"Delegate", "Undelegate", "Redelegate"}]
WithdrawMessages ==
    [delegator : Delegators, signer : Delegators, validator : Validators, from : {"all", "one"}]

StakingNext ==
    \/ \E d \in Delegators, v \in Validators, n \in 1..MaxAmount :
            \/ delegate(d, v, n)
            \/ undelegate(d, v, n)
            \/ \E w \in Validators : redelegate(d, v, w, n)
    \/ \E d \in Delegators, v \in Validators : withdrawReward(d, v) \/ AllocateReward(d, v)
    \/ \E d \in Delegators : withdrawAllRewards(d)
    \/ \E d \in Delegators, n \in 1..MaxAmount : transferStake(d, n)
    \/ \E d \in Delegators, m \in ActionMessages : delegateByActionMessage(d, m)
    \/ \E d \in Delegators, m \in WithdrawMessages : withdrawRewardsByMessage(d, m)
    \/ EnterFrame \/ RevertFrame \/ EndTransaction

StakingSpec == StakingInit /\ [][StakingNext]_stakingVars

(***************************************************************************)
(* Properties.                                                             *)
(***************************************************************************)

(* The logs of the staking contract tell exactly what happened: a reader   *)
(* that books Delegate, Undelegate and WithdrawReward has the delegations  *)
(* of x/staking and the rewards x/distribution paid.  Calls of several     *)
(* callers in one transaction, calls that failed half-way and frames that  *)
(* were reverted, whose SDK events may still be in the event manager, and  *)
(* rewards that the hooks pay on the side are all accounted for.           *)
StakingLogged == followed.del = stake.del /\ followed.paid = stake.paid

=============================================================================
