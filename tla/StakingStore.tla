---------------------------- MODULE StakingStore ----------------------------
(***************************************************************************)
(* The PostgreSQL tables behind the repositories, and the local variables  *)
(* of the goroutines that read a row, change the copy and write it back.   *)
(* Each repository call is one statement in a transaction of its own: the  *)
(* code opens none, so every statement is a step of the model and nothing  *)
(* is rolled back when a later one fails.                                  *)
(*                                                                         *)
(* A stake entity is named by the order in which NewStake made it, which   *)
(* is the order of created_at.  An account is a (customer, asset) pair.    *)
(* terms, stakes, balances, rewards and audit are the tables; moved and    *)
(* credited are history: which balance operations of which stake reached   *)
(* the balances table, and which rewards were added to a balance.          *)
(***************************************************************************)
EXTENDS StakingDomain, Sequences, FiniteSets, FiniteSetsExt

CONSTANTS
    Accounts,   \* (customer, asset) pairs
    Keys,       \* idempotency keys
    Amounts,    \* amounts a CreateStake request may ask for
    MaxStakes,  \* bound: stake entities ever created
    Handlers,   \* gRPC request goroutines
    Pollers,    \* RewardPoller goroutines, one per replica of the service
    PollLimit,  \* the LIMIT of ListStakesByState (100 in the code)
    NoAccount, NoKey,
    Faults      \* which of "db", "provider", "slash", "cancel", "crash" can happen

StakeIds == 1 .. MaxStakes
Actors == Handlers \cup Pollers

ASSUME StoreAssumption ==
    /\ MaxStakes \in Nat
    /\ PollLimit \in Nat
    /\ Amounts \subseteq Nat \ {0}
    /\ Handlers \cap Pollers = {}

VARIABLES
    terms,      \* stake entity -> the columns no UPDATE touches
    stakes,     \* stakes table: state and version, or NoStake
    balances,   \* balances table, or NoBalance
    rewards,    \* rewards table
    rewardSums, \* stake entity -> SUM(amount) of its rows in that table
    audit,      \* audit_events table: the set of <<entity, event>>
    moved,      \* history: stake entity -> balance operations that were saved
    credited,   \* history: <<stake, day>> of the rewards added to a balance
    work        \* actor -> its program counter and local variables

ledger == <<balances, moved, credited>>
rewardTables == <<rewards, rewardSums>>

NoTerms == [account |-> NoAccount, amount |-> 0, key |-> NoKey]
Created(i) == terms[i] # NoTerms

EmptyList == [i \in StakeIds |-> NoStake]

Idle == [pc |-> "idle", id |-> 0, account |-> NoAccount, stake |-> NoStake,
         bal |-> NoBalance, list |-> EmptyList, entries |-> <<>>, total |-> 0]

StoreInit(seeded, opening) ==
    /\ terms = [i \in StakeIds |-> NoTerms]
    /\ stakes = [i \in StakeIds |-> NoStake]
    /\ balances = [a \in Accounts |->
                     IF a \in seeded THEN [NewBalance EXCEPT !.available = opening]
                                    ELSE NoBalance]
    /\ rewards = {}
    /\ rewardSums = [i \in StakeIds |-> 0]
    /\ audit = {}
    /\ moved = [i \in StakeIds |-> {}]
    /\ credited = {}
    /\ work = [a \in Actors |-> Idle]

-----------------------------------------------------------------------------
(* Steps of a goroutine                                                    *)

At(a, pc) == work[a].pc = pc
Become(a, w) == work' = [work EXCEPT ![a] = w]
Goto(a, pc) == Become(a, [work[a] EXCEPT !.pc = pc])
Return(a) == Become(a, Idle)

\* The balance just read is changed to b, and its version, and is about to be
\* written.
Adjust(a, b, pc) == Become(a, [work[a] EXCEPT !.bal = NextVersion(b), !.pc = pc])

AmountOf(a) == terms[work[a].id].amount
DbMayFail == "db" \in Faults

-----------------------------------------------------------------------------
(* stakeRepo                                                               *)

\* INSERT INTO stakes.
InsertStakeRow(i, s) == stakes' = [stakes EXCEPT ![i] = s]

\* WHERE idempotency_key = $.
StakesWithKey(k) == {i \in StakeIds : stakes[i] # NoStake /\ terms[i].key = k}

KeyTaken(k) == StakesWithKey(k) # {}

\* Mutant: UPDATE stakes ... WHERE id = $.
StakeVersionIgnored(i, s) == TRUE

\* Mutant: UPDATE stakes ... WHERE id = $ AND version = $.
StakeVersionNotLess(i, s) == stakes[i].version = s.version

\* UPDATE stakes ... WHERE id = $ AND version = $ - 1.
StakeVersionMatches(i, s) == stakes[i].version + 1 = s.version

UpdateStake(a) ==
    LET i == work[a].id IN
    /\ StakeVersionMatches(i, work[a].stake)
    /\ stakes' = [stakes EXCEPT ![i] = work[a].stake]

UpdateStakeFails(a) ==
    /\ DbMayFail \/ ~StakeVersionMatches(work[a].id, work[a].stake)
    /\ UNCHANGED stakes

\* Mutant: the LIMIT is applied before the state is looked at.
FirstThenInState(state) == {i \in StakeIds : i <= PollLimit /\ stakes[i].state = state}

\* Mutant: ORDER BY created_at DESC.
NewestInState(state) ==
    {i \in StakeIds :
        /\ stakes[i].state = state
        /\ Cardinality({j \in StakeIds : j > i /\ stakes[j].state = state}) < PollLimit}

\* WHERE state = $ ORDER BY created_at LIMIT $.
OldestInState(state) ==
    {i \in StakeIds :
        /\ stakes[i].state = state
        /\ Cardinality({j \in StakeIds : j < i /\ stakes[j].state = state}) < PollLimit}

\* The rows as they are now.
ListByState(state) ==
    [i \in StakeIds |-> IF i \in OldestInState(state) THEN stakes[i] ELSE NoStake]

-----------------------------------------------------------------------------
(* balanceRepo                                                             *)

\* Mutant: UPDATE balances ... WHERE id = $.
BalanceVersionIgnored(acct, b) == TRUE

\* UPDATE balances ... WHERE id = $ AND version = $ - 1.
BalanceVersionMatches(acct, b) == balances[acct].version + 1 = b.version

\* INSERT ... ON CONFLICT DO UPDATE of every column, the version too.
UpsertBalanceRow(acct, b) == balances' = [balances EXCEPT ![acct] = b]

WriteBalance(a) ==
    /\ BalanceVersionMatches(work[a].account, work[a].bal)
    /\ balances' = [balances EXCEPT ![work[a].account] = work[a].bal]

\* The write of a copy that carries the balance operation op of a stake.
UpdateBalance(a, op) ==
    /\ WriteBalance(a)
    /\ moved' = [moved EXCEPT ![work[a].id] = @ \cup {op}]
    /\ UNCHANGED credited

UpdateBalanceFails(a) ==
    /\ DbMayFail \/ ~BalanceVersionMatches(work[a].account, work[a].bal)
    /\ UNCHANGED ledger

-----------------------------------------------------------------------------
(* rewardRepo and the event publisher                                      *)

\* Rows are only ever inserted, so the SUM of a stake's rows is kept as they
\* come in.
InsertReward(r) ==
    /\ rewards' = rewards \cup {r}
    /\ rewardSums' = [rewardSums EXCEPT ![r.stake] = @ + r.amount]

\* Mutant: no UNIQUE (stake_id, reward_date).
RewardNeverExists(i, d) == FALSE

RewardExists(i, d) == \E r \in rewards : r.stake = i /\ r.day = d

HasReward(i) == \E r \in rewards : r.stake = i

\* Publish inserts an audit row; the caller ignores the error.
Publish(entity, event) ==
    \/ audit' = audit \cup {<<entity, event>>}
    \/ DbMayFail /\ UNCHANGED audit
=============================================================================
