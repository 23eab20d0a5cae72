# TLA+ models of cw-sdk

This directory holds TLA+ models of the state-transition core of cw-sdk and the
TLC configurations that check them. Every action is translated from the Rust
source. `PROJECT.json` maps each definition to the lines it models. Code the
repository uses but does not contain is modelled from `spec.md` and marked
`spec_modelled`: the `Cached` store, the substore, `state.rs`, `auth.rs` and the VM's gas metering.

## 1. Inventory

### Components

| Component | Source | State | Operations |
|---|---|---|---|
| Contract message execution | `src/packages/state-machine/src/execute.rs` | none of its own: works on the `Storage` it is handed | `store_code`, `instantiate_contract`, `execute_contract`, `transfer_funds`, `sudo_contract`, `migrate_contract` (`todo!()`) |
| Cached overlay (`cw_store::Cached`) | not in repo (spec 4.1) | a pending map `key -> Put(v) / Delete` over an underlying store | `new`, `get`, `set`, `remove`, `flush`, `recycle` (drop = discard) |
| Contract substore and host ABI | not in repo (spec 4.2, 4.3) | none: a lens that adds the `addr` prefix to keys | read, write, remove, scan |
| Persisted layout, `code_by_address` | not in repo (`state.rs`, spec 6) | `CODE_COUNT`, `CODES`, `ACCOUNTS`, contract stores | load/save/update |
| Sdk state machine `State` | `src/sdk/src/state_machine.rs` | `height`, `chain_id`, `code_count`, `contract_count`, `accounts`, `codes`, `contracts`, `stores` (in-memory maps) | `init_chain`, `handle_tx`, `commit`, `info`, `handle_query` and `query_*`, and the private `store_code`, `instantiate_contract`, `execute_contract`, `migrate_contract` |
| Messages and queries | `src/sdk/src/msg.rs` | data only | `SdkMsg`, `SdkQuery`, responses |
| Authentication | not in repo (`auth.rs`) | account sequence | `authenticate_tx` |
| WASM VM | `cosmwasm_vm`, external | contract memory | `call_instantiate/execute/query/sudo`, `recycle` |
| Token factory contract | `src/contracts/token-factory/src/contract.rs` | its own substore (handlers not in repo) | entry-point dispatch only |

### How they interact

`execute.rs` works as follows. Each function wraps the store it receives in a
`Cached` overlay. It binds a `ContractSubstore` of that overlay to a new VM
instance and calls an entry point. The contract calls back into the host ABI
to read and write its own prefixed keys. The function then takes the overlay
back with `recycle` and either flushes it or drops it. `execute_contract` with
funds first runs `transfer_funds`. That function calls `sudo_contract` on the
`bank` contract inside a third overlay, which is flushed into execute's
overlay. So up to three overlays are nested during one message:

- the caller's per-message overlay, if the caller has one;
- execute's own cache;
- sudo's cache.

The caller that hands each message its store is not in the repository. Spec
4.5 says it gives each message its own overlay and flushes it only when the
message succeeds.

The sdk `State` is a second, older implementation (spec open question 2). It
keeps everything in maps and mutates `self` directly. Each message function
does all of its checks first and its writes last. `handle_tx` authenticates
the transaction, stores the sender's incremented sequence, and then runs the
messages in order, stopping at the first error.

### What is hard

Everything is single-threaded. A message runs to completion, and the ABCI
driver calls `handle_tx`, `commit` and `handle_query` one at a time (spec 5).
So the hazards are about order and failure, not about concurrency:

- which overlay a flush lands in;
- writes flushed before a later check fails;
- a fund transfer that has to be undone when the contract fails;
- a message that fails after earlier messages of its transaction took effect,
  and whose error drops their events;
- the sequence bump that has to survive a failed transaction;
- panics where the spec expects errors;
- VM calls without any practical gas bound.

`PROJECT.json` lists each hazard at the line where it bites.

### What makes each component correct

- **Execution (execute.rs plus the caller):**
  - Atomic messages: the committed store changes only when a message completes. It does not change when the message fails, and only inside the message's footprint when it succeeds.
  - Contract accounts are never overwritten.
  - A contract store exists only under a contract account.
  - A function that fails leaves its input store unchanged.
  - A contract that is told it received funds really received them.
  - A response with submessages is rejected (spec 7).
- **Cached:** range through nested overlays yields what `get` sees, in order.
- **Sdk State:**
  - Code ids are `1..code_count` with no gaps.
  - Contracts and stores both exist at exactly `1..contract_count`.
  - Every contract runs a stored code.
  - Stored codes and registered contracts are never replaced; sequences never go back.
  - No transaction passes auth twice.
  - A message that is rejected leaves the state as it was.
  - Contract labels are unique (the `SdkMsg::Instantiate` doc comment).
  - No message panics.
  - Queries see committed state.
  - The events of a successful transaction name, in order, every message
    and exactly what it registered; a message's events and writes go
    together (spec 4.5).

## 2. Plan

Modules, in the order they are built (most important first):

1. `CachedStore`: the overlay as operators (`Record`, `Flush`, `View`). **Done.**
2. `ContractExec`: execute.rs over a stack of overlays, with the caller's
   per-message overlay as the constant `MsgOverlay`. **Done.**
3. `AtomicMessages`: the abstract promise of one message. `ContractExec`
   refines it under `INSTANCE ... WITH store <- committed, ...`. **Done.**
4. `SdkState`: state_machine.rs. `init_chain`, `handle_tx` and `commit` are
   actions, and the message loop is `RECURSIVE RunMsgs`. **Done.**
5. Queries of `SdkState` as operators on the State, compared with the
   last committed State (history variable `committed`). **Done.**
6. `CachedStoreSpec`: nested overlays as a state machine, with the range
   merge iterator (`RangeOf`, RECURSIVE) checked against `get`. **Done.**
7. `migrate_contract` of execute.rs and contract labels in `SdkState`.
   **Done.**
8. Gas metering in `ContractExec` (no liveness property: see Fairness), submessages in its
   responses, and the abstract `ChainRegistry` that `SdkState` refines.
   **Done.**
9. Events in `SdkState`: the event vector of `handle_tx`, `prepend`, and
   the events a failing message drops. **Done.**
10. Not planned:
   - The token factory: its handlers are not in the repository, and spec 1
     puts contract code out of scope.
   - The VM itself.
   - The after-transfer hook: no code in the repository issues it (see
     Not modelled).
   - A caller loop over transactions for `ContractExec`. The caller is not in
     the repository; spec 4.5 gives only its policy, which `MsgOverlay` and
     `AtomicMessages` already state per message.

## 3. Modules

### `CachedStore.tla` (spec_modelled)

A store is a total function from keys to values. The model value `Absent`
means "no value". A pending map holds, for each key the overlay touched,
either a value (`set`) or `Absent` (`remove`).

- `Flush(under, pending)` applies the pending map to the store beneath it.
- `View(base, layers)` folds `Flush` over a stack of overlays. That is what
  `get` returns through nested `Cached` stores.

- `RangeOf(base, layers, start, end, order, none)` is `range()`: each
  overlay's `MergeRange` merges its sorted pending slice (`Slice`) into the
  range of the storage it wraps, pending ops winning for equal keys and
  deletes hiding the value beneath. Both are RECURSIVE.

### `CachedStoreSpec.tla` (spec_modelled)

A store `base` under a stack `layers` of up to `MaxDepth` overlays, as
execute.rs nests them. The actions are `New` (`Cached::new` on top), `Set`,
`Delete` on the top overlay, `FlushTop` (flush and recycle into the storage
it wraps) and `DiscardTop`. `Init` allows any store content beneath. The
reference definition of a range is the sorted slice of `View(base, layers)`,
which is what `get` returns key by key.

### `ContractExec.tla`

Variables:

| Variable | Meaning |
|---|---|
| `committed` | the store kept across messages |
| `caches` | the stack of live overlays; the caller's overlay at index 1 when `MsgOverlay` is true |
| `pc` | `idle`, `bank` (sudo running) or `contract` (instantiate/execute entry point running) |
| `msg` | the message being handled |
| `gas` | gas used by the running instance |
| `fundEvents` | events of this message's bank transfer |
| `result` | the last completed message and its outcome |
| `count` | messages handled so far |
| `before` | `committed` when the last message began (history variable) |

Actions (source lines are in `PROJECT.json`):

| Action | Models |
|---|---|
| `StoreCode` | `store_code`: CODE_COUNT + 1, then CODES.save |
| `StartInstantiate(m)` | `instantiate_contract` up to `call_instantiate`: label check, CODES.load, substore bound to `derive_from_label(label)` |
| `StartExecute(m)` | `execute_contract` up to `call_execute`. With funds: `transfer_funds`, then `sudo_contract` on the bank in a nested overlay, with `code_by_address(bank)` |
| `HostWrite(k, v)` | a host write or remove of the running entry point into the innermost overlay, under the callee's prefix; it costs gas |
| `Compute` | a metered step of the running instance that touches no storage (spec_modelled: cosmwasm_vm) |
| `BankReturn(r)` | the end of `sudo_contract` and `transfer_funds`: trap is a VmError; Err is `fund_transfer_failed` with no flush; Ok flushes into execute's cache and loads the target contract |
| `ContractFails(r)` | a trap (the `?` after `call_*`) or `ContractResult::Err` (no flush) |
| `InstantiateOk(sub)` | flush, then `ACCOUNTS.update`, which fails with AccountFound if the address is taken; the Response, with or without submessages (`sub`), is returned unexamined |
| `ExecuteOk(sub)` | flush; fund events go before the contract's events; `response.messages` is not looked at |
| `MigrateContract` | `migrate_contract`: `todo!()`, so `pc` becomes `panicked` |

When a message ends, `Complete` does what spec 4.5 says the caller does. On
success it flushes whatever is left. On error it drops every overlay. Anything
already flushed into `committed` stays there.

The VM is the environment. An instance runs under a gas meter of
`GasLimit` (the code's `gas_limit`, `u64::MAX`, made small for TLC). Each
`HostWrite` or `Compute` charges one unit. The instance returns Ok, Err or
a trap at any point; once the gas is used up it can no longer write or
compute, and only its return (Ok, Err or a trap) remains. `VMStep` is the disjunction of the instance's steps and of the host
steps that follow its return. Reads are not actions: they change no state,
and the VM's later choices are nondeterministic anyway.

### `ChainRegistry.tla`

The abstract promise of the sdk registry. It has three variables: `codes`,
`contracts` and `seqs`. A step may add codes, contracts and accounts, but
never changes or removes an entry. Every contract refers to a stored code,
and a sequence only grows. `SdkState` maps `st.codes`, `st.contracts` and
`st.accounts` onto it (`Registry`). A whole `handle_tx` step, with all its
messages, must be one `ChainRegistry` step.

### `AtomicMessages.tla`

The abstract promise of spec 4.5 and 7. It has two variables: `store`, and
`outcome` (the last completed message and whether it succeeded). Each step
completes one message. A failed message leaves `store` unchanged. A successful
one changes only the keys in `Footprint(m)`:

- store_code: the code keys;
- instantiate: the new contract's account and its own store;
- execute: the contract's own store, plus the bank's store if funds were sent.

`ContractExec` maps `committed` to `store` and `result` to `outcome`. Steps in
the middle of a message must be stuttering steps.

### `SdkState.tla`

The `State` struct is one record `st`. Each message function (`StoreCode`,
`Instantiate`, `Execute`, `ApplyMsg`) is an operator that returns the new
state and a status: `ok`, `err`, `panic`, or `bound` (a model bound was hit;
such steps are not taken). `RunMsgs` is the `try_for_each` loop, written as a
RECURSIVE operator.

Actions:

- `InitChain` runs the genesis messages as the deployer.
- `HandleTx` does `authenticate_tx` (spec_modelled: the sequence must match),
  inserts the incremented account, then runs `RunMsgs`.
- `Commit` increments `height`.

The five `query_*` functions and `handle_query` are operators
(`QueryAccount` ... `HandleQuery`) from a State and a query to `Answer(v)` or
`Error(e)`; response encoding is left out. `query_wasm_smart` runs the
contract's code on a clone of its store with the fixed `mock_env`, so its
answer is modelled as the code and the store; its unchecked
`self.contracts[..]` and `self.codes[..]` give `Error("panic")`.
`committed` is a history variable: the State as of the last `init_chain` or
`commit`. Genesis counts as committed, so a stale answer needs a
transaction.

`phase` records whether the node has started, whether `init_chain` failed
(`stopped`), or whether a handler panicked (`panicked`). `accepted` is a
history variable holding the `<<sender, sequence>>` of each transaction that
passed auth.

The VM outcome of a call is chosen from `Outcomes`:

- Ok with any resulting store;
- Ok with submessages;
- Err.

A VmError and `ContractResult::Err` follow the same path in this code: both
return before anything is mutated. An Ok outcome also carries the Response's
events: none, or one of the contract's own (type `wasm`).

Events are records `Event(type, id)`. `store_code` returns
`store_code{code_id}`. `instantiate_contract` and `execute_contract` return
`prepend` of `instantiate_contract{contract_address}` or
`execute_contract{contract_address}` to the Response's events. `RunMsgs`
extends one vector with each message's events. When a message fails, the
`?` returns its error and the collected events are dropped.
`EventsReportTx` is a state predicate over every transaction `handle_tx` could run from the current State, as
`MessageAtomic` is. The result of a transaction is therefore compared with
the State it started from without a history variable.

## 4. Runs

| Run | Module / cfg | Expect | Properties | What it shows |
|---|---|---|---|---|
| `exec_atomic` | MCContractExec / `exec_atomic.cfg` | pass | `TypeOK`, `AtomicSpec`, `AccountsImmutable` | With the caller's overlay, the three nested overlays implement `AtomicMessages`. Contracts never write outside their prefix. A committed contract account is never replaced. |
| `exec_direct` | MCContractExec / `exec_direct.cfg` | pass | `RegistryConsistent`, `FailedExecuteLeavesStoreUnchanged` | Without any caller overlay, a failing `execute_contract` still leaves its store unchanged, including when the bank transfer succeeded and the contract then failed or was missing. No contract store exists without an account. |
| `exec_instantiate_clobber` | MCContractExec / `exec_instantiate_clobber.cfg` | violation | `FailedInstantiateLeavesStoreUnchanged` | Finding (code bug, execute.rs:107), described below. |
| `exec_instantiate_funds` | MCContractExec / `exec_instantiate_funds.cfg` | violation | `ContractSeesOnlyTransferredFunds` | Finding: `instantiate_contract` never transfers funds (spec 4.5 says it must), yet the contract sees them in `info.funds`. |
| `exec_submessages` | MCContractExec / `exec_submessages.cfg` | violation | `SubmessagesRejected` | Finding: `instantiate_contract` and `execute_contract` flush and return Ok when the response holds submessages (execute.rs:237), where spec 7 rejects the message with SubmessagesUnsupported. |
| `sdk_registry` | MCSdkState / `sdk_registry.cfg` | pass | `TypeOK`, `RegistryConsistent`, `NoTxReplayed`, `MessageAtomic`, `EventsReportTx`, `RegistrySpec` | Through genesis, multi-message transactions that fail part-way, and commits, the registry stays gap-free and consistent. The sequence bump before the message loop prevents replay. In every reachable State, every message a handler rejects, whatever the VM returned, returns the State unchanged, and every transaction that succeeds returns one primary event per message, in message order and ahead of its contract's events, naming exactly the codes and contracts it registered. The State refines `ChainRegistry`. |
| `sdk_query_committed` | MCSdkState / `sdk_query_committed.cfg` | violation | `QueriesAnswerFromCommittedState` | Finding: `handle_query` reads the live State. After `init_chain` and one `store_code` transaction, before `commit`, a code query already answers with the new code; spec 4.6 says queries use the committed store. |
| `sdk_labels_unique` | MCSdkState / `sdk_labels_unique.cfg` | violation | `LabelsUnique` | Finding: the sdk addresses contracts by `contract_count` and never checks the label, which msg.rs documents as "Must be unique". |
| `cached_range` | CachedStoreSpec / `cached_range.cfg` | pass | `RangeAgreesWithGet` | Through two nested overlays over any store, `range` in both orders and for every bound yields exactly what `get` observes. |
| `sdk_unknown_code_panics` | MCSdkState / `sdk_unknown_code_panics.cfg` | violation | `NoPanic` | Finding: `self.codes[&code_id]` (state_machine.rs:236) panics on an unknown code id, where spec 7 says CodeNotFound. One transaction halts the node. |

The `exec_instantiate_clobber` trace:

1. Store code 1.
2. Instantiate `bank`.
3. Instantiate `bank` again. The new instance writes `k1` into the bank's
   substore, the overlay is flushed, and only then does `ACCOUNTS.update`
   return AccountFound.
4. The bank's store has been changed by a message that failed.

With the caller's overlay (`exec_atomic`), the damage is discarded. Safety
therefore depends on a caller that is not in the repository.

Each property of a passing run has a mutant in `PROJECT.json`: a plausible bug
in the mapped definition that TLC must catch. Examples:

- `FlushInnerToBase`: a flush that goes straight to the committed store;
- `AccountSaveAllowedAlways`: a dropped `opt.is_some()` check;
- `HandleTxBumpOnSuccess`: the sequence bump moved after the loop;
- `InstantiateCountFirst`: `contract_count += 1` before the submessage check;
- `ExecuteStoreFirst`: the VM's store put back before the submessage check;
- `MergeRangeBeneathWins`: the value beneath wins over a pending op;
- `InstantiateNoIncrement`: `contract_count` not incremented, so a later
  instantiate replaces a registered contract;
- `prependPushed`: the primary event pushed behind the contract's events
  instead of spliced in front.

## 5. Bounds

- `ContractExec`:
  - labels: `bank`, `token`, and one reserved `cw1…` label;
  - two addresses, one key;
  - two codes.

  The passing runs use two values (plus delete), five messages and a gas
  limit of 2 per instance (two writes, or a write and a computation), about
  194,000 states each. Two values let a later write
  overwrite an earlier one with something different. Five messages cover
  store code, instantiate bank, instantiate token, execute token with funds
  (bank Ok, then contract Err), and one more message on the result. The
  violation runs keep one value, four messages and a gas limit of 1, because
  their traces are short. The gas limit is `u64::MAX` in the code; the
  model's small limit only bounds how many writes one call makes.
- `SdkState`:
  - one signer, who is also the deployer;
  - two codes, two contracts, up to two messages per transaction;
  - two labels;
  - sequences up to 3, height up to 1.

  Two messages per transaction is the smallest bound that shows a transaction
  failing after an earlier message took effect. Two labels are enough to
  show both a repeated label and distinct ones.
- `CachedStoreSpec`: keys 1..3, two values, two nested overlays. Three keys
  give every relative position of a pending key and a stored key within a
  range; two overlays give a merge of merges.

Deadlock checking is off in every cfg. The only states without a successor are
those where a model bound is used up, or the node has stopped (`init_chain`
failed) or panicked (also `migrate_contract` in `ContractExec`). In
`CachedStoreSpec` a new overlay or a write is always possible, so that run
checks for deadlock.

## 6. Fairness

No run checks a liveness property, and no specification states fairness.
Every handler of the repository is straight-line code between calls into
the VM. Whether a call into the VM returns is decided inside the VM (spec
5: the VM alone ends an entry point, by gas exhaustion or a trap), which is
not in the repository. A model of the VM bounds its steps by construction,
so "every entry point returns" would hold whatever execute.rs does. The
code's `gas_limit: u64::MAX` (execute.rs:88) means a looping contract
returns only after about 2^64 metered steps; `PROJECT.json` lists this as a
hazard that no property covers.

## 7. Not modelled

- The VM's internals, and so whether an entry point returns (see
  Fairness).
- `migrate_contract` beyond its action: it is `todo!()`, a panic
  (`MigrateContract` sets `pc` to `panicked`), and no caller in the
  repository routes a Migrate message to it.
- The events a failing transaction drops in `SdkState`. The `?` at
  state_machine.rs:173 returns the error without the events already
  collected, while the earlier messages' writes stay. Spec 4.5's own
  pseudocode does the same, and its open question 1 leaves mid-transaction
  failure undecided, so no property takes a side.
- Reads and scans a contract makes through the host ABI in `ContractExec`:
  they change no state. `range` itself is checked in `CachedStoreSpec`.
- Address humanize/canonicalize.
- Hashing and the app hash (a function of `height` only).
- Events in `ContractExec` other than their fund/contract order. execute.rs
  returns no `instantiate_contract` or `execute_contract` event (store_code
  emits its own). Lines 242-244 merge the bank's events in front of the
  Response's events, so no place is left for the primary event that spec
  8.6 puts between them. This shows in the code itself; `PROJECT.json`
  lists it as a hazard.
- Event attributes other than the code id or contract address an event
  names. The model gives a contract's own events the type `wasm`. Nothing
  in the code stops a contract from emitting an event typed
  `instantiate_contract`, which a client could not tell from the host's.
- The after-transfer hook (spec 4.5). No code in the repository issues it:
  `transfer_funds` makes one sudo call, to the bank. The token factory's
  `ExecuteMsg::AfterTransfer` is an execute message, and its handler is not
  in the repository.
- Who may instantiate the label `bank`. `transfer_funds` runs whatever
  contract sits at `derive_from_label("bank")`. The model lets any message
  instantiate it; genesis, which would deploy the real bank, is not part of
  execute.rs.
- The token factory contract's handlers, which are not in the repository.
- What the caller does with a Response's submessages. The caller is not in
  the repository; `exec_submessages` shows what execute.rs does before
  handing the Response back.
- `info()`, a pure function of `height`, and the `Info`, `Accounts` and
  `Codes` queries, which msg.rs declares but `handle_query` does not handle.
- The mismatch between `state_machine.rs` and `msg.rs`. `handle_query` matches
  an `SdkQuery::Contract` variant, and `query_account` builds an
  `AccountResponse` with `pubkey` and `sequence` fields, but msg.rs declares
  neither. The sdk crate therefore does not build against this msg.rs. The
  model follows `state_machine.rs`, the code that has the behaviour.
