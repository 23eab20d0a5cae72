----------------------------- MODULE ContractExec -----------------------------
(***************************************************************************)
(* Message execution of the contract-oriented state machine,              *)
(* src/packages/state-machine/src/execute.rs: store_code,                 *)
(* instantiate_contract, execute_contract with transfer_funds and         *)
(* sudo_contract.  Each function wraps the store it is given in a Cached  *)
(* overlay, runs a wasm entry point against a ContractSubstore of that    *)
(* overlay, and flushes or drops the overlay.  The caller that hands each *)
(* message its store is not in the repository: with MsgOverlay it wraps   *)
(* the message in one more overlay and flushes it on success only (spec   *)
(* 4.5); without it the functions write to the committed store directly. *)
(*                                                                         *)
(* The wasm VM is the environment: while an entry point runs it may set   *)
(* or remove keys of the substore it was bound to (HostWrite) and compute *)
(* (Compute), each step charged against the instance's gas meter; then it *)
(* returns Ok, Err, or fails with a VmError (trap, gas exhaustion         *)
(* included) and the `?` after call_* propagates it.                      *)
(***************************************************************************)
EXTENDS Naturals, Sequences, SequencesExt, CachedStore

CONSTANTS
    Labels,          \* labels a sender may give a contract
    ReservedLabels,  \* the labels that start with "{ADDRESS_PREFIX}1"
    BankLabel,       \* "bank", the label of the bank contract
    Addrs,           \* contract addresses
    Derive,          \* address::derive_from_label, a function Labels -> Addrs
    Keys,            \* keys a contract uses in its own store
    Vals,            \* values it stores under them
    WasmCode,        \* the bytes of a stored code
    MaxCodes,        \* bound on CODE_COUNT
    MaxMsgs,         \* bound on the number of messages
    GasLimit,        \* InstanceOptions::gas_limit of every instance
    MsgOverlay,      \* does the caller wrap each message in an overlay?
    Absent,          \* no value under a key; as a pending op, a delete
    NoMsg            \* no message is being handled

ASSUME
    /\ ReservedLabels \subseteq Labels
    /\ BankLabel \in Labels \ ReservedLabels
    /\ Derive \in [Labels -> Addrs]
    /\ MsgOverlay \in BOOLEAN
    /\ {MaxCodes, MaxMsgs, GasLimit} \subseteq Nat

VARIABLES
    committed,   \* the store the caller keeps across messages
    caches,      \* the stack of Cached overlays alive in this message
    pc,          \* "idle", the entry point running: "bank" or "contract",
                 \* or "panicked"
    msg,         \* the message being handled
    gas,         \* gas the running instance has used
    fundEvents,  \* events of the bank transfer of this message
    result,      \* the last completed message and its outcome
    count,       \* messages handled so far
    before       \* committed as the last message began (history)

vars == <<committed, caches, pc, msg, gas, fundEvents, result, count, before>>

-----------------------------------------------------------------------------
(* Persisted layout (spec 6): CODE_COUNT, CODES, ACCOUNTS and the         *)
(* contract substores of ContractSubstore::new(cache, &addr).             *)

CodeCountKey == <<"code_count">>
CodeKey(id) == <<"codes", id>>
AccountKey(a) == <<"accounts", a>>
SubKey(a, k) == <<"contract_stores", a, k>>

StoreKeys ==
    {CodeCountKey} \cup {CodeKey(i) : i \in 1..MaxCodes}
    \cup {AccountKey(a) : a \in Addrs} \cup {SubKey(a, k) : a \in Addrs, k \in Keys}

Msgs ==
    [kind : {"store_code"}]
    \cup [kind : {"instantiate"}, code_id : 1..MaxCodes, label : Labels, funds : BOOLEAN]
    \cup [kind : {"execute"}, contract : Addrs, funds : BOOLEAN]

ContractAccount == [code_id : 1..MaxCodes, label : Labels]

InitCommitted == [k \in StoreKeys |-> IF k = CodeCountKey THEN 0 ELSE Absent]

NoResult == [msg |-> NoMsg, ok |-> TRUE, err |-> "none", events |-> <<>>, submsgs |-> FALSE]

\* The address of the contract message m calls.
ContractAddr(m) == IF m.kind = "instantiate" THEN Derive[m.label] ELSE m.contract

\* The contract whose entry point is running.
Callee == IF pc = "bank" THEN Derive[BankLabel] ELSE ContractAddr(msg)

\* The store the caller hands a message: an empty overlay, or none.
MsgLayers == IF MsgOverlay THEN <<EmptyPending>> ELSE <<>>

\* code_by_address: the account is a contract whose code is stored.
CodeByAddress(s, a) ==
    /\ s[AccountKey(a)] # Absent
    /\ s[CodeKey(s[AccountKey(a)].code_id)] # Absent

\* Mutant: the innermost overlay is flushed past every overlay beneath it.
FlushInnerToBase(c, cs) == <<Flush(c, Last(cs)), Front(cs)>>

\* cache.flush(); cache.recycle(): the innermost overlay is applied to the
\* store beneath it, the committed store when no other overlay is left.
FlushInner(c, cs) ==
    IF Len(cs) = 1 THEN <<Flush(c, cs[1]), <<>>>>
    ELSE <<c, Append(SubSeq(cs, 1, Len(cs) - 2), Flush(cs[Len(cs) - 1], Last(cs)))>>

\* Mutant: the closure saves the account whatever `opt` holds.
AccountSaveAllowedAlways(s, a) == TRUE

\* The ACCOUNTS.update closure: no account may exist at the address yet.
AccountSaveAllowed(s, a) == s[AccountKey(a)] = Absent

-----------------------------------------------------------------------------
(* Control of one message.                                                *)

\* A new message is taken: the caller's loop.
Begin ==
    /\ pc = "idle"
    /\ count < MaxMsgs
    /\ count' = count + 1
    /\ before' = committed

\* The message ends: on success the caller flushes what is left, on error
\* it drops every overlay; c is the committed store by then.  The result
\* carries the events and whether the response held submessages.
Complete(m, c, cs, ok, err, events, sub) ==
    /\ committed' = IF ok THEN View(c, cs) ELSE c
    /\ caches' = <<>>
    /\ pc' = "idle"
    /\ msg' = NoMsg
    /\ gas' = 0
    /\ fundEvents' = <<>>
    /\ result' = [msg |-> m, ok |-> ok, err |-> err, events |-> events, submsgs |-> sub]

\* An error returned before anything was flushed to the committed store.
Fail(m, err) == Complete(m, committed, <<>>, FALSE, err, <<>>, FALSE)

\* An entry point of the contract `p` starts over the overlays cs, the
\* committed store beneath them being c.
Call(m, p, c, cs) ==
    /\ pc' = p
    /\ msg' = m
    /\ committed' = c
    /\ caches' = cs
    /\ gas' = 0
    /\ UNCHANGED result

-----------------------------------------------------------------------------
(* Messages.                                                              *)

\* store_code: CODE_COUNT.update(+1), then CODES.save under the new count.
StoreCode ==
    /\ Begin
    /\ committed[CodeCountKey] < MaxCodes
    /\ LET id == committed[CodeCountKey] + 1 IN
       Complete([kind |-> "store_code"],
                [committed EXCEPT ![CodeCountKey] = id, ![CodeKey(id)] = WasmCode],
                <<>>, TRUE, "none", <<"store_code">>, FALSE)

\* instantiate_contract up to call_instantiate: label check, derive the
\* address, CODES.load through the cache, bind the substore of the address.
StartInstantiate(m) ==
    /\ Begin
    /\ m.kind = "instantiate"
    /\ \/ /\ m.label \in ReservedLabels
          /\ Fail(m, "illegal_label")
       \/ /\ m.label \notin ReservedLabels
          /\ committed[CodeKey(m.code_id)] = Absent
          /\ Fail(m, "code_not_found")
       \/ /\ m.label \notin ReservedLabels
          /\ committed[CodeKey(m.code_id)] # Absent
          /\ Call(m, "contract", committed, Append(MsgLayers, EmptyPending))
          /\ UNCHANGED fundEvents

\* execute_contract up to call_execute.  With funds, transfer_funds first
\* runs sudo_contract on the bank in an overlay of execute's own cache.
StartExecute(m) ==
    /\ Begin
    /\ m.kind = "execute"
    /\ LET cache == Append(MsgLayers, EmptyPending) IN
       \/ /\ m.funds
          /\ CodeByAddress(committed, Derive[BankLabel])
          /\ Call(m, "bank", committed, Append(cache, EmptyPending))
          /\ UNCHANGED fundEvents
       \/ /\ m.funds
          /\ ~CodeByAddress(committed, Derive[BankLabel])
          /\ Fail(m, "not_found")
       \/ /\ ~m.funds
          /\ CodeByAddress(committed, m.contract)
          /\ Call(m, "contract", committed, cache)
          /\ UNCHANGED fundEvents
       \/ /\ ~m.funds
          /\ ~CodeByAddress(committed, m.contract)
          /\ Fail(m, "not_found")

\* Mutant: the substore forgets to prefix the key with the address.
HostWriteUnprefixed(k, v) ==
    /\ pc \in {"bank", "contract"}
    /\ gas < GasLimit
    /\ caches' = [caches EXCEPT ![Len(caches)] = Record(@, k, v)]
    /\ gas' = gas + 1
    /\ UNCHANGED <<committed, pc, msg, fundEvents, result, count, before>>

\* The running entry point sets (v \in Vals) or removes (v = Absent) a key
\* of its substore, in the innermost overlay; the host call is metered.
HostWrite(k, v) ==
    /\ pc \in {"bank", "contract"}
    /\ gas < GasLimit
    /\ caches' = [caches EXCEPT ![Len(caches)] = Record(@, SubKey(Callee, k), v)]
    /\ gas' = gas + 1
    /\ UNCHANGED <<committed, pc, msg, fundEvents, result, count, before>>

\* The running entry point executes metered instructions that touch no
\* storage.  cosmwasm_vm charges them against gas_limit and stops the
\* instance once it is used up (the trap of ContractFails and BankReturn).
Compute ==
    /\ pc \in {"bank", "contract"}
    /\ gas < GasLimit
    /\ gas' = gas + 1
    /\ UNCHANGED <<committed, caches, pc, msg, fundEvents, result, count, before>>

\* Mutant: execute flushes its cache right after the fund transfer.
BankReturnFlushThrough(r) ==
    /\ pc = "bank"
    /\ UNCHANGED <<count, before>>
    /\ CASE r = "trap" -> Fail(msg, "vm_error")
         [] r = "err"  -> Fail(msg, "fund_transfer_failed")
         [] r = "ok"   ->
              LET f1 == FlushInner(committed, caches)
                  fl == FlushInner(f1[1], f1[2])
              IN IF CodeByAddress(View(fl[1], fl[2]), msg.contract)
                 THEN Call(msg, "contract", fl[1], Append(fl[2], EmptyPending))
                      /\ fundEvents' = <<"fund">>
                 ELSE Fail(msg, "not_found")

\* The bank's sudo entry point returns.  Ok: sudo_contract flushes into
\* execute's cache, transfer_funds hands back the events, and execute
\* loads the code of the target.  Err: fund_transfer_failed.  Trap: the
\* VmError of call_sudo.
BankReturn(r) ==
    /\ pc = "bank"
    /\ UNCHANGED <<count, before>>
    /\ CASE r = "trap" -> Fail(msg, "vm_error")
         [] r = "err"  -> Fail(msg, "fund_transfer_failed")
         [] r = "ok"   ->
              LET fl == FlushInner(committed, caches) IN
              IF CodeByAddress(View(fl[1], fl[2]), msg.contract)
              THEN Call(msg, "contract", fl[1], fl[2]) /\ fundEvents' = <<"fund">>
              ELSE Fail(msg, "not_found")

\* Mutant: the cache is flushed before the result is matched.
ContractFailsFlushed(r) ==
    /\ pc = "contract"
    /\ LET fl == FlushInner(committed, caches) IN
       Complete(msg, fl[1], fl[2], FALSE,
                IF r = "trap" THEN "vm_error" ELSE "contract_error", <<>>, FALSE)
    /\ UNCHANGED <<count, before>>

\* The contract's instantiate or execute entry point returns with an
\* error: Err is returned as ContractResult::Err without a flush, a trap
\* as a VmError; the caller fails the message either way.
ContractFails(r) ==
    /\ pc = "contract"
    /\ Fail(msg, IF r = "trap" THEN "vm_error" ELSE "contract_error")
    /\ UNCHANGED <<count, before>>

\* instantiate_contract after Ok: flush the cache into the store, then
\* ACCOUNTS.update on that store, which fails if the address is taken.
\* The Response, with its submessages (sub), is returned unexamined.
InstantiateOk(sub) ==
    /\ pc = "contract"
    /\ msg.kind = "instantiate"
    /\ LET fl == FlushInner(committed, caches)
           s  == View(fl[1], fl[2])
           a  == Derive[msg.label]
       IN IF AccountSaveAllowed(s, a)
          THEN Complete(msg, [s EXCEPT ![AccountKey(a)] =
                                [code_id |-> msg.code_id, label |-> msg.label]],
                        <<>>, TRUE, "none", <<"contract">>, sub)
          ELSE Complete(msg, fl[1], fl[2], FALSE, "account_found", <<>>, FALSE)
    /\ UNCHANGED <<count, before>>

\* execute_contract after Ok: flush, and the fund transfer events go
\* first; response.messages is not looked at.
ExecuteOk(sub) ==
    /\ pc = "contract"
    /\ msg.kind = "execute"
    /\ LET fl == FlushInner(committed, caches) IN
       Complete(msg, fl[1], fl[2], TRUE, "none", fundEvents \o <<"contract">>, sub)
    /\ UNCHANGED <<count, before>>

\* migrate_contract: `todo!()`, a panic that takes the process down.
MigrateContract ==
    /\ Begin
    /\ pc' = "panicked"
    /\ UNCHANGED <<committed, caches, msg, gas, fundEvents, result>>

\* A step of the running instance, or of the host once it returned.
VMStep ==
    \/ Compute
    \/ \E k \in Keys, v \in Vals \cup {Absent} : HostWrite(k, v)
    \/ \E r \in {"ok", "err", "trap"} : BankReturn(r)
    \/ \E r \in {"err", "trap"} : ContractFails(r)
    \/ \E sub \in BOOLEAN : InstantiateOk(sub) \/ ExecuteOk(sub)

-----------------------------------------------------------------------------

Init ==
    /\ committed = InitCommitted
    /\ caches = <<>>
    /\ pc = "idle"
    /\ msg = NoMsg
    /\ gas = 0
    /\ fundEvents = <<>>
    /\ result = NoResult
    /\ count = 0
    /\ before = InitCommitted

Next ==
    \/ StoreCode
    \/ \E m \in Msgs : StartInstantiate(m) \/ StartExecute(m)
    \/ VMStep
    \/ MigrateContract

Spec == Init /\ [][Next]_vars

-----------------------------------------------------------------------------
(* Properties.                                                            *)

\* Type invariant.  The layers hold only keys of the persisted layout, so
\* a contract never writes outside its ContractSubstore prefix (spec 4.2).
TypeOK ==
    /\ DOMAIN committed = StoreKeys
    /\ committed[CodeCountKey] \in 0..MaxCodes
    /\ \A i \in 1..MaxCodes : committed[CodeKey(i)] \in {WasmCode, Absent}
    /\ \A a \in Addrs : committed[AccountKey(a)] \in ContractAccount \cup {Absent}
    /\ \A a \in Addrs, k \in Keys : committed[SubKey(a, k)] \in Vals \cup {Absent}
    /\ \A i \in DOMAIN caches : DOMAIN caches[i] \subseteq StoreKeys
    /\ Len(caches) <= 3
    /\ pc \in {"idle", "bank", "contract", "panicked"}
    /\ msg \in Msgs \cup {NoMsg}
    /\ gas \in 0..GasLimit
    /\ count \in 0..MaxMsgs

\* The keys a message may change: its contract's store and account, the
\* bank's store when it carries funds, CODE_COUNT and CODES for store_code.
MsgFootprint(m) ==
    CASE m.kind = "store_code" ->
             {CodeCountKey} \cup {CodeKey(i) : i \in 1..MaxCodes}
      [] m.kind = "instantiate" ->
             {AccountKey(Derive[m.label])} \cup {SubKey(Derive[m.label], k) : k \in Keys}
      [] m.kind = "execute" ->
             {SubKey(m.contract, k) : k \in Keys}
             \cup (IF m.funds THEN {SubKey(Derive[BankLabel], k) : k \in Keys} ELSE {})

Atomic == INSTANCE AtomicMessages WITH
    store <- committed,
    outcome <- [msg |-> result.msg, ok |-> result.ok],
    Footprint <- MsgFootprint,
    InitStore <- InitCommitted,
    NoOutcome <- [msg |-> NoMsg, ok |-> TRUE]

\* Per-message atomicity (spec 4.5, 7): the nested Cached overlays of
\* instantiate_contract, execute_contract and sudo_contract, under the
\* caller's overlay, implement AtomicMessages: the committed store changes
\* only as a message completes, not at all when it fails, and only in the
\* message's footprint when it succeeds.
AtomicSpec == Atomic!Spec

\* Label uniqueness (spec invariant 3; the ACCOUNTS.update closure of
\* instantiate_contract): once a contract account is committed, no step
\* changes its code id or label.
AccountsImmutable ==
    [][\A a \in Addrs : committed[AccountKey(a)] # Absent =>
                        committed'[AccountKey(a)] = committed[AccountKey(a)]]_vars

\* Spec invariant 4 and 2: a contract store holds data only under an
\* address with a contract account, and every contract account names a
\* stored code.  Whether instantiate_contract flushes its cache only on Ok
\* decides the first half when no overlay of the caller protects it.
RegistryConsistent ==
    \A a \in Addrs :
        /\ (\E k \in Keys : committed[SubKey(a, k)] # Absent)
               => committed[AccountKey(a)] # Absent
        /\ committed[AccountKey(a)] # Absent
               => committed[CodeKey(committed[AccountKey(a)].code_id)] # Absent

\* The message that completed last failed and was of the given kind.
LastFailed(kind) ==
    /\ pc = "idle"
    /\ result.msg # NoMsg
    /\ result.msg.kind = kind
    /\ ~result.ok

\* No partial writes (spec 7) at the level of execute_contract: when it
\* fails, after a fund transfer through sudo_contract or not, the store it
\* was handed is as it was before the call.
FailedExecuteLeavesStoreUnchanged == LastFailed("execute") => committed = before

\* The same for instantiate_contract, whose comments promise that the
\* account is saved and the changes flushed only on success.
FailedInstantiateLeavesStoreUnchanged == LastFailed("instantiate") => committed = before

\* Spec 4.5: a contract entry point that is told it received funds runs
\* only after the bank contract transferred them in the same message.
ContractSeesOnlyTransferredFunds ==
    (pc = "contract" /\ msg.funds) => fundEvents # <<>>

\* Spec 7: a message whose contract response carries submessages is
\* rejected with SubmessagesUnsupported.  instantiate_contract and
\* execute_contract flush on any Ok and return the Response as it is.
SubmessagesRejected == result.ok => ~result.submsgs

=============================================================================
