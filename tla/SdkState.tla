------------------------------- MODULE SdkState -------------------------------
(***************************************************************************)
(* The sdk-oriented state machine, src/sdk/src/state_machine.rs: the      *)
(* State struct kept in in-memory maps, init_chain, handle_tx and commit. *)
(* Each handler runs to completion before the next (the ABCI driver calls *)
(* them one at a time), so each is one action; the loop over a            *)
(* transaction's messages is the recursive operator RunMsgs.  Queries     *)
(* only read the state: handle_query is the operator HandleQuery, whose   *)
(* answers the properties compare with those the last committed state     *)
(* gives, kept in the history variable `committed`.                       *)
(*                                                                         *)
(* A wasm call is the environment: it returns Ok with the contract store  *)
(* it leaves behind, Ok with submessages, or an error (ContractResult::Err *)
(* and a VmError take the same path: nothing is mutated before them).      *)
(***************************************************************************)
EXTENDS Naturals, Sequences, SequencesExt

CONSTANTS
    Senders,      \* addresses that sign transactions
    Deployer,     \* the genesis deployer
    Keys,         \* keys a contract uses in its store
    Vals,         \* values it stores under them
    WasmCode,     \* the bytes of a stored code
    MaxCodes,     \* bound on code_count
    MaxContracts, \* bound on contract_count
    MaxSeq,       \* bound on account sequence numbers
    MaxTxMsgs,    \* bound on the messages of one transaction or genesis
    MaxHeight,    \* bound on the block height
    Labels,       \* labels a contract is instantiated with
    Absent        \* no value under a key; no account

ASSUME Deployer \in Senders

VARIABLES
    st,        \* the State struct
    phase,     \* "genesis" before init_chain, "running", "stopped" when
               \* init_chain failed, "panicked" when a handler panicked
    accepted,  \* <<sender, sequence>> of every transaction that passed auth
    committed  \* history: st as of the last init_chain or commit

vars == <<st, phase, accepted, committed>>

Msgs ==
    [kind : {"store_code"}]
    \cup [kind : {"instantiate"}, code_id : 1..MaxCodes, funds : BOOLEAN, label : Labels]
    \cup [kind : {"execute"}, contract : 1..MaxContracts, funds : BOOLEAN]
    \cup [kind : {"migrate"}]

ContractStores == [Keys -> Vals \cup {Absent}]

EmptyContractStore == [k \in Keys |-> Absent]

\* The events a Response may carry: none, or one of the contract's own.
RespEvents == {<<>>, <<[type |-> "wasm", id |-> 0]>>}

\* What a wasm call returns.
Outcomes ==
    [res : {"ok"}, submsgs : {FALSE}, store : ContractStores, events : RespEvents]
    \cup [res : {"ok"}, submsgs : {TRUE}, store : {EmptyContractStore}, events : {<<>>}]
    \cup [res : {"err"}, submsgs : {FALSE}, store : {EmptyContractStore}, events : {<<>>}]

\* State::default().
InitState ==
    [height |-> 0, code_count |-> 0, contract_count |-> 0,
     accounts |-> [s \in {} |-> 0], codes |-> [i \in {} |-> WasmCode],
     contracts |-> [a \in {} |-> [code_id |-> 0, label |-> 0]], stores |-> [a \in {} |-> EmptyContractStore]]

\* A message's or a transaction's Result: the State after it, and the
\* events of an Ok.
Ok(s, events) == [st |-> s, status |-> "ok", events |-> events]
Err(s) == [st |-> s, status |-> "err", events |-> <<>>]

\* An Event: its type and the code id or contract address it names; the
\* events a contract's Response carries have the type "wasm".
Event(type, id) == [type |-> type, id |-> id]

\* Mutant: events.push(event), the event goes behind the array.
prependPushed(event, events) == events \o <<event>>

\* prepend: the event goes in front of the array of events.
prepend(event, events) == <<event>> \o events

-----------------------------------------------------------------------------

\* store_code: code_count += 1, then codes.insert(code_count, ...).
StoreCode(s) ==
    IF s.code_count >= MaxCodes THEN [st |-> s, status |-> "bound"]
    ELSE LET id == s.code_count + 1 IN
         Ok([s EXCEPT !.code_count = id, !.codes = (id :> WasmCode) @@ @],
            <<Event("store_code", id)>>)

\* Mutant: the address is read before contract_count is incremented.
InstantiateAddrBeforeIncrement(s, m, o) ==
    CASE m.funds -> Err(s)
      [] m.code_id \notin DOMAIN s.codes -> [st |-> s, status |-> "panic"]
      [] s.contract_count >= MaxContracts -> [st |-> s, status |-> "bound"]
      [] o.res = "err" -> Err(s)
      [] o.submsgs -> Err(s)
      [] OTHER ->
           LET a == s.contract_count IN
           Ok([s EXCEPT !.contract_count = a + 1,
                        !.contracts = (a :> [code_id |-> m.code_id, label |-> m.label]) @@ @,
                        !.stores = (a :> o.store) @@ @],
              prepend(Event("instantiate_contract", a), o.events))

\* Mutant: contract_count is incremented before the submessages check.
InstantiateCountFirst(s, m, o) ==
    CASE m.funds -> Err(s)
      [] m.code_id \notin DOMAIN s.codes -> [st |-> s, status |-> "panic"]
      [] s.contract_count >= MaxContracts -> [st |-> s, status |-> "bound"]
      [] o.res = "err" -> Err(s)
      [] o.submsgs -> Err([s EXCEPT !.contract_count = @ + 1])
      [] OTHER ->
           LET a == s.contract_count + 1 IN
           Ok([s EXCEPT !.contract_count = a,
                        !.contracts = (a :> [code_id |-> m.code_id, label |-> m.label]) @@ @,
                        !.stores = (a :> o.store) @@ @],
              prepend(Event("instantiate_contract", a), o.events))

\* Mutant: contract_count is not incremented; the address is count + 1.
InstantiateNoIncrement(s, m, o) ==
    CASE m.funds -> Err(s)
      [] m.code_id \notin DOMAIN s.codes -> [st |-> s, status |-> "panic"]
      [] s.contract_count >= MaxContracts -> [st |-> s, status |-> "bound"]
      [] o.res = "err" -> Err(s)
      [] o.submsgs -> Err(s)
      [] OTHER ->
           LET a == s.contract_count + 1 IN
           Ok([s EXCEPT !.contracts = (a :> [code_id |-> m.code_id, label |-> m.label]) @@ @,
                        !.stores = (a :> o.store) @@ @],
              prepend(Event("instantiate_contract", a), o.events))

\* instantiate_contract: funds are refused, `self.codes[&code_id]` panics
\* on an unknown id, the call runs on a fresh ContractStore, and only an
\* Ok without submessages takes the next contract_count as address.
Instantiate(s, m, o) ==
    CASE m.funds -> Err(s)
      [] m.code_id \notin DOMAIN s.codes -> [st |-> s, status |-> "panic"]
      [] s.contract_count >= MaxContracts -> [st |-> s, status |-> "bound"]
      [] o.res = "err" -> Err(s)
      [] o.submsgs -> Err(s)
      [] OTHER ->
           LET a == s.contract_count + 1 IN
           Ok([s EXCEPT !.contract_count = a,
                        !.contracts = (a :> [code_id |-> m.code_id, label |-> m.label]) @@ @,
                        !.stores = (a :> o.store) @@ @],
              prepend(Event("instantiate_contract", a), o.events))

\* Mutant: the clone is put back before the submessages check.
ExecuteStoreFirst(s, m, o) ==
    CASE m.funds -> Err(s)
      [] m.contract \notin DOMAIN s.stores -> Err(s)
      [] o.res = "err" -> Err(s)
      [] o.submsgs -> Err([s EXCEPT !.stores[m.contract] = o.store])
      [] OTHER -> Ok([s EXCEPT !.stores[m.contract] = o.store],
                     prepend(Event("execute_contract", m.contract), o.events))

\* execute_contract: funds are refused, an unknown address is
\* ContractNotFound, the call runs on a clone of the store, and only an Ok
\* without submessages puts the clone back.
Execute(s, m, o) ==
    CASE m.funds -> Err(s)
      [] m.contract \notin DOMAIN s.stores -> Err(s)
      [] o.res = "err" -> Err(s)
      [] o.submsgs -> Err(s)
      [] OTHER -> Ok([s EXCEPT !.stores[m.contract] = o.store],
                     prepend(Event("execute_contract", m.contract), o.events))

\* migrate_contract: MigrationUnsupported.
MigrateContract(s) == Err(s)

\* The match on one SdkMsg.
ApplyMsg(s, m, o) ==
    CASE m.kind = "store_code"  -> StoreCode(s)
      [] m.kind = "instantiate" -> Instantiate(s, m, o)
      [] m.kind = "execute"     -> Execute(s, m, o)
      [] m.kind = "migrate"     -> MigrateContract(s)

\* The messages in order, their events extended onto one array; the `?`
\* stops at the first that does not succeed, whose error is the result:
\* what the earlier ones did stays, the events they emitted are dropped.
RECURSIVE RunMsgs(_, _, _)
RunMsgs(s, ms, os) ==
    IF ms = <<>> THEN Ok(s, <<>>)
    ELSE LET r == ApplyMsg(s, Head(ms), Head(os)) IN
         IF r.status # "ok" THEN r
         ELSE LET rest == RunMsgs(r.st, Tail(ms), Tail(os)) IN
              IF rest.status # "ok" THEN rest
              ELSE Ok(rest.st, r.events \o rest.events)

\* Message lists of a transaction or of the genesis state.
MsgLists(min) == UNION {[1..n -> Msgs] : n \in min..MaxTxMsgs}

\* The wasm outcomes for a list of messages.
OutcomeLists(ms) == [DOMAIN ms -> Outcomes]

-----------------------------------------------------------------------------
(* Queries.  An answer is Answer(v) or Error(e); the JSON encoding of the *)
(* response is left out.                                                  *)

Answer(v) == [ok |-> TRUE, value |-> v]
Error(e) == [ok |-> FALSE, value |-> e]

\* The queries handle_query accepts.
Queries ==
    [kind : {"account"}, address : Senders]
    \cup [kind : {"code"}, code_id : 1..MaxCodes]
    \cup [kind : {"contract"}, contract : 1..MaxContracts]
    \cup [kind : {"wasm_raw"}, contract : 1..MaxContracts, key : Keys]
    \cup [kind : {"wasm_smart"}, contract : 1..MaxContracts]

\* query_account: an unknown address answers Ok with no pubkey and
\* sequence 0.
QueryAccount(s, a) ==
    Answer(IF a \in DOMAIN s.accounts THEN [pubkey |-> TRUE, sequence |-> s.accounts[a]]
           ELSE [pubkey |-> FALSE, sequence |-> 0])

\* query_code: code_not_found for an unknown id.
QueryCode(s, id) ==
    IF id \in DOMAIN s.codes THEN Answer(s.codes[id]) ELSE Error("code_not_found")

\* query_contract.
QueryContract(s, c) ==
    IF c \in DOMAIN s.contracts THEN Answer(s.contracts[c]) ELSE Error("contract_not_found")

\* query_wasm_raw: a read of a clone of the contract's store.
QueryWasmRaw(s, c, k) ==
    IF c \in DOMAIN s.stores THEN Answer(s.stores[c][k]) ELSE Error("contract_not_found")

\* query_wasm_smart: the VM runs the contract's code on a clone of its
\* store with the fixed mock_env, so its answer is a function of the code
\* and the store.  `self.contracts[..]` and `self.codes[..]` panic when
\* the entry is missing.
QueryWasmSmart(s, c) ==
    CASE c \notin DOMAIN s.stores -> Error("contract_not_found")
      [] c \notin DOMAIN s.contracts \/ s.contracts[c].code_id \notin DOMAIN s.codes -> Error("panic")
      [] OTHER -> Answer(<<s.codes[s.contracts[c].code_id], s.contracts[c].code_id, s.stores[c]>>)

\* handle_query: the match on SdkQuery, on the State as it is now.
HandleQuery(s, q) ==
    CASE q.kind = "account"    -> QueryAccount(s, q.address)
      [] q.kind = "code"       -> QueryCode(s, q.code_id)
      [] q.kind = "contract"   -> QueryContract(s, q.contract)
      [] q.kind = "wasm_raw"   -> QueryWasmRaw(s, q.contract, q.key)
      [] q.kind = "wasm_smart" -> QueryWasmSmart(s, q.contract)

-----------------------------------------------------------------------------

\* init_chain: run gen_msgs as the deployer; an error fails init_chain and
\* the node does not start, a panic aborts it.
InitChain ==
    /\ phase = "genesis"
    /\ \E ms \in MsgLists(0) : \E os \in OutcomeLists(ms) :
         LET r == RunMsgs(st, ms, os) IN
         /\ r.status # "bound"
         /\ st' = r.st
         /\ phase' = CASE r.status = "ok"    -> "running"
                        [] r.status = "err"   -> "stopped"
                        [] r.status = "panic" -> "panicked"
         /\ committed' = r.st
    /\ UNCHANGED accepted

\* auth::authenticate_tx (not in the repository, spec 3): the sequence of
\* the tx must be the account's, and the account comes back incremented.
SequenceOf(s, sender) == IF sender \in DOMAIN s.accounts THEN s.accounts[sender] ELSE 0

\* Mutant: the incremented account is inserted only if every message succeeds.
HandleTxBumpOnSuccess(sender, seq, ms, os) ==
    /\ phase = "running"
    /\ seq = SequenceOf(st, sender)
    /\ seq < MaxSeq
    /\ LET r == RunMsgs(st, ms, os)
           bumped == [r.st EXCEPT !.accounts = (sender :> seq + 1) @@ @]
       IN /\ r.status # "bound"
          /\ st' = IF r.status = "ok" THEN bumped ELSE r.st
          /\ phase' = IF r.status = "panic" THEN "panicked" ELSE phase
    /\ accepted' = Append(accepted, <<sender, seq>>)
    /\ UNCHANGED committed

\* handle_tx after auth: the incremented account is inserted before the
\* messages run, then the messages run in order.  A panic of a message
\* takes the node down.
HandleTx(sender, seq, ms, os) ==
    /\ phase = "running"
    /\ seq = SequenceOf(st, sender)
    /\ seq < MaxSeq
    /\ LET r == RunMsgs([st EXCEPT !.accounts = (sender :> seq + 1) @@ @], ms, os) IN
       /\ r.status # "bound"
       /\ st' = r.st
       /\ phase' = IF r.status = "panic" THEN "panicked" ELSE phase
    /\ accepted' = Append(accepted, <<sender, seq>>)
    /\ UNCHANGED committed

\* commit: height += 1.
Commit ==
    /\ phase = "running"
    /\ st.height < MaxHeight
    /\ st' = [st EXCEPT !.height = @ + 1]
    /\ committed' = st'
    /\ UNCHANGED <<phase, accepted>>

Init ==
    /\ st = InitState
    /\ phase = "genesis"
    /\ accepted = <<>>
    /\ committed = InitState

Next ==
    \/ InitChain
    \/ \E sender \in Senders, seq \in 0..MaxSeq, ms \in MsgLists(1) :
         \E os \in OutcomeLists(ms) : HandleTx(sender, seq, ms, os)
    \/ Commit

Spec == Init /\ [][Next]_vars

-----------------------------------------------------------------------------
(* Properties.                                                            *)

\* Type invariant.
TypeOK ==
    /\ st.height \in 0..MaxHeight
    /\ st.code_count \in 0..MaxCodes
    /\ st.contract_count \in 0..MaxContracts
    /\ st.accounts \in [DOMAIN st.accounts -> 0..MaxSeq] /\ DOMAIN st.accounts \subseteq Senders
    /\ DOMAIN st.codes \subseteq 1..MaxCodes
    /\ DOMAIN st.contracts \subseteq 1..MaxContracts
    /\ DOMAIN st.stores \subseteq 1..MaxContracts
    /\ st.contracts \in [DOMAIN st.contracts -> [code_id : 1..MaxCodes, label : Labels]]
    /\ st.stores \in [DOMAIN st.stores -> ContractStores]
    /\ phase \in {"genesis", "running", "stopped", "panicked"}

\* Spec invariants 1, 2 and 4: code ids are 1..code_count without gaps,
\* contracts and their stores both exist exactly at 1..contract_count,
\* and every contract runs a stored code.  A message that fails after
\* touching a counter, or inserts one map and not the other, breaks it.
RegistryConsistent ==
    /\ DOMAIN st.codes = 1..st.code_count
    /\ DOMAIN st.contracts = 1..st.contract_count
    /\ DOMAIN st.stores = 1..st.contract_count
    /\ \A a \in DOMAIN st.contracts : st.contracts[a].code_id \in DOMAIN st.codes

\* Replay protection: handle_tx consumes the sender's sequence whether its
\* messages succeed or not, so no <<sender, sequence>> passes auth twice
\* and the messages of a failed transaction that did take effect cannot be
\* replayed.
NoTxReplayed == IsInjective(accepted)

\* Spec 7: an Instantiate naming a code id that is not stored is rejected
\* with CodeNotFound; the node never panics on a message.
NoPanic == phase # "panicked"

\* Spec 4.5: a message either takes effect or leaves the state as it was.
\* In every reachable state, every message that instantiate_contract,
\* execute_contract, store_code or migrate_contract rejects, whatever the
\* wasm call returned, returns the state it was given: no counter, map or
\* store is written before a check that can still fail.
MessageAtomic ==
    \A m \in Msgs, o \in Outcomes :
        LET r == ApplyMsg(st, m, o) IN r.status = "err" => r.st = st

\* Spec 4.6: queries use the committed store.  handle_query reads the live
\* State, which handle_tx changes before commit; the property says every
\* query answers what it answers on the state of the last commit.
QueriesAnswerFromCommittedState ==
    \A q \in Queries : HandleQuery(st, q) = HandleQuery(committed, q)

\* The SdkMsg::Instantiate label "Must be unique" (msg.rs): no two
\* contracts that instantiate_contract registered carry the same label.
LabelsUnique ==
    \A a, b \in DOMAIN st.contracts :
        a # b => st.contracts[a].label # st.contracts[b].label

\* The events the host emitted, without those of the contracts' Responses.
HostEvents(events) == SelectSeq(events, LAMBDA e : e.type # "wasm")

\* The ids that events of the given type name.
Reported(events, type) == {e.id : e \in {x \in ToSet(events) : x.type = type}}

\* The primary event of each kind of message.
PrimaryType == [store_code |-> "store_code", instantiate |-> "instantiate_contract",
                execute |-> "execute_contract", migrate |-> "none"]

\* Spec 5 and 8.6: in every reachable state, the events handle_tx would
\* return for any transaction that succeeds hold one primary event per
\* message, in message order, each ahead of the events of its contract's
\* Response; an execute_contract event names the contract called, and the
\* store_code and instantiate_contract events name exactly the code ids
\* and contract addresses the transaction registers.
EventsReportTx ==
    phase = "running" =>
    \A ms \in MsgLists(1) : \A os \in OutcomeLists(ms) :
        LET r == RunMsgs(st, ms, os)
            h == HostEvents(r.events)
        IN r.status = "ok" =>
           /\ Len(h) = Len(ms)
           /\ \A i \in DOMAIN h :
                 /\ h[i].type = PrimaryType[ms[i].kind]
                 /\ ms[i].kind = "execute" => h[i].id = ms[i].contract
           /\ r.events # <<>> => r.events[1].type # "wasm"
           /\ Reported(r.events, "store_code") = DOMAIN r.st.codes \ DOMAIN st.codes
           /\ Reported(r.events, "instantiate_contract") = DOMAIN r.st.contracts \ DOMAIN st.contracts

Registry == INSTANCE ChainRegistry WITH
    codes <- st.codes, contracts <- st.contracts, seqs <- st.accounts

\* The sdk State implements ChainRegistry: across init_chain, handle_tx
\* with any mix of succeeding and failing messages, and commit, a stored
\* code or a registered contract is never replaced or removed, every
\* contract runs a stored code, and no account's sequence goes back.
RegistrySpec == Registry!Spec

=============================================================================
