-------------------------- MODULE ExecutionContext --------------------------
(***************************************************************************)
(* The execution of one transaction (or of one gas estimation): the undo   *)
(* stack of ExecutionContext, the MessageDispatcher with its checkpoints,  *)
(* the EVM and C++ executors, and the ContractHost with the Safe variables *)
(* of C++ contracts.                                                       *)
(*                                                                         *)
(* The world is what the context can undo: cells (the fields of accounts,  *)
(* one storage slot per account, the keys of the maps of C++ contracts and *)
(* of EVM codes), events and newContracts.  A frame is an open onMessage:  *)
(* size is its checkpoint, todo the changes it makes next, ended whether   *)
(* its code has returned.  Gas is left out: running out of it is one of    *)
(* the reasons to throw.  So are precompiled contracts, which change       *)
(* nothing, and the transient storage.                                     *)
(***************************************************************************)
EXTENDS Integers, Sequences, FiniteSets

CONSTANTS Addr,             \* addresses of accounts
          NoAddr,
          User,             \* the sender of the transaction
          Manager,          \* the ContractManager protocol contract
          Creators,         \* accounts whose EVM code creates contracts
          CppCreators,      \* accounts whose EVM code calls the ContractManager
          Amounts,          \* values that messages carry
          Derive(_, _),     \* generateContractAddress(nonce, from); not in Addr: outside the bounds
          Salted(_),        \* generateContractAddress(from, salt, code) of one salt and code
          InitCells,        \* the cells when the transaction starts
          InitAccounts,     \* the keys of accounts_ when it starts
          MaxDepth,         \* bound on the open calls
          MaxSteps          \* bound on what the code does: calls, creations, writes

VARIABLES world,            \* [cells, events, newContracts]
          undo,             \* ExecutionContext::transactions_
          past,             \* history: the world before each entry of undo
          frames,           \* the open calls
          mode,             \* "idle", "run", "unwind" (an exception is in flight), "done"
          cppReverted,      \* MessageDispatcher::cppContractReverted_
          cppFailed,        \* history: an exception has left a call of a C++ contract
          simulate,         \* ContractHost::simulate was called instead of execute
          outcome,          \* how the top-level message ended: "none", "ok", "failed"
          safe, copy,       \* value_ and copy_ of one Safe variable per C++ contract
          usedVars,         \* ContractStack::usedVars_
          accounts,         \* the keys of accounts_
          flushed,          \* events put in the event database
          dumpables,        \* contracts handed to the DumpManager
          steps             \* what the code has done so far

context == <<world, undo, past>>
safeVars == <<safe, copy, usedVars>>
hostVars == <<simulate, outcome, cppFailed, flushed, dumpables>>
vars == <<context, frames, mode, cppReverted, accounts, safeVars, hostVars, steps>>

Absent == 0 - 1
NOT_A_CONTRACT == 0
EVM == 1
CPP == 2

Fields == {"balance", "nonce", "code", "type", "slot", "contract"}
Cell(f, a) == <<f, a>>
EvmCode == <<"evmContracts", NoAddr>>
Cells == (Fields \X Addr) \cup {EvmCode}
World(c, e, n) == [cells |-> c, events |-> e, newContracts |-> n]
InitWorld == World(InitCells, <<>>, <<>>)

ASSUME ExecutionAssumption ==
    /\ InitCells \in [Cells -> Int]
    /\ {User, Manager} \subseteq Addr
    /\ Amounts \subseteq Nat
    /\ MaxDepth \in Nat /\ MaxSteps \in Nat

-----------------------------------------------------------------------------
(* The undo stack.                                                         *)

(* A change: of a cell, an event, a new contract.  "notify" is the first   *)
(* half of notifyNewContract: its entry erases the address from the map    *)
(* of C++ contracts, whether or not this creation put it there.            *)
Change(op, cell, val) == [op |-> op, cell |-> cell, val |-> val]
SetCell(f, a, val) == Change("set", Cell(f, a), val)
AddTo(f, a, n) == Change("add", Cell(f, a), n)
InsertCode == Change("insert", EvmCode, 1)
EmitEvent == Change("event", EvmCode, 0)
NotifyNewContract(a, val, isCpp) ==
    <<Change("notify", Cell("contract", a), val), Change("new", Cell("contract", a), isCpp)>>

NewValue(w, c) == IF c.op = "add" THEN w.cells[c.cell] + c.val ELSE c.val
After(w, c) ==
    CASE c.op = "event" -> World(w.cells, Append(w.events, Len(w.events)), w.newContracts)
      [] c.op = "new" -> World(w.cells, w.events, Append(w.newContracts, <<c.cell[2], c.val>>))
      [] OTHER -> World([w.cells EXCEPT ![c.cell] = NewValue(w, c)], w.events, w.newContracts)

Entry(op, cell, old) == [op |-> op, cell |-> cell, old |-> old]
OldValue(w, c) == IF c.op = "notify" THEN Absent ELSE w.cells[c.cell]
EntryFor(w, c) ==
    IF c.op \in {"event", "new"} THEN Entry(c.op, c.cell, Absent)
    ELSE Entry("cell", c.cell, OldValue(w, c))

Front(s) == SubSeq(s, 1, Len(s) - 1)
(* Mutant: a revert does not pop newContracts.                             *)
Undone_KeepsNew(w, e) ==
    CASE e.op = "event" -> World(w.cells, Front(w.events), w.newContracts)
      [] e.op = "new" -> w
      [] OTHER -> World([w.cells EXCEPT ![e.cell] = e.old], w.events, w.newContracts)
Undone(w, e) ==
    CASE e.op = "event" -> World(w.cells, Front(w.events), w.newContracts)
      [] e.op = "new" -> World(w.cells, w.events, Front(w.newContracts))
      [] OTHER -> World([w.cells EXCEPT ![e.cell] = e.old], w.events, w.newContracts)

(* checkEVMContract stores a code, and pushes an entry, only the first     *)
(* time.                                                                   *)
Stored(c) == c.op = "insert" /\ world.cells[c.cell] # Absent
Record(c) ==
    IF Stored(c) THEN UNCHANGED context
    ELSE /\ world' = After(world, c)
         /\ undo' = Append(undo, EntryFor(world, c))
         /\ past' = Append(past, world)

-----------------------------------------------------------------------------
(* Frames.                                                                 *)

Frame(kind, self, size, todo, ended) ==
    [kind |-> kind, self |-> self, size |-> size, todo |-> todo, ended |-> ended]
Depth == Len(frames)
Top == frames[Depth]
Get(f, a) == world.cells[Cell(f, a)]
Caller == IF Depth = 1 THEN User ELSE frames[Depth - 1].self
CallerKind == IF Depth = 1 THEN "host" ELSE frames[Depth - 1].kind

Step == steps < MaxSteps /\ steps' = steps + 1
SetTop(todo, ended) ==
    frames' = [frames EXCEPT ![Depth] = Frame(Top.kind, Top.self, Top.size, todo, ended)]

(* The code of the top frame is running.                                   *)
Executing == mode = "run" /\ frames # <<>> /\ Top.todo = <<>> /\ ~Top.ended
InEvm == Executing /\ Top.kind \in {"evm", "create", "create2"}
InCpp == Executing /\ Top.kind = "cpp" /\ Top.self # Manager /\ Get("contract", Top.self) # Absent
InManager == Executing /\ Top.self = Manager /\ Top.kind \in {"cpp", "cppcreate"}

Init ==
    /\ world = InitWorld /\ undo = <<>> /\ past = <<>> /\ frames = <<>>
    /\ mode = "idle" /\ cppReverted = FALSE /\ cppFailed = FALSE
    /\ accounts = InitAccounts
    /\ safe = [a \in Addr |-> 0] /\ copy = safe /\ usedVars = {}
    /\ simulate \in BOOLEAN /\ outcome = "none" /\ flushed = <<>> /\ dumpables = {}
    /\ steps = 0

(* State::processTransaction and State::estimateGas build the context and  *)
(* the host.                                                               *)
BuildHost ==
    /\ mode = "idle" /\ mode' = "run"
    /\ UNCHANGED <<context, frames, cppReverted, accounts, safeVars, hostVars, steps>>

-----------------------------------------------------------------------------
(* onMessage: the checkpoint is taken, then the message is dispatched.     *)

Open(kind, self, todo) ==
    /\ Depth < MaxDepth /\ Step
    /\ frames' = Append(frames, Frame(kind, self, Len(undo), todo, FALSE))
    /\ UNCHANGED <<context, safeVars, hostVars>>

KindOf(a) == CASE Get("type", a) = EVM -> "evm" [] Get("type", a) = CPP -> "cpp" [] OTHER -> "none"

TransferFunds(from, to, value) ==
    IF value = 0 THEN <<>> ELSE <<AddTo("balance", from, 0 - value), AddTo("balance", to, value)>>

(* A call transfers the value, and the type of the recipient's account     *)
(* selects the executor.  getAccount creates the accounts it looks up.     *)
(* Without the funds transferBalance throws, before any executor runs.     *)
OpenCall(from, to, value) ==
    /\ accounts' = accounts \cup {to} \cup (IF value = 0 THEN {} ELSE {from})
    /\ UNCHANGED cppReverted
    /\ IF Get("balance", from) < value
       THEN mode' = "unwind" /\ Open("none", to, <<>>)
       ELSE mode' = "run" /\ Open(KindOf(to), to, TransferFunds(from, to, value))

(* A creation of an EVM contract runs the init code as the new account.    *)
(* The account of the new contract is looked up when the code returns.     *)
OpenCreate(kind, from, a) ==
    /\ a \in Addr
    /\ accounts' = IF kind = "create" THEN accounts \cup {from} ELSE accounts
    /\ UNCHANGED <<mode, cppReverted>>
    /\ Open(kind, a, <<>>)

(* ContractHost::execute and simulate: the top-level message.              *)
Ready == mode = "run" /\ frames = <<>> /\ outcome = "none"
ExecuteCall(to, value) == Ready /\ OpenCall(User, to, value)
ExecuteCreate == Ready /\ OpenCreate("create", User, Derive(User, Get("nonce", User)))

(* EvmContractExecutor::call.                                              *)
EvmCall(to, value) ==
    InEvm /\ (to = Manager => Top.self \in CppCreators) /\ OpenCall(Top.self, to, value)
EvmCreate ==
    InEvm /\ Top.self \in Creators /\ OpenCreate("create", Top.self, Derive(Top.self, Get("nonce", Top.self)))
EvmCreate2 == InEvm /\ Top.self \in Creators /\ OpenCreate("create2", Top.self, Salted(Top.self))

(* A delegate call runs EVM code as the calling account.  The C++ executor *)
(* refuses it, inside the handler that sets cppContractReverted_.          *)
EvmDelegateCall(to) ==
    /\ InEvm
    /\ accounts' = accounts \cup {to}
    /\ Open(KindOf(to), Top.self, <<>>)
    /\ mode' = IF KindOf(to) = "cpp" THEN "unwind" ELSE "run"
    /\ cppReverted' = (cppReverted \/ KindOf(to) = "cpp")

(* ContractHost::callContractFunction and callCreateContract.              *)
CppCall(to, value) == InCpp /\ to # Manager /\ OpenCall(Top.self, to, value)
CppCreate ==
    /\ InCpp
    /\ Derive(Top.self, Get("nonce", Top.self)) \in Addr
    /\ accounts' = accounts \cup {Top.self}
    /\ UNCHANGED <<mode, cppReverted>>
    /\ Open("cppcreate", Manager, <<>>)

-----------------------------------------------------------------------------
(* What the code of a frame does.                                          *)

(* set_storage and emit_log of the EVM; emitEvent of a C++ contract.       *)
SetStorage(v) ==
    /\ InEvm /\ Step /\ SetTop(<<SetCell("slot", Top.self, v)>>, FALSE)
    /\ UNCHANGED <<context, mode, cppReverted, accounts, safeVars, hostVars>>
Emit ==
    /\ InEvm \/ InCpp
    /\ Step /\ SetTop(<<EmitEvent>>, FALSE)
    /\ UNCHANGED <<context, mode, cppReverted, accounts, safeVars, hostVars>>

(* DynamicContract::sendTokens: transferBalance without a message.         *)
SendTokens(to, value) ==
    /\ InCpp /\ Step
    /\ accounts' = accounts \cup {Top.self, to}
    /\ UNCHANGED <<context, safeVars, hostVars>>
    /\ IF Get("balance", Top.self) < value
       THEN mode' = "unwind" /\ cppReverted' = TRUE /\ UNCHANGED frames
       ELSE /\ SetTop(<<AddTo("balance", Top.self, 0 - value), AddTo("balance", to, value)>>, FALSE)
            /\ UNCHANGED <<mode, cppReverted>>

(* Mutant: the assignment forgets markAsUsed.                              *)
SafeAssign_Unmarked(v) ==
    /\ InCpp /\ Step
    /\ safe' = [safe EXCEPT ![Top.self] = v]
    /\ UNCHANGED <<context, frames, mode, cppReverted, accounts, copy, usedVars, hostVars>>

(* An assignment to a Safe variable: markAsUsed, then value_.              *)
SafeAssign(v) ==
    /\ InCpp /\ Step
    /\ safe' = [safe EXCEPT ![Top.self] = v]
    /\ usedVars' = usedVars \cup {Top.self}
    /\ UNCHANGED <<context, frames, mode, cppReverted, accounts, copy, hostVars>>

(* The changes that a handler makes one after the other.                   *)
Mutate ==
    /\ mode = "run" /\ frames # <<>> /\ Top.todo # <<>>
    /\ Record(Head(Top.todo))
    /\ SetTop(Tail(Top.todo), Top.ended)
    /\ UNCHANGED <<mode, cppReverted, accounts, safeVars, hostVars, steps>>

(* createContractImpl after the init code, then the creator's nonce.       *)
NextNonce(a) == IF Get("type", a) = NOT_A_CONTRACT THEN <<>> ELSE <<AddTo("nonce", a, 1)>>
FinishCreate(value) ==
    /\ InEvm /\ Top.kind # "evm"
    /\ SetTop(<<InsertCode, SetCell("nonce", Top.self, 1), SetCell("code", Top.self, 1),
                SetCell("type", Top.self, EVM), AddTo("balance", Top.self, value)>>
              \o NotifyNewContract(Top.self, Get("contract", Top.self), 0)
              \o (IF Top.kind = "create" THEN NextNonce(Caller) ELSE <<>>), TRUE)
    /\ accounts' = accounts \cup {Top.self}
    /\ UNCHANGED <<context, mode, cppReverted, safeVars, hostVars, steps>>

(* ContractManager::ethCall: createNewContract and addContract, for the    *)
(* caller of the manager.  Only a C++ creator's nonce is incremented.      *)
NewCppAddress == Derive(Caller, Get("nonce", Caller))
CreateNewContract ==
    /\ InManager
    /\ NewCppAddress \in Addr
    /\ Get("contract", NewCppAddress) = Absent
    /\ SetTop(<<SetCell("nonce", NewCppAddress, 1), SetCell("type", NewCppAddress, CPP)>>
              \o NotifyNewContract(NewCppAddress, 1, 1)
              \o (IF Top.kind = "cppcreate" THEN NextNonce(Caller) ELSE <<>>), TRUE)
    /\ accounts' = accounts \cup {Caller, NewCppAddress}
    /\ safe' = [safe EXCEPT ![NewCppAddress] = 0]
    /\ copy' = [copy EXCEPT ![NewCppAddress] = 0]
    /\ UNCHANGED <<context, mode, cppReverted, usedVars, hostVars, steps>>

-----------------------------------------------------------------------------
(* How a frame ends.                                                       *)

(* Mutant: dispatchCppCall does not catch.                                 *)
Throw_Unnoticed ==
    /\ Executing
    /\ mode' = "unwind"
    /\ UNCHANGED <<context, frames, cppReverted, accounts, safeVars, hostVars, steps>>

(* Any exception of the code: a revert, no gas, a C++ throw, an address    *)
(* that is taken.  dispatchCppCall remembers the exceptions of C++ calls.  *)
Throw ==
    /\ Executing
    /\ mode' = "unwind"
    /\ cppReverted' = (cppReverted \/ Top.kind = "cpp")
    /\ UNCHANGED <<context, frames, accounts, safeVars, hostVars, steps>>

(* A payment to an account without code returns; only EVM code and         *)
(* transactions send messages with an empty input.  A C++ call needs its   *)
(* contract.  Creations return when they have ended.                       *)
CanReturn ==
    CASE Top.kind = "none" -> CallerKind # "cpp"
      [] Top.kind = "cpp" -> Get("contract", Top.self) # Absent
      [] Top.kind = "evm" -> TRUE
      [] OTHER -> Top.ended

Close(how) ==
    /\ frames' = Front(frames)
    /\ outcome' = IF Depth = 1 THEN how ELSE outcome
    /\ cppFailed' = (cppFailed \/ (how = "failed" /\ Top.kind = "cpp"))
    /\ UNCHANGED <<accounts, safeVars, simulate, flushed, dumpables, steps>>
(* checkCppContractReverted, then Checkpoint::commit.                      *)
Return ==
    /\ mode = "run" /\ frames # <<>> /\ Top.todo = <<>> /\ CanReturn
    /\ ~cppReverted
    /\ Close("ok")
    /\ UNCHANGED <<context, mode, cppReverted>>
ReturnThrows ==
    /\ mode = "run" /\ frames # <<>> /\ Top.todo = <<>> /\ CanReturn
    /\ cppReverted
    /\ mode' = "unwind"
    /\ UNCHANGED <<context, frames, cppReverted, accounts, safeVars, hostVars, steps>>

(* Mutant: an entry is undone and stays on the stack.                      *)
UndoLast_Keeps ==
    /\ world' = Undone(world, undo[Len(undo)])
    /\ past' = Front(past)
    /\ UNCHANGED undo

(* An exception leaves onMessage: the checkpoint's destructor pops the     *)
(* entries above it, each of which undoes its change.                      *)
UndoLast ==
    /\ world' = Undone(world, undo[Len(undo)])
    /\ undo' = Front(undo)
    /\ past' = Front(past)
Unwind ==
    /\ mode = "unwind" /\ frames # <<>> /\ Len(undo) > Top.size
    /\ UndoLast
    /\ UNCHANGED <<frames, mode, cppReverted, accounts, safeVars, hostVars, steps>>

(* Mutant: the checkpoint leaves one entry too many.                       *)
Caught_Early ==
    /\ mode = "unwind" /\ frames # <<>> /\ Len(undo) <= Top.size + 1
    /\ Close("failed")
    /\ mode' = IF CallerKind \in {"cpp", "cppcreate"} THEN "unwind" ELSE "run"
    /\ cppReverted' = (cppReverted \/ CallerKind = "cpp")
    /\ UNCHANGED context

(* The exception reaches the caller: EVM code gets a failed result and     *)
(* continues, C++ code is left as well.                                    *)
Caught ==
    /\ mode = "unwind" /\ frames # <<>> /\ Len(undo) <= Top.size
    /\ Close("failed")
    /\ mode' = IF CallerKind \in {"cpp", "cppcreate"} THEN "unwind" ELSE "run"
    /\ cppReverted' = (cppReverted \/ CallerKind = "cpp")
    /\ UNCHANGED context

-----------------------------------------------------------------------------
(* ContractHost::~ContractHost.                                            *)

MustRevert == outcome = "failed" \/ simulate
Ended == mode = "run" /\ frames = <<>> /\ outcome # "none"

HostCommit ==
    /\ Ended /\ ~MustRevert
    /\ copy' = [a \in Addr |-> IF a \in usedVars THEN safe[a] ELSE copy[a]]
    /\ usedVars' = {}
    /\ dumpables' = {c[1] : c \in {d \in {world.newContracts[i] : i \in 1..Len(world.newContracts)} : d[2] = 1}}
    /\ flushed' = world.events
    /\ world' = World(world.cells, <<>>, <<>>) /\ undo' = <<>> /\ past' = <<>>
    /\ mode' = "done"
    /\ UNCHANGED <<frames, cppReverted, cppFailed, accounts, safe, simulate, outcome, steps>>

HostRevert ==
    /\ Ended /\ MustRevert
    /\ safe' = [a \in Addr |-> IF a \in usedVars THEN copy[a] ELSE safe[a]]
    /\ usedVars' = {}
    /\ mode' = "unwind"
    /\ UNCHANGED <<context, frames, cppReverted, accounts, copy, hostVars, steps>>
HostUnwind ==
    /\ mode = "unwind" /\ frames = <<>> /\ undo # <<>>
    /\ UndoLast
    /\ UNCHANGED <<frames, mode, cppReverted, accounts, safeVars, hostVars, steps>>
HostReverted ==
    /\ mode = "unwind" /\ frames = <<>> /\ undo = <<>>
    /\ world' = World(world.cells, <<>>, <<>>)
    /\ mode' = "done"
    /\ UNCHANGED <<undo, past, frames, cppReverted, accounts, safeVars, hostVars, steps>>

Finished == mode = "done" /\ UNCHANGED vars

Next ==
    \/ BuildHost
    \/ ExecuteCreate
    \/ \E to \in Addr, value \in Amounts : 
           ExecuteCall(to, value) \/ EvmCall(to, value) \/ CppCall(to, value) \/ SendTokens(to, value)
    \/ \E to \in Addr : EvmDelegateCall(to)
    \/ EvmCreate \/ EvmCreate2 \/ CppCreate
    \/ \E v \in {0, 1} : SetStorage(v) \/ SafeAssign(v)
    \/ \E value \in Amounts : FinishCreate(value)
    \/ CreateNewContract \/ Emit \/ Mutate
    \/ Throw \/ Return \/ ReturnThrows \/ Unwind \/ Caught
    \/ HostCommit \/ HostRevert \/ HostUnwind \/ HostReverted
    \/ Finished

Spec == Init /\ [][Next]_vars

-----------------------------------------------------------------------------
(* The world an observer of the transaction sees: cells, and the events    *)
(* (in the database once the host is gone).                                *)
Abs(w) == [cells |-> w.cells, events |-> w.events]
AbsWorld == [cells |-> world.cells, events |-> IF mode = "done" THEN flushed ELSE world.events]

(* The world when the undo stack had i entries, and the worlds at the      *)
(* start of the host and of every frame.                                   *)
At(i) == IF i < Len(past) THEN past[i + 1] ELSE world
Saved ==
    IF mode \in {"idle", "done"} THEN <<>>
    ELSE [i \in 1..(Depth + 1) |-> Abs(At(IF i = 1 THEN 0 ELSE frames[i - 1].size))]

Nested == INSTANCE NestedTransactions WITH world <- AbsWorld, saved <- Saved, failing <- (mode = "unwind")

(* Nested calls are nested transactions: a message whose onMessage throws  *)
(* leaves the world as it was when onMessage began, one that returns keeps *)
(* its changes, and a failed or simulated transaction changes nothing.     *)
(* So it is while no account creates both through the ContractManager and  *)
(* by EVM code: such an account derives one address twice, and the undo    *)
(* entry of the second creation erases what the first one made.            *)
Refines == Nested!Spec

(* Every cell stays an integer and every set one of addresses; the world   *)
(* before each entry of the undo stack is known.                           *)
ContextTypeOK ==
    /\ world.cells \in [Cells -> Int]
    /\ Len(past) = Len(undo)
    /\ mode \in {"idle", "run", "unwind", "done"} /\ outcome \in {"none", "ok", "failed"}
    /\ accounts \subseteq Addr /\ usedVars \subseteq Addr /\ dumpables \subseteq Addr

(* A failure of a C++ call cannot be swallowed: once an exception has left *)
(* a call of a C++ contract, wherever it came from and whatever the EVM    *)
(* code that made the call does next, the transaction fails in the end.    *)
CppFailureIsFatal == outcome = "ok" => ~cppFailed

(* The pointers in newContracts, which the host hands to the DumpManager,  *)
(* are to contracts that exist (with the restriction of Refines).          *)
NewContractsAlive ==
    \A i \in 1..Len(world.newContracts) :
        world.newContracts[i][2] = 1 /\ frames = <<>> => Get("contract", world.newContracts[i][1]) # Absent

(* When the host is gone the Safe variables of the contracts that exist    *)
(* are settled: value_ is copy_, the old value if the transaction failed   *)
(* or was simulated.                                                       *)
SafeSettled ==
    mode = "done" =>
        \A a \in Addr : Get("contract", a) # Absent =>
            safe[a] = copy[a] /\ (MustRevert => safe[a] = 0)

(* "If the process fails, any state change that this transaction would     *)
(* cause has to be reverted" (core/state.h:60).                            *)
FailedChangesNothing == mode = "done" /\ outcome = "failed" => world.cells = InitCells

(* The host calls commit() or revert() on Safe variables of contracts that *)
(* exist.                                                                  *)
UsedVarsAlive == Ended => \A a \in usedVars : Get("contract", a) # Absent
=============================================================================
