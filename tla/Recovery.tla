------------------------------ MODULE Recovery ------------------------------
(***************************************************************************)
(* What of a node survives a crash: the block store and the events of      *)
(* core/storage.cpp and utils/eventsdb.cpp, the snapshots that the dump    *)
(* worker writes (core/dump.cpp) and the restart that loads the newest one *)
(* and replays the blocks after it (the constructor of core/state.cpp).    *)
(*                                                                         *)
(* Execution is deterministic, so the content of a dumpable (the State,    *)
(* the ContractManager, a contract) is the sequence of the blocks that it  *)
(* has executed.  A block [id, creates] has one transaction, which emits   *)
(* one event and may create a contract.  The set of validators that rdPoS  *)
(* dumps never changes and is left out.                                    *)
(***************************************************************************)
EXTENDS Integers, Sequences, FiniteSets

CONSTANTS Blocks, Contracts, NoBlock, NoContract,
          DumpTrigger,      \* Options::getStateDumpTrigger
          CrashPoints,      \* where in a dump the process may die
          MaxHeight, MaxCrashes

VARIABLES chain,            \* blocksDb_: the stored blocks, by height
          events,           \* eventsDb_: height -> rows in event_index order
          snapshots,        \* stateDb/<height>: height -> dumpable -> batch
          mode,             \* "down", "replay", "up" or "dead": the constructor threw
          world,            \* dumpable -> content, in memory
          dumpables,        \* DumpManager::dumpables_
          busy,             \* the block executed and not yet stored
          dump,             \* the worker: pc, latestBlock, height, batches to write
          crashes

diskVars == <<chain, events, snapshots>>
memVars == <<mode, world, dumpables, busy, dump>>
vars == <<diskVars, memVars, crashes>>

ASSUME RecoveryAssumption ==
    /\ \A b \in Blocks : b.creates \in Contracts \cup {NoContract}
    /\ NoBlock \notin Blocks /\ NoContract \notin Contracts
    /\ {"State", "ContractManager"} \cap Contracts = {}
    /\ CrashPoints \subseteq {"idle", "open", "write"}
    /\ DumpTrigger \in Nat /\ MaxHeight \in Nat /\ MaxCrashes \in Nat

Core == {"ContractManager", "State"}
Created(blocks) == {blocks[i].creates : i \in DOMAIN blocks} \ {NoContract}
NoDump(size) == [pc |-> "idle", latestBlock |-> size, height |-> 0, batches |-> <<>>]

(* The content of every dumpable after it executes a block.                *)
Executed(w, b) ==
    [d \in DOMAIN w \cup Created(<<b>>) |-> IF d \in DOMAIN w THEN Append(w[d], b) ELSE <<b>>]

Init ==
    /\ chain = <<>>
    /\ events = [h \in 1..MaxHeight |-> <<>>]
    /\ snapshots = [h \in {} |-> <<>>]
    /\ mode = "down" /\ world = [d \in Core |-> <<>>] /\ dumpables = <<>>
    /\ busy = NoBlock /\ dump = NoDump(0)
    /\ crashes = 0

(* ContractHost writes the events of a transaction when it ends, and puts  *)
(* a contract that it created on the dump list; EventsDB numbers the row   *)
(* after the last one of its block.                                        *)
PutEvent(h, b) == events' = [events EXCEPT ![h] = Append(@, b.id)]
Register(b) ==
    dumpables' = IF b.creates = NoContract THEN dumpables ELSE Append(dumpables, b.creates)

-----------------------------------------------------------------------------
(* tryProcessNextBlock, up to the end of its transactions ...              *)
ExecuteBlock(b) ==
    /\ mode = "up" /\ busy = NoBlock /\ Len(chain) < MaxHeight
    /\ b.creates \notin DOMAIN world
    /\ PutEvent(Len(chain) + 1, b)
    /\ Register(b)
    /\ world' = Executed(world, b)
    /\ busy' = b
    /\ UNCHANGED <<chain, snapshots, mode, dump, crashes>>

(* ... and pushBlock: one write batch.                                     *)
StoreBlock ==
    /\ busy # NoBlock
    /\ chain' = Append(chain, busy)
    /\ busy' = NoBlock
    /\ UNCHANGED <<events, snapshots, mode, world, dumpables, dump, crashes>>

(* The worker copies every dumpable, once enough blocks were added.        *)
DumpAt(height) ==
    /\ mode = "up" /\ dump.pc = "idle"
    /\ dump.latestBlock + DumpTrigger < Len(chain) + 1
    /\ dump' = [dump EXCEPT !.pc = "open", !.height = height,
                   !.batches = [i \in DOMAIN dumpables |->
                                   [name |-> dumpables[i], content |-> world[dumpables[i]]]]]
    /\ UNCHANGED <<diskVars, mode, world, dumpables, busy, crashes>>

DumpState_Unlocked == DumpAt(IF busy = NoBlock THEN Len(chain) ELSE Len(chain) + 1)

(* dumpState does so under the unique lock, that is between two blocks.    *)
DumpState == busy = NoBlock /\ DumpAt(Len(chain))

(* dumpToDB creates the directory of the snapshot, ...                     *)
OpenSnapshot ==
    /\ dump.pc = "open"
    /\ snapshots' = [h \in DOMAIN snapshots \cup {dump.height} |->
                        IF h \in DOMAIN snapshots THEN snapshots[h] ELSE <<>>]
    /\ dump' = [dump EXCEPT !.pc = "write"]
    /\ UNCHANGED <<chain, events, mode, world, dumpables, busy, crashes>>

(* ... writes it batch by batch while blocks go on, ...                    *)
WriteBatch ==
    /\ dump.pc = "write" /\ dump.batches # <<>>
    /\ LET b == Head(dump.batches)
           old == snapshots[dump.height]
       IN  snapshots' = [snapshots EXCEPT ![dump.height] =
                            [d \in DOMAIN old \cup {b.name} |->
                                IF d = b.name THEN b.content ELSE old[d]]]
    /\ dump' = [dump EXCEPT !.batches = Tail(@)]
    /\ UNCHANGED <<chain, events, mode, world, dumpables, busy, crashes>>

(* ... and the worker notes the size the chain has by then.                *)
DumpDone ==
    /\ dump.pc = "write" /\ dump.batches = <<>>
    /\ dump' = NoDump(Len(chain) + 1)
    /\ UNCHANGED <<diskVars, mode, world, dumpables, busy, crashes>>

(* The process dies, or is stopped (the worker is idle then); the disk     *)
(* stays.                                                                  *)
Crash ==
    /\ mode \in {"replay", "up"} /\ dump.pc \in CrashPoints /\ crashes < MaxCrashes
    /\ mode' = "down" /\ world' = [d \in Core |-> <<>>] /\ dumpables' = <<>>
    /\ busy' = NoBlock /\ dump' = NoDump(0)
    /\ crashes' = crashes + 1
    /\ UNCHANGED diskVars

getBestStateDBPath ==
    IF DOMAIN snapshots = {} THEN 0
    ELSE CHOOSE h \in DOMAIN snapshots : \A g \in DOMAIN snapshots : g <= h

(* The batch of a dumpable in a snapshot; the contracts to load are those  *)
(* that the batch of the ContractManager lists.                            *)
getBatch(snap, d) == IF d \in DOMAIN snap THEN snap[d] ELSE <<>>
dbContracts(snap) == Created(getBatch(snap, "ContractManager"))
Loaded(snap) == [d \in Core \cup dbContracts(snap) |-> getBatch(snap, d)]

(* Mutant: a contract whose batch is missing starts empty.                 *)
Refuses_NotContracts(best, snap) ==
    \/ best > 0 /\ getBatch(snap, "State") = <<>>
    \/ best > Len(chain)
    \/ ~(Created(getBatch(snap, "State")) \subseteq dbContracts(snap))

(* The constructor throws on a snapshot without accounts, on one without   *)
(* its block, on a listed contract whose name, creator and chain id are    *)
(* not in the database, and on accounts of contracts that are not loaded.  *)
Refuses(best, snap) ==
    \/ best > 0 /\ getBatch(snap, "State") = <<>>
    \/ best > Len(chain)
    \/ ~(dbContracts(snap) \subseteq DOMAIN snap)
    \/ ~(Created(getBatch(snap, "State")) \subseteq dbContracts(snap))

Start ==
    /\ mode = "down"
    /\ LET best == getBestStateDBPath
           snap == IF best = 0 THEN <<>> ELSE snapshots[best]
           w == Loaded(snap)
       IN  IF Refuses(best, snap)
           THEN mode' = "dead" /\ UNCHANGED <<world, dumpables, dump>>
           ELSE /\ mode' = "replay"
                /\ world' = w
                /\ \E order \in [1..Cardinality(DOMAIN w \ Core) -> DOMAIN w \ Core] :
                      /\ \A c \in DOMAIN w \ Core : \E i \in DOMAIN order : order[i] = c
                      /\ dumpables' = Append(order, "ContractManager")
                /\ dump' = [NoDump(0) EXCEPT !.height = best]
    /\ UNCHANGED <<diskVars, busy, crashes>>

NextReplay_Again == IF dump.height = 0 THEN 1 ELSE dump.height
NextReplay == dump.height + 1

(* The loop of the constructor over the blocks after the snapshot, whose   *)
(* transactions are executed as any other (dump.height counts them).       *)
ReplayBlock ==
    /\ mode = "replay" /\ dump.height < Len(chain)
    /\ LET b == chain[NextReplay]
       IN  PutEvent(NextReplay, b) /\ Register(b) /\ world' = Executed(world, b)
    /\ dump' = [dump EXCEPT !.height = @ + 1]
    /\ UNCHANGED <<chain, snapshots, mode, busy, crashes>>

(* The State joins the dump list last; Blockchain::start starts the worker.*)
StartWorker ==
    /\ mode = "replay" /\ dump.height = Len(chain)
    /\ mode' = "up"
    /\ dumpables' = Append(dumpables, "State")
    /\ dump' = NoDump(Len(chain) + 1)
    /\ UNCHANGED <<diskVars, world, busy, crashes>>

Next ==
    \/ \E b \in Blocks : ExecuteBlock(b)
    \/ StoreBlock
    \/ DumpState
    \/ OpenSnapshot
    \/ WriteBatch
    \/ DumpDone
    \/ Crash
    \/ Start
    \/ ReplayBlock
    \/ StartWorker

Spec == Init /\ [][Next]_vars
-----------------------------------------------------------------------------
(* The contents that a chain determines: a contract has executed the       *)
(* blocks from the one that created it.                                    *)
WorldOf(blocks) ==
    [d \in Core \cup Created(blocks) |->
        IF d \in Core THEN blocks
        ELSE SubSeq(blocks, CHOOSE i \in DOMAIN blocks : blocks[i].creates = d, Len(blocks))]

(* A node that runs has the state of its chain, through any number of      *)
(* crashes, also in the middle of a dump, whatever snapshot it was loaded  *)
(* from.                                                                   *)
StateIsOfChain ==
    mode = "up" => world = WorldOf(IF busy = NoBlock THEN chain ELSE Append(chain, busy))

(* What a snapshot holds of a dumpable is its state at the height in the   *)
(* snapshot's name, although blocks were executed while it was written;    *)
(* its block is stored, so that a restart can start from it; and the dump  *)
(* that ends has written every dumpable.                                   *)
SnapshotIsOfItsHeight ==
    /\ \A h \in DOMAIN snapshots :
          /\ h <= Len(chain)
          /\ DOMAIN snapshots[h] \subseteq DOMAIN WorldOf(SubSeq(chain, 1, h))
          /\ \A d \in DOMAIN snapshots[h] : snapshots[h][d] = WorldOf(SubSeq(chain, 1, h))[d]
    /\ dump.pc = "write" /\ dump.batches = <<>> =>
          DOMAIN snapshots[dump.height] = DOMAIN WorldOf(SubSeq(chain, 1, dump.height))


(* What getBestStateDBPath takes for "the best state DB patch", the        *)
(* directory with the greatest height, is one that the constructor of the  *)
(* State can start from.                                                   *)
AlwaysRestarts == mode # "dead"

(* Event.logIndex is the "position of the event inside the block it was    *)
(* emitted from": the rows of a stored block are its one event, at 0.      *)
EventAtItsPosition == \A h \in DOMAIN chain : events[h] = <<chain[h].id>>
=============================================================================
