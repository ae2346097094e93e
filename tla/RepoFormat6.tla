---------------------------- MODULE RepoFormat6 ----------------------------
(***************************************************************************)
(* Backup, forget and checkpoint removal on a format 6 repository that     *)
(* several clients share: obnamlib/plugins/backup_plugin.py,               *)
(* obnamlib/plugins/forget_plugin.py and obnamlib/fmt_6/repo_fmt_6.py.     *)
(*                                                                         *)
(* A step is one call of the repository interface.  Between the calls the  *)
(* other processes run, and at any of them the process may die.  Locks are *)
(* taken in one step, which LockManager's refinement of AtomicLocks        *)
(* justifies; the three directories of the chunk indexes are one lock.     *)
(*                                                                         *)
(* A generation is the set of chunks its files refer to.  A chunk id is    *)
(* the content of the chunk and a number that tells apart two chunks with  *)
(* the same content.  A larch forest is what its last commit left; the     *)
(* trees a process works on are in its memory until it commits.            *)
(***************************************************************************)
EXTENDS Integers, FiniteSets

CONSTANTS
  Procs,         \* running obnam commands
  Clients,       \* names of the clients
  Contents,      \* the contents of chunks, and so their tokens
  MaxCopies,     \* bound: chunks with the same content
  MaxGens,       \* bound: generations a client ever makes
  MayRun,        \* <<p, task, c>>: the commands that may be started
  MaxRuns,       \* bound: commands started
  MaxFaults,     \* bound: crashes and interrupts
  Modes,         \* deduplicate settings that clients have
  ForgetNewest   \* whether forget may be given the newest generation

ASSUME BoundsAssumption ==
  /\ MaxCopies \in Nat /\ MaxGens \in Nat /\ MaxRuns \in Nat /\ MaxFaults \in Nat
  /\ ForgetNewest \in BOOLEAN
ASSUME CommandsAssumption == MayRun \subseteq Procs \X {"backup", "forget"} \X Clients
ASSUME ModesAssumption == Modes \subseteq {"never", "verify", "fatalist"}

ClientList == "client list"
Indexes == "chunk indexes"
Nobody == "nobody"
Dead == "dead"     \* owner of a lock whose process ended without unlocking
Locks == {ClientList, Indexes} \cup Clients

ASSUME NamesAssumption ==
  /\ {ClientList, Indexes} \cap Clients = {}
  /\ {Nobody, Dead} \cap Procs = {}

Ids == Contents \X (1..MaxCopies)

VARIABLES
  owner,       \* owner[l]: the process whose lock file l is, Nobody or Dead
  clientList,  \* the clients in the client list
  gens,        \* the committed generations of all clients
  lastGen,     \* lastGen[c]: last generation number committed by c
  store,       \* ids of the chunk files
  chunklist,   \* the chunklist tree: ids whose checksum is known
  chunksums,   \* the chunksums tree: pairs of an id and a client using it
  mem,         \* mem[p]: the memory of process p
  runs,        \* number of commands started
  faults       \* number of crashes and interrupts

disk == <<owner, clientList, gens, lastGen, store, chunklist, chunksums>>
vars == <<disk, mem, runs, faults>>

Generations == [client : Clients, num : 1..MaxGens, chunks : SUBSET Ids]

Steps == {"idle", "commit_client_list", "unlock_client_list", "lock_client",
          "init_indexes", "init_unlock", "create_generation", "backing_up",
          "commit_client", "unlock_client", "commit_chunklist", "commit_chunksums",
          "unlock_indexes", "relock_client", "lock_everything", "remove_generations",
          "remove_unused", "unlock_everything"}

(* What a command has in memory; most of it is BackupPlugin's and          *)
(* RepositoryFormat6's instance variables.                                 *)
Idle == [
  pc |-> "idle",           \* the next repository call
  task |-> "none",
  client |-> Nobody,
  mode |-> "none",         \* the deduplicate setting
  gen |-> 0,               \* current_generation_number, 0 for None
  cur |-> {},              \* chunks of the generation under construction
  saved |-> {},            \* chunks this backup put into its generations
  final |-> FALSE,         \* is this commit finish_generation's?
  tokens |-> {},           \* chunkid_token_map
  opened |-> FALSE,        \* has find opened the chunksums tree?
  snap |-> {},             \* the ids it saw there then
  list |-> {},             \* the chunklist tree being changed
  sums |-> {},             \* the chunksums tree being changed
  removed |-> {},          \* generations removed but not committed
  unused |-> {},           \* _unused_chunks
  checkpoints |-> {}]      \* CheckpointManager.checkpoints

Memory == [
  pc : Steps, task : {"none", "backup", "forget"}, client : Clients \cup {Nobody},
  mode : Modes \cup {"none"},
  gen : 0..MaxGens, cur : SUBSET Ids, saved : SUBSET Ids, final : BOOLEAN,
  tokens : SUBSET Ids, opened : BOOLEAN, snap : SUBSET Ids,
  list : SUBSET Ids, sums : SUBSET (Ids \X Clients),
  removed : SUBSET (1..MaxGens), unused : SUBSET Ids, checkpoints : SUBSET (1..MaxGens)]

TypeOK ==
  /\ owner \in [Locks -> Procs \cup {Nobody, Dead}]
  /\ clientList \subseteq Clients
  /\ gens \subseteq Generations
  /\ lastGen \in [Clients -> 0..MaxGens]
  /\ store \subseteq Ids
  /\ chunklist \subseteq Ids
  /\ chunksums \subseteq Ids \X Clients
  /\ \A p \in Procs : mem[p] \in Memory
  /\ runs \in 0..MaxRuns
  /\ faults \in 0..MaxFaults

Init ==
  /\ owner = [l \in Locks |-> Nobody]
  /\ clientList = {}
  /\ gens = {}
  /\ lastGen = [c \in Clients |-> 0]
  /\ store = {}
  /\ chunklist = {}
  /\ chunksums = {}
  /\ mem = [p \in Procs |-> Idle]
  /\ runs = 0
  /\ faults = 0

-----------------------------------------------------------------------------
(* Helpers                                                                 *)

At(p, step) == mem[p].pc = step
Holds(p, l) == owner[l] = p
Free(l) == owner[l] = Nobody
Held(p) == {l \in Locks : Holds(p, l)}

SetOwner(S, o) == owner' = [l \in Locks |-> IF l \in S THEN o ELSE owner[l]]
Become(p, m) == mem' = [mem EXCEPT ![p] = m]
Goto(p, step) == Become(p, [mem[p] EXCEPT !.pc = step])

(* The committed generations of c, as c's forest has them.                 *)
Own(c) == {g \in gens : g.client = c}
Chunks(G) == UNION {g.chunks : g \in G}
SumsOf(c, ids) == ids \X {c}

(* A process ends; the locks it did not release stay where they are.       *)
EndWith(p, released) ==
  /\ owner' = [l \in Locks |->
                 IF ~Holds(p, l) THEN owner[l]
                 ELSE IF l \in released THEN Nobody ELSE Dead]
  /\ Become(p, Idle)

-----------------------------------------------------------------------------
(* Errors                                                                  *)

(* backup() has an exception handler, but start_backup() is not in it, and *)
(* forget() has none.                                                      *)
InTry(p) ==
  /\ mem[p].task = "backup"
  /\ mem[p].pc \notin {"commit_client_list", "unlock_client_list", "lock_client",
                       "init_indexes", "init_unlock"}

(* unlock_when_error: the client and the chunk indexes, not what           *)
(* lock_everything locked besides.                                         *)
UnlockWhenError(p) == IF InTry(p) THEN {mem[p].client, Indexes} ELSE {}

(* An exception in p that nobody catches before it has left the command.   *)
Fail(p) ==
  /\ EndWith(p, UnlockWhenError(p))
  /\ UNCHANGED <<clientList, gens, lastGen, store, chunklist, chunksums, runs, faults>>

(* lock_client or lock_chunk_indexes raises LockFail, because somebody     *)
(* else still has the lock when the timeout is over.                       *)
WantedLock(p) ==
  CASE mem[p].pc \in {"lock_client", "relock_client"} -> {mem[p].client}
    [] mem[p].pc \in {"init_indexes", "backing_up"} -> {Indexes}
    [] OTHER -> {}

LockFails(p) ==
  /\ \E l \in WantedLock(p) : ~Free(l)
  /\ Fail(p)

-----------------------------------------------------------------------------
(* start_backup and start_generation                                       *)

(* add_client's lock_client_list.  A command that waits for the list, or   *)
(* that gives up on it, has done nothing yet.                              *)
StartBackup(p, c) ==
  /\ At(p, "idle") /\ runs < MaxRuns
  /\ <<p, "backup", c>> \in MayRun
  /\ Free(ClientList)
  /\ owner' = [owner EXCEPT ![ClientList] = p]
  /\ \E mode \in Modes :
       Become(p, [Idle EXCEPT !.pc = "commit_client_list", !.task = "backup",
                              !.client = c, !.mode = mode])
  /\ runs' = runs + 1
  /\ UNCHANGED <<clientList, gens, lastGen, store, chunklist, chunksums, faults>>

(* add_client, unless the client exists, and commit_client_list.           *)
CommitClientList(p) ==
  /\ At(p, "commit_client_list")
  /\ clientList' = clientList \cup {mem[p].client}
  /\ Goto(p, "unlock_client_list")
  /\ UNCHANGED <<owner, gens, lastGen, store, chunklist, chunksums, runs, faults>>

UnlockClientList(p) ==
  /\ At(p, "unlock_client_list")
  /\ owner' = [owner EXCEPT ![ClientList] = Nobody]
  /\ Goto(p, "lock_client")
  /\ UNCHANGED <<clientList, gens, lastGen, store, chunklist, chunksums, runs, faults>>

(* lock_client, in start_backup and again after a checkpoint.              *)
LockClient(p) ==
  /\ mem[p].pc \in {"lock_client", "relock_client"}
  /\ Free(mem[p].client)
  /\ owner' = [owner EXCEPT ![mem[p].client] = p]
  /\ Goto(p, IF At(p, "lock_client") THEN "init_indexes" ELSE "create_generation")
  /\ UNCHANGED <<clientList, gens, lastGen, store, chunklist, chunksums, runs, faults>>

(* lock_chunk_indexes and unlock_chunk_indexes at once again.              *)
InitIndexes(p) ==
  /\ At(p, "init_indexes")
  /\ Free(Indexes)
  /\ owner' = [owner EXCEPT ![Indexes] = p]
  /\ Goto(p, "init_unlock")
  /\ UNCHANGED <<clientList, gens, lastGen, store, chunklist, chunksums, runs, faults>>

InitUnlock(p) ==
  /\ At(p, "init_unlock")
  /\ owner' = [owner EXCEPT ![Indexes] = Nobody]
  /\ Goto(p, "create_generation")
  /\ UNCHANGED <<clientList, gens, lastGen, store, chunklist, chunksums, runs, faults>>

(* The tree that start_changes clones: the newest of the client's forest.  *)
(* Faulty variant: none, the new tree is empty.                            *)
EmptyTree(c) == {}
NewestTree(c) == Chunks({g \in Own(c) : \A h \in Own(c) : h.num <= g.num})

(* The number of a new generation, Forest.new_id.                          *)
(* Faulty variant: one more than there are.                                *)
NextToCount(c) == Cardinality(Own(c)) + 1
NewId(c) == lastGen[c] + 1

CreateGeneration(p) ==
  LET c == mem[p].client IN
  /\ At(p, "create_generation")
  /\ lastGen[c] < MaxGens
  /\ Become(p, [mem[p] EXCEPT !.pc = "backing_up", !.gen = NewId(c), !.cur = NewestTree(c)])
  /\ UNCHANGED <<disk, runs, faults>>

-----------------------------------------------------------------------------
(* backup_roots                                                            *)

WithToken(x, ids) == {id \in ids : id[1] = x}

(* find(): the chunksums tree is read without a lock, as it was when this  *)
(* repository object first read it.  If it has changed since, nodes may be *)
(* missing, which find() takes for "no such chunk".                        *)
Snapshot(p) == IF mem[p].opened THEN mem[p].snap ELSE {e[1] : e \in chunksums}

InTree(p, x) ==
  {WithToken(x, Snapshot(p))} \cup
    IF Snapshot(p) = {e[1] : e \in chunksums} /\ Free(Indexes) THEN {} ELSE {{}}

(* The chunk goes into the file's chunk list, and into chunkid_token_map   *)
(* unless it is not to be shared.                                          *)
UseChunk(p, id, shared) ==
  LET m == mem[p] IN
  Become(p, [m EXCEPT
    !.cur = m.cur \cup {id}, !.saved = m.saved \cup {id},
    !.tokens = IF shared THEN m.tokens \cup {id} ELSE m.tokens,
    !.snap = IF shared THEN Snapshot(p) ELSE m.snap,
    !.opened = m.opened \/ shared])

(* Ids somewhere on disk or in memory; random 64-bit numbers do not        *)
(* collide with those.                                                     *)
Mentioned ==
  store \cup chunklist \cup {e[1] : e \in chunksums} \cup Chunks(gens)
    \cup UNION {mem[p].cur \cup mem[p].snap : p \in Procs}

FreshIds(x) ==
  {id \in Ids \ Mentioned : id[1] = x /\ \A n \in 1..(id[2] - 1) : <<x, n>> \in Mentioned}

(* put_chunk_content, and append_file_chunk_id.                            *)
PutChunk(p, x, shared) ==
  \E id \in FreshIds(x) :
    /\ store' = store \cup {id}
    /\ UseChunk(p, id, shared)
    /\ UNCHANGED <<owner, clientList, gens, lastGen, chunklist, chunksums, runs, faults>>

ReuseChunk(p, id) ==
  /\ UseChunk(p, id, TRUE)
  /\ UNCHANGED <<disk, runs, faults>>

(* In "verify" mode find()'s candidate is read and compared; reading one   *)
(* that is not there is an error.                                          *)
ReadFails(p, id) == mem[p].mode = "verify" /\ id \notin store

(* backup_file_chunk for a chunk with content x of a file that is being    *)
(* backed up.  Which of the candidates comes first depends on their        *)
(* numbers.                                                                *)
BackupChunk(p, x) ==
  /\ At(p, "backing_up")
  /\ IF mem[p].mode = "never" THEN PutChunk(p, x, FALSE)
     ELSE \E found \in InTree(p, x) :
            LET candidates == found \cup WithToken(x, mem[p].tokens) IN
            IF candidates = {} THEN PutChunk(p, x, TRUE)
            ELSE \E id \in candidates :
                   IF ReadFails(p, id) THEN Fail(p) ELSE ReuseChunk(p, id)

(* remove_file or clear_file_chunk_ids drops the last reference of the new *)
(* generation to a chunk, because live data has been removed or changed.   *)
DropChunk(p, id) ==
  /\ At(p, "backing_up")
  /\ id \in mem[p].cur \ mem[p].saved
  /\ Become(p, [mem[p] EXCEPT !.cur = mem[p].cur \ {id}])
  /\ UNCHANGED <<disk, runs, faults>>

-----------------------------------------------------------------------------
(* make_checkpoint, finish_generation and the commits of a removal         *)

(* Locking the chunk indexes opens both trees anew.                        *)
(* Faulty variant: the tree opened before is changed.                      *)
SumsAsSeen(p) == mem[p].sums
SumsOnDisk(p) == chunksums

WithIndexes(p, m) == [m EXCEPT !.list = chunklist, !.sums = SumsOnDisk(p)]

(* make_checkpoint or finish_generation, until it has locked the indexes.  *)
StartCommit(p, final) ==
  /\ At(p, "backing_up")
  /\ Free(Indexes)
  /\ owner' = [owner EXCEPT ![Indexes] = p]
  /\ Become(p, WithIndexes(p, [mem[p] EXCEPT
       !.pc = "commit_client", !.final = final,
       !.checkpoints = mem[p].checkpoints \cup IF final THEN {} ELSE {mem[p].gen}]))
  /\ UNCHANGED <<clientList, gens, lastGen, store, chunklist, chunksums, runs, faults>>

(* add_chunks_to_shared enters the client as a user of every chunk.        *)
(* Faulty variants: only if the chunk is new to the indexes; id and client *)
(* swapped.                                                                *)
SwappedUses(p) == {mem[p].client} \X mem[p].tokens
FirstUses(p) == SumsOf(mem[p].client, mem[p].tokens \ mem[p].list)
NewUses(p) == SumsOf(mem[p].client, mem[p].tokens)

(* What commit_client makes of the client's forest.                        *)
CommittedGens(p) ==
  LET m == mem[p] IN
  {g \in gens : ~(g.client = m.client /\ g.num \in m.removed)}
    \cup IF m.gen = 0 THEN {} ELSE {[client |-> m.client, num |-> m.gen, chunks |-> m.cur]}

(* add_chunks_to_shared, which changes the trees in memory, and            *)
(* commit_client.  In backup() unlock_client is next.                      *)
CommitClient(p) ==
  /\ At(p, "commit_client")
  /\ gens' = CommittedGens(p)
  /\ lastGen' = [lastGen EXCEPT ![mem[p].client] = IF mem[p].gen = 0 THEN @ ELSE mem[p].gen]
  /\ Become(p, [mem[p] EXCEPT
       !.pc = IF mem[p].task = "forget" THEN "commit_chunklist" ELSE "unlock_client",
       !.list = mem[p].list \cup mem[p].tokens,
       !.sums = mem[p].sums \cup NewUses(p),
       !.tokens = {},
       !.removed = {}])
  /\ UNCHANGED <<owner, clientList, store, chunklist, chunksums, runs, faults>>

(* unlock_client also forgets which chunks are unused.                     *)
UnlockClient(p) ==
  /\ At(p, "unlock_client")
  /\ owner' = [owner EXCEPT ![mem[p].client] = Nobody]
  /\ Become(p, [mem[p] EXCEPT !.pc = "commit_chunklist", !.gen = 0, !.cur = {}, !.unused = {}])
  /\ UNCHANGED <<clientList, gens, lastGen, store, chunklist, chunksums, runs, faults>>

(* commit_chunk_indexes commits one tree and then the other.               *)
CommitChunklist(p) ==
  /\ At(p, "commit_chunklist")
  /\ chunklist' = mem[p].list
  /\ Goto(p, "commit_chunksums")
  /\ UNCHANGED <<owner, clientList, gens, lastGen, store, chunksums, runs, faults>>

(* A commit of a backup is complete with unlock_chunk_indexes; a removal   *)
(* of generations goes on to remove chunks.                                *)
CommitChunksums(p) ==
  /\ At(p, "commit_chunksums")
  /\ chunksums' = mem[p].sums
  /\ Goto(p, IF Holds(p, ClientList) THEN "remove_unused" ELSE "unlock_indexes")
  /\ UNCHANGED <<owner, clientList, gens, lastGen, store, chunklist, runs, faults>>

(* unlock_chunk_indexes discards the trees, so that find reads them again. *)
UnlockIndexes(p) ==
  /\ At(p, "unlock_indexes")
  /\ owner' = [owner EXCEPT ![Indexes] = Nobody]
  /\ \/ /\ mem[p].final
        /\ Become(p, Idle)
     \/ Become(p, [mem[p] EXCEPT
          !.pc = IF mem[p].final THEN "lock_everything" ELSE "relock_client",
          !.list = {}, !.sums = {}, !.opened = FALSE, !.snap = {}])
  /\ UNCHANGED <<clientList, gens, lastGen, store, chunklist, chunksums, runs, faults>>

-----------------------------------------------------------------------------
(* forget, and remove_checkpoints at the end of a backup                   *)

StartForget(p, c) ==
  /\ At(p, "idle") /\ runs < MaxRuns
  /\ <<p, "forget", c>> \in MayRun /\ c \in clientList
  /\ Free(ClientList)
  /\ owner' = [owner EXCEPT ![ClientList] = p]
  /\ Become(p, [Idle EXCEPT !.pc = "lock_everything", !.task = "forget", !.client = c])
  /\ runs' = runs + 1
  /\ UNCHANGED <<clientList, gens, lastGen, store, chunklist, chunksums, faults>>

(* The clients that lock_everything locks.                                 *)
(* Faulty variant: only the one whose generations are removed.             *)
OwnClient(p) == {mem[p].client}
AllClients(p) == clientList

(* lock_everything: the client list, the clients, the chunk indexes.       *)
NextLock(p) ==
  IF ~Holds(p, ClientList) THEN {ClientList}
  ELSE IF AllClients(p) \subseteq Held(p) THEN {Indexes}
  ELSE AllClients(p) \ Held(p)

LockEverything(p, l) ==
  /\ At(p, "lock_everything")
  /\ l \in NextLock(p)
  /\ Free(l)
  /\ owner' = [owner EXCEPT ![l] = p]
  /\ IF l = Indexes THEN Become(p, WithIndexes(p, [mem[p] EXCEPT !.pc = "remove_generations"]))
     ELSE UNCHANGED mem
  /\ UNCHANGED <<clientList, gens, lastGen, store, chunklist, chunksums, runs, faults>>

(* A LockFail undoes the locks lock_everything has taken, which for these  *)
(* two callers is all they hold.                                           *)
LockEverythingFails(p, l) ==
  /\ At(p, "lock_everything")
  /\ l \in NextLock(p)
  /\ ~Free(l)
  /\ Goto(p, "unlock_everything")
  /\ UNCHANGED <<disk, runs, faults>>

(* _remove_chunks_from_removed_generations: whether a chunk may go         *)
(* when the client's use has been removed from the indexes.                *)
(* Faulty variant: it may.                                                 *)
AlwaysUnused(id, sums) == TRUE
NobodyUses(id, sums) == id \notin {e[1] : e \in sums}

(* The generations find_gens_to_keep finds; their chunks stay.             *)
(* Faulty variant: none of them is looked at.                              *)
NoneKept(p, nums) == {}
Kept(p, nums) == {g \in Own(mem[p].client) : g.num \notin nums}

(* remove_generation for each of the generations nums.  A chunk that the   *)
(* chunklist does not know "can't be shared" and is unused; the others are *)
(* removed from the chunklist, whoever else uses them.                     *)
RemoveGenerations(p, nums, next) ==
  LET m == mem[p]
      gone == {g \in Own(m.client) : g.num \in nums}
      ids == Chunks(gone) \ Chunks(Kept(p, nums))
      listed == ids \cap m.list
      sums == m.sums \ SumsOf(m.client, listed)
  IN  Become(p, [m EXCEPT
        !.pc = next,
        !.removed = nums,
        !.list = m.list \ listed,
        !.sums = sums,
        !.unused = m.unused \cup (ids \ listed)
                     \cup {id \in listed \cap store : NobodyUses(id, sums)},
        !.checkpoints = {}])

(* forget removes and commits one generation after the other.              *)
ForgetOne(p, num) ==
  /\ At(p, "remove_generations") /\ mem[p].task = "forget"
  /\ \E g \in Own(mem[p].client) : g.num = num
  /\ ForgetNewest \/ \E g \in Own(mem[p].client) : g.num > num
  /\ RemoveGenerations(p, {num}, "commit_client")
  /\ UNCHANGED <<disk, runs, faults>>

(* A generation given as an argument does not exist, or is given twice.    *)
ForgetUnknown(p) ==
  /\ At(p, "remove_generations") /\ mem[p].task = "forget"
  /\ Fail(p)

(* When all are removed it commits once more, which changes nothing.       *)
ForgetDone(p) ==
  /\ At(p, "remove_generations") /\ mem[p].task = "forget"
  /\ Goto(p, "unlock_everything")
  /\ UNCHANGED <<disk, runs, faults>>

(* remove_checkpoints; _require_existing_generation may raise.             *)
RemoveCheckpoints(p) ==
  LET existing == {g.num : g \in Own(mem[p].client)} IN
  /\ At(p, "remove_generations") /\ mem[p].task = "backup"
  /\ IF mem[p].checkpoints \subseteq existing
     THEN /\ RemoveGenerations(p, mem[p].checkpoints, "commit_client")
          /\ UNCHANGED <<disk, runs, faults>>
     ELSE Fail(p)

(* remove_unused_chunks: the files go one by one; one that is not there    *)
(* raises RepositoryChunkDoesNotExist.                                     *)
RemoveUnused(p, id) ==
  /\ At(p, "remove_unused")
  /\ id \in mem[p].unused
  /\ IF id \in store
     THEN /\ store' = store \ {id}
          /\ Become(p, [mem[p] EXCEPT !.unused = mem[p].unused \ {id}])
          /\ UNCHANGED <<owner, clientList, gens, lastGen, chunklist, chunksums, runs, faults>>
     ELSE Fail(p)

RemovedUnused(p) ==
  /\ At(p, "remove_unused")
  /\ mem[p].unused = {}
  /\ Goto(p, IF mem[p].task = "forget" THEN "remove_generations" ELSE "unlock_everything")
  /\ UNCHANGED <<disk, runs, faults>>

(* unlock_everything: the client list, the clients, the chunk indexes.     *)
NextUnlock(p) ==
  IF Holds(p, ClientList) THEN {ClientList}
  ELSE IF Held(p) \subseteq {Indexes} THEN Held(p)
  ELSE Held(p) \ {Indexes}

UnlockEverything(p) ==
  /\ At(p, "unlock_everything")
  /\ \/ /\ Held(p) = {}
        /\ Become(p, Idle) /\ UNCHANGED owner
     \/ \E l \in NextUnlock(p) :
          /\ owner' = [owner EXCEPT ![l] = Nobody]
          /\ IF Held(p) = {l} THEN Become(p, Idle) ELSE UNCHANGED mem
  /\ UNCHANGED <<clientList, gens, lastGen, store, chunklist, chunksums, runs, faults>>

-----------------------------------------------------------------------------
(* Faults                                                                  *)

(* Ctrl-C, or a failure to read or write, in any call.                     *)
Interrupt(p) ==
  /\ ~At(p, "idle") /\ faults < MaxFaults
  /\ EndWith(p, UnlockWhenError(p))
  /\ faults' = faults + 1
  /\ UNCHANGED <<clientList, gens, lastGen, store, chunklist, chunksums, runs>>

(* The process is killed, or loses its connection to the repository.       *)
Crash(p) ==
  /\ ~At(p, "idle") /\ faults < MaxFaults
  /\ EndWith(p, {})
  /\ faults' = faults + 1
  /\ UNCHANGED <<clientList, gens, lastGen, store, chunklist, chunksums, runs>>

(* force-lock, when no obnam is running, as the manual asks.               *)
ForceLock ==
  /\ \A p \in Procs : At(p, "idle")
  /\ \E l \in Locks : owner[l] = Dead
  /\ SetOwner(Locks, Nobody)
  /\ UNCHANGED <<clientList, gens, lastGen, store, chunklist, chunksums, mem, runs, faults>>

Backup(p) ==
  \/ \E c \in Clients : StartBackup(p, c)
  \/ CommitClientList(p) \/ UnlockClientList(p) \/ LockClient(p)
  \/ InitIndexes(p) \/ InitUnlock(p) \/ CreateGeneration(p) \/ LockFails(p)
  \/ \E x \in Contents : BackupChunk(p, x)
  \/ \E id \in Ids : DropChunk(p, id)
  \/ \E final \in BOOLEAN : StartCommit(p, final)
  \/ UnlockClient(p) \/ UnlockIndexes(p)

Removal(p) ==
  \/ \E c \in Clients : StartForget(p, c)
  \/ \E l \in Locks : LockEverything(p, l) \/ LockEverythingFails(p, l)
  \/ \E num \in 1..MaxGens : ForgetOne(p, num)
  \/ ForgetDone(p) \/ ForgetUnknown(p) \/ RemoveCheckpoints(p)
  \/ \E id \in Ids : RemoveUnused(p, id)
  \/ RemovedUnused(p) \/ UnlockEverything(p)

Commit(p) == CommitClient(p) \/ CommitChunklist(p) \/ CommitChunksums(p)

Next ==
  \/ \E p \in Procs : Backup(p) \/ Removal(p) \/ Commit(p) \/ Interrupt(p) \/ Crash(p)
  \/ ForceLock

Spec == Init /\ [][Next]_vars

-----------------------------------------------------------------------------
(* No generation that has been committed has lost a chunk: whatever was    *)
(* backed up can be restored (remove_unused_chunks against everything that *)
(* shares chunks).                                                         *)
NoDangling == Chunks(gens) \subseteq store

(* A generation under construction refers only to chunks that exist,       *)
(* although its client, or another, may have removed generations since the *)
(* chunks were found.                                                      *)
WorkIsBacked == \A p \in Procs : mem[p].cur \subseteq store

(* A command that has locked everything decides which chunks are unused,   *)
(* and removes them.                                                       *)
Removing(p) ==
  /\ Holds(p, ClientList)
  /\ mem[p].pc \in {"remove_generations", "commit_client", "unlock_client", "commit_chunklist",
                   "commit_chunksums", "remove_unused"}

(* Every client is recorded as a user of each chunk its generations refer  *)
(* to, except while the process that has committed the client is still     *)
(* committing the chunk indexes.  A chunk's last user is found by this.    *)
Committing(c) ==
  \E p \in Procs : /\ mem[p].client = c
                   /\ mem[p].pc \in {"unlock_client", "commit_chunklist", "commit_chunksums"}

UsesAreRecorded ==
  \A g \in gens : SumsOf(g.client, g.chunks) \subseteq chunksums \/ Committing(g.client)

(* What this run of backup has stored stays in the generation it builds,   *)
(* across checkpoints: the final generation has all of every file, those   *)
(* included that a checkpoint split.                                       *)
SavedIsKept == \A p \in Procs : At(p, "backing_up") => mem[p].saved \subseteq mem[p].cur

(* A committed generation never changes, and its number does not come back *)
(* as another generation.                                                  *)
GenerationsAreFinal ==
  [][\A g \in gens' : g \in gens \/ g.num > lastGen[g.client]]_vars

(* A client's uses of chunks are only ever removed from the indexes by a   *)
(* command that removes that client's generations, so none gets lost when  *)
(* two commands have read the indexes before either commits.               *)
UsesOfOthersStay ==
  [][\A e \in chunksums \ chunksums' :
       \E p \in Procs : Removing(p) /\ mem[p].client = e[2]]_vars

(* forget_plugin.py: "nobody else can be running a backup while anyone is  *)
(* running a forget".                                                      *)
InBackup(p) ==
  mem[p].task = "backup" /\ mem[p].pc \in {"backing_up", "commit_client", "unlock_client",
    "commit_chunklist", "commit_chunksums", "unlock_indexes", "relock_client", "create_generation"}

ForgetRunsAlone ==
  \A p, q \in Procs :
    InBackup(q) => ~(mem[p].task = "forget" /\ mem[p].pc = "remove_generations")
=============================================================================
