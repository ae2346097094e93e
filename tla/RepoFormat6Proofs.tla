------------------------- MODULE RepoFormat6Proofs -------------------------
(***************************************************************************)
(* Proofs about RepoFormat6, for any processes, clients, contents and      *)
(* bounds: first the kinds of steps and what holds of locks and            *)
(* generations, then the chunks: which uses of them are recorded, what a   *)
(* backup keeps, and that none is lost.                                    *)
(***************************************************************************)
EXTENDS RepoFormat6, TLAPS

(* The memories are a function; a command that runs has a client, and one  *)
(* that backs up has begun a generation.                                   *)
Types ==
  /\ TypeOK
  /\ mem \in [Procs -> Memory]
  /\ \A p \in Procs : ~At(p, "idle") => mem[p].client \in Clients
  /\ \A p \in Procs : At(p, "backing_up") => mem[p].gen # 0

Fields == {"pc", "task", "client", "mode", "gen", "cur", "saved", "final", "tokens",
           "opened", "snap", "list", "sums", "removed", "unused", "checkpoints"}

(* A step changes the memory of p only.                                    *)
OnlyOf(p) == /\ mem' \in [Procs -> Memory]
             /\ \A q \in Procs : q # p => mem'[q] = mem[q]

(* In the memory of p a step changes the fields F only.                    *)
Only(p, F) == /\ OnlyOf(p)
              /\ \A f \in Fields \ F : mem'[p][f] = mem[p][f]

-----------------------------------------------------------------------------
(* What the actions do to the memories                                     *)

LEMMA TypesOf ==
  ASSUME Types, NEW p \in Procs
  PROVE  /\ mem[p] \in Memory
         /\ mem[p].pc # "idle" => mem[p].client \in Clients
         /\ mem[p].pc = "backing_up" => mem[p].gen # 0
  BY DEF Types, At

LEMMA Became ==
  ASSUME Types, NEW p \in Procs, NEW m \in Memory, Become(p, m)
  PROVE  OnlyOf(p) /\ mem'[p] = m
  BY DEF Become, OnlyOf, Types

(* Values of the right kinds put into a memory leave a memory.             *)
LEMMA MemoryWithUse ==
  ASSUME NEW m \in Memory, NEW cur \in SUBSET Ids, NEW saved \in SUBSET Ids,
         NEW tokens \in SUBSET Ids, NEW snap \in SUBSET Ids, NEW opened \in BOOLEAN
  PROVE  [m EXCEPT !.cur = cur, !.saved = saved, !.tokens = tokens, !.snap = snap,
                   !.opened = opened] \in Memory
  BY DEF Memory

LEMMA MemoryWithIndexes ==
  ASSUME NEW m \in Memory, NEW list \in SUBSET Ids, NEW sums \in SUBSET (Ids \X Clients)
  PROVE  [m EXCEPT !.list = list, !.sums = sums] \in Memory
  BY DEF Memory

LEMMA MemoryWithCommit ==
  ASSUME NEW m \in Memory, NEW pc \in Steps, NEW final \in BOOLEAN,
         NEW checkpoints \in SUBSET (1..MaxGens)
  PROVE  [m EXCEPT !.pc = pc, !.final = final, !.checkpoints = checkpoints] \in Memory
  BY DEF Memory

LEMMA MemoryWithUses ==
  ASSUME NEW m \in Memory, NEW pc \in Steps, NEW list \in SUBSET Ids,
         NEW sums \in SUBSET (Ids \X Clients), NEW tokens \in SUBSET Ids,
         NEW removed \in SUBSET (1..MaxGens)
  PROVE  [m EXCEPT !.pc = pc, !.list = list, !.sums = sums, !.tokens = tokens,
                   !.removed = removed] \in Memory
  BY DEF Memory

LEMMA MemoryWithNone ==
  ASSUME NEW m \in Memory, NEW pc \in Steps, NEW list \in SUBSET Ids,
         NEW sums \in SUBSET (Ids \X Clients), NEW opened \in BOOLEAN, NEW snap \in SUBSET Ids
  PROVE  [m EXCEPT !.pc = pc, !.list = list, !.sums = sums, !.opened = opened,
                   !.snap = snap] \in Memory
  BY DEF Memory

LEMMA MemoryWithNoClient ==
  ASSUME NEW m \in Memory, NEW pc \in Steps, NEW gen \in 0..MaxGens, NEW cur \in SUBSET Ids,
         NEW unused \in SUBSET Ids
  PROVE  [m EXCEPT !.pc = pc, !.gen = gen, !.cur = cur, !.unused = unused] \in Memory
  BY DEF Memory

LEMMA MemoryWithRemoved ==
  ASSUME NEW m \in Memory, NEW pc \in Steps, NEW removed \in SUBSET (1..MaxGens),
         NEW list \in SUBSET Ids, NEW sums \in SUBSET (Ids \X Clients),
         NEW unused \in SUBSET Ids, NEW checkpoints \in SUBSET (1..MaxGens)
  PROVE  [m EXCEPT !.pc = pc, !.removed = removed, !.list = list, !.sums = sums,
                   !.unused = unused, !.checkpoints = checkpoints] \in Memory
  BY DEF Memory

LEMMA IdleIsMemory == Idle \in Memory /\ Idle.pc = "idle"
  BY BoundsAssumption DEF Idle, Memory, Steps

(* Sets that the actions put into the memory.                              *)
LEMMA SetTypes ==
  ASSUME Types
  PROVE  /\ \A c \in Clients : NewestTree(c) \subseteq Ids
         /\ \A p \in Procs : Snapshot(p) \subseteq Ids
         /\ \A p \in Procs, x \in Contents : FreshIds(x) \subseteq Ids \ Mentioned
         /\ \A p \in Procs : mem[p].client \in Clients => NewUses(p) \subseteq Ids \X Clients
<1>1. \A g \in gens : g.chunks \subseteq Ids /\ g.client \in Clients
  BY DEF Types, TypeOK, Generations
<1>2. \A e \in chunksums : e[1] \in Ids
  BY DEF Types, TypeOK
<1>3. \A p \in Procs : mem[p].snap \subseteq Ids /\ mem[p].tokens \subseteq Ids
  BY DEF Types, Memory
<1>. QED
  BY <1>1, <1>2, <1>3 DEF NewestTree, Own, Chunks, Snapshot, FreshIds, NewUses, SumsOf

LEMMA GotoEffect ==
  ASSUME Types, NEW p \in Procs, NEW s \in Steps, Goto(p, s)
  PROVE  Only(p, {"pc"}) /\ mem'[p].pc = s
<1>1. mem[p] \in Memory
  BY DEF Types
<1>2. [mem[p] EXCEPT !.pc = s] \in Memory
  BY <1>1 DEF Memory
<1>3. OnlyOf(p) /\ mem'[p] = [mem[p] EXCEPT !.pc = s]
  BY <1>2, Became DEF Goto
<1>. QED
  BY <1>1, <1>3 DEF Memory, Only, Fields

LEMMA StartBackupEffect ==
  ASSUME Types, NEW p \in Procs, NEW c \in Clients, StartBackup(p, c)
  PROVE  /\ OnlyOf(p)
         /\ mem'[p].pc = "commit_client_list" /\ mem'[p].task = "backup"
         /\ mem'[p].client = c /\ mem'[p].mode \in Modes
         /\ \A f \in Fields \ {"pc", "task", "client", "mode"} : mem'[p][f] = Idle[f]
<1>1. PICK mode \in Modes :
        Become(p, [Idle EXCEPT !.pc = "commit_client_list", !.task = "backup",
                               !.client = c, !.mode = mode])
  BY DEF StartBackup
<1>. DEFINE m == [Idle EXCEPT !.pc = "commit_client_list", !.task = "backup",
                              !.client = c, !.mode = mode]
<1>2. m \in Memory
  BY IdleIsMemory DEF Memory, Steps
<1>3. OnlyOf(p) /\ mem'[p] = m
  BY <1>1, <1>2, Became
<1>. QED
  BY <1>3, IdleIsMemory DEF Memory, Fields

LEMMA StartForgetEffect ==
  ASSUME Types, NEW p \in Procs, NEW c \in Clients, StartForget(p, c)
  PROVE  /\ OnlyOf(p)
         /\ mem'[p].pc = "lock_everything" /\ mem'[p].task = "forget" /\ mem'[p].client = c
         /\ \A f \in Fields \ {"pc", "task", "client"} : mem'[p][f] = Idle[f]
<1>. DEFINE m == [Idle EXCEPT !.pc = "lock_everything", !.task = "forget", !.client = c]
<1>1. Become(p, m)
  BY DEF StartForget
<1>2. m \in Memory
  BY IdleIsMemory DEF Memory, Steps
<1>3. OnlyOf(p) /\ mem'[p] = m
  BY <1>1, <1>2, Became
<1>. QED
  BY <1>3, IdleIsMemory DEF Memory, Fields

LEMMA CreateGenerationEffect ==
  ASSUME Types, NEW p \in Procs, CreateGeneration(p)
  PROVE  /\ Only(p, {"pc", "gen", "cur"})
         /\ mem'[p].pc = "backing_up"
         /\ mem'[p].gen = lastGen[mem[p].client] + 1
         /\ mem'[p].cur = NewestTree(mem[p].client)
<1>. DEFINE c == mem[p].client
            m == [mem[p] EXCEPT !.pc = "backing_up", !.gen = NewId(c), !.cur = NewestTree(c)]
<1>1. Become(p, m)
  BY DEF CreateGeneration
<1>2. mem[p] \in Memory /\ c \in Clients
  BY TypesOf DEF CreateGeneration, At
<1>3. NewId(c) \in 0..MaxGens
  BY <1>2, BoundsAssumption DEF NewId, CreateGeneration, Types, TypeOK
<1>4. NewestTree(c) \subseteq Ids
  BY <1>2, SetTypes
<1>5. m \in Memory
  BY <1>2, <1>3, <1>4 DEF Memory, Steps
<1>6. OnlyOf(p) /\ mem'[p] = m
  BY <1>1, <1>5, Became
<1>. QED
  BY <1>2, <1>6 DEF Memory, Only, Fields, NewId

LEMMA UseChunkEffect ==
  ASSUME Types, NEW p \in Procs, NEW id \in Ids, NEW shared \in BOOLEAN, UseChunk(p, id, shared)
  PROVE  /\ Only(p, {"cur", "saved", "tokens", "snap", "opened"})
         /\ mem'[p].cur = mem[p].cur \cup {id} /\ mem'[p].saved = mem[p].saved \cup {id}
         /\ shared => /\ mem'[p].tokens = mem[p].tokens \cup {id}
                      /\ mem'[p].snap = Snapshot(p) /\ mem'[p].opened
         /\ ~shared => /\ mem'[p].tokens = mem[p].tokens
                       /\ mem'[p].snap = mem[p].snap /\ mem'[p].opened = mem[p].opened
<1>. DEFINE m == mem[p]
            n == [m EXCEPT
                   !.cur = m.cur \cup {id}, !.saved = m.saved \cup {id},
                   !.tokens = IF shared THEN m.tokens \cup {id} ELSE m.tokens,
                   !.snap = IF shared THEN Snapshot(p) ELSE m.snap,
                   !.opened = m.opened \/ shared]
<1>1. Become(p, n)
  BY DEF UseChunk
<1>2. m \in Memory /\ Snapshot(p) \subseteq Ids
  BY SetTypes DEF Types
<1>3. n \in Memory
  <2>1. /\ m.cur \cup {id} \in SUBSET Ids /\ m.saved \cup {id} \in SUBSET Ids
        /\ (m.opened \/ shared) \in BOOLEAN
    BY <1>2 DEF Memory
  <2>2. (IF shared THEN m.tokens \cup {id} ELSE m.tokens) \in SUBSET Ids
    BY <1>2 DEF Memory
  <2>3. (IF shared THEN Snapshot(p) ELSE m.snap) \in SUBSET Ids
    BY <1>2 DEF Memory
  <2>. HIDE DEF m
  <2>. QED
    BY <1>2, <2>1, <2>2, <2>3, MemoryWithUse
<1>4. OnlyOf(p) /\ mem'[p] = n
  BY <1>1, <1>3, Became
<1>. QED
  BY <1>2, <1>4 DEF Memory, Only, Fields

LEMMA DropChunkEffect ==
  ASSUME Types, NEW p \in Procs, NEW id \in Ids, DropChunk(p, id)
  PROVE  Only(p, {"cur"}) /\ mem'[p].cur = mem[p].cur \ {id}
<1>. DEFINE m == [mem[p] EXCEPT !.cur = mem[p].cur \ {id}]
<1>1. Become(p, m)
  BY DEF DropChunk
<1>2. mem[p] \in Memory
  BY DEF Types
<1>3. m \in Memory
  BY <1>2 DEF Memory
<1>4. OnlyOf(p) /\ mem'[p] = m
  BY <1>1, <1>3, Became
<1>. QED
  BY <1>2, <1>4 DEF Memory, Only, Fields

LEMMA StartCommitEffect ==
  ASSUME Types, NEW p \in Procs, NEW final \in BOOLEAN, StartCommit(p, final)
  PROVE  /\ Only(p, {"pc", "final", "checkpoints", "list", "sums"})
         /\ mem'[p].pc = "commit_client"
         /\ mem'[p].list = chunklist /\ mem'[p].sums = chunksums
<1>. DEFINE m == [mem[p] EXCEPT
                   !.pc = "commit_client", !.final = final,
                   !.checkpoints = mem[p].checkpoints \cup IF final THEN {} ELSE {mem[p].gen}]
            n == [m EXCEPT !.list = chunklist, !.sums = chunksums]
<1>1. Become(p, n)
  BY DEF StartCommit, WithIndexes, SumsOnDisk
<1>2. mem[p] \in Memory /\ mem[p].gen # 0
  BY TypesOf DEF StartCommit, At
<1>2a. mem[p].checkpoints \cup (IF final THEN {} ELSE {mem[p].gen}) \in SUBSET (1..MaxGens)
  BY <1>2, BoundsAssumption DEF Memory
<1>3. m \in Memory
  <2>1. "commit_client" \in Steps
    BY DEF Steps
  <2>. QED
    BY <1>2, <1>2a, <2>1, MemoryWithCommit
<1>4. n \in Memory
  <2>1. chunklist \in SUBSET Ids /\ chunksums \in SUBSET (Ids \X Clients)
    BY DEF Types, TypeOK
  <2>. HIDE DEF m
  <2>. QED
    BY <1>3, <2>1, MemoryWithIndexes
<1>5. OnlyOf(p) /\ mem'[p] = n
  BY <1>1, <1>4, Became
<1>. QED
  BY <1>2, <1>3, <1>5 DEF Memory, Only, Fields

LEMMA CommitClientEffect ==
  ASSUME Types, NEW p \in Procs, CommitClient(p)
  PROVE  /\ Only(p, {"pc", "list", "sums", "tokens", "removed"})
         /\ mem'[p].pc = IF mem[p].task = "forget" THEN "commit_chunklist" ELSE "unlock_client"
         /\ mem'[p].list = mem[p].list \cup mem[p].tokens
         /\ mem'[p].sums = mem[p].sums \cup NewUses(p)
         /\ mem'[p].tokens = {} /\ mem'[p].removed = {}
<1>. DEFINE m == [mem[p] EXCEPT
                   !.pc = IF mem[p].task = "forget" THEN "commit_chunklist" ELSE "unlock_client",
                   !.list = mem[p].list \cup mem[p].tokens,
                   !.sums = mem[p].sums \cup NewUses(p),
                   !.tokens = {},
                   !.removed = {}]
<1>1. Become(p, m)
  BY DEF CommitClient
<1>2. mem[p] \in Memory /\ NewUses(p) \subseteq Ids \X Clients
  BY SetTypes, TypesOf DEF CommitClient, At
<1>3. m \in Memory
  <2>1. (IF mem[p].task = "forget" THEN "commit_chunklist" ELSE "unlock_client") \in Steps
    BY DEF Steps
  <2>2. /\ mem[p].list \cup mem[p].tokens \in SUBSET Ids
        /\ mem[p].sums \cup NewUses(p) \in SUBSET (Ids \X Clients)
        /\ {} \in SUBSET Ids /\ {} \in SUBSET (1..MaxGens)
    BY <1>2 DEF Memory
  <2>. QED
    BY <1>2, <2>1, <2>2, MemoryWithUses
<1>4. OnlyOf(p) /\ mem'[p] = m
  BY <1>1, <1>3, Became
<1>. QED
  BY <1>2, <1>4 DEF Memory, Only, Fields

LEMMA UnlockClientEffect ==
  ASSUME Types, NEW p \in Procs, UnlockClient(p)
  PROVE  /\ Only(p, {"pc", "gen", "cur", "unused"})
         /\ mem'[p].pc = "commit_chunklist"
         /\ mem'[p].gen = 0 /\ mem'[p].cur = {} /\ mem'[p].unused = {}
<1>. DEFINE m == [mem[p] EXCEPT !.pc = "commit_chunklist", !.gen = 0, !.cur = {}, !.unused = {}]
<1>1. Become(p, m)
  BY DEF UnlockClient
<1>2. mem[p] \in Memory
  BY DEF Types
<1>3. m \in Memory
  <2>1. 0 \in 0..MaxGens
    BY BoundsAssumption
  <2>2. "commit_chunklist" \in Steps /\ {} \in SUBSET Ids
    BY DEF Steps
  <2>. QED
    BY <1>2, <2>1, <2>2, MemoryWithNoClient
<1>4. OnlyOf(p) /\ mem'[p] = m
  BY <1>1, <1>3, Became
<1>. QED
  BY <1>2, <1>4 DEF Memory, Only, Fields

(* A backup that has finished may end here.                                *)
LEMMA UnlockIndexesEffect ==
  ASSUME Types, NEW p \in Procs, UnlockIndexes(p)
  PROVE  \/ OnlyOf(p) /\ mem'[p] = Idle
         \/ /\ Only(p, {"pc", "list", "sums", "opened", "snap"})
            /\ mem'[p].pc = IF mem[p].final THEN "lock_everything" ELSE "relock_client"
            /\ mem'[p].list = {} /\ mem'[p].sums = {}
            /\ mem'[p].opened = FALSE /\ mem'[p].snap = {}
<1>. DEFINE m == [mem[p] EXCEPT
                   !.pc = IF mem[p].final THEN "lock_everything" ELSE "relock_client",
                   !.list = {}, !.sums = {}, !.opened = FALSE, !.snap = {}]
<1>1. CASE Become(p, Idle)
  BY <1>1, IdleIsMemory, Became
<1>2. CASE Become(p, m)
  <2>1. mem[p] \in Memory
    BY DEF Types
  <2>2. m \in Memory
    <3>1. (IF mem[p].final THEN "lock_everything" ELSE "relock_client") \in Steps
      BY DEF Steps
    <3>2. {} \in SUBSET Ids /\ {} \in SUBSET (Ids \X Clients) /\ FALSE \in BOOLEAN
      OBVIOUS
    <3>. QED
      BY <2>1, <3>1, <3>2, MemoryWithNone
  <2>3. OnlyOf(p) /\ mem'[p] = m
    BY <1>2, <2>2, Became
  <2>. QED
    BY <2>1, <2>3 DEF Memory, Only, Fields
<1>. QED
  BY <1>1, <1>2 DEF UnlockIndexes

LEMMA LockEverythingEffect ==
  ASSUME Types, NEW p \in Procs, NEW l \in Locks, LockEverything(p, l)
  PROVE  /\ OnlyOf(p)
         /\ l # Indexes => mem' = mem
         /\ l = Indexes => /\ Only(p, {"pc", "list", "sums"})
                           /\ mem'[p].pc = "remove_generations"
                           /\ mem'[p].list = chunklist /\ mem'[p].sums = chunksums
<1>. DEFINE m == [mem[p] EXCEPT !.pc = "remove_generations"]
            n == [m EXCEPT !.list = chunklist, !.sums = chunksums]
<1>1. CASE l # Indexes
  BY <1>1 DEF LockEverything, OnlyOf, Types
<1>2. CASE l = Indexes
  <2>1. Become(p, n)
    BY <1>2 DEF LockEverything, WithIndexes, SumsOnDisk
  <2>2. mem[p] \in Memory
    BY DEF Types
  <2>3. m \in Memory
    BY <2>2 DEF Memory, Steps
  <2>4. n \in Memory
    BY <2>3 DEF Memory, Types, TypeOK
  <2>5. OnlyOf(p) /\ mem'[p] = n
    BY <2>1, <2>4, Became
  <2>. QED
    BY <1>2, <2>2, <2>3, <2>5 DEF Memory, Only, Fields
<1>. QED
  BY <1>1, <1>2

(* The chunks that no generation but those in nums refers to.              *)
Gone(p, nums) ==
  Chunks({g \in Own(mem[p].client) : g.num \in nums}) \ Chunks(Kept(p, nums))

LEMMA RemoveGenerationsEffect ==
  ASSUME Types, NEW p \in Procs, NEW nums \in SUBSET (1..MaxGens),
         RemoveGenerations(p, nums, "commit_client")
  PROVE  /\ Only(p, {"pc", "removed", "list", "sums", "unused", "checkpoints"})
         /\ mem'[p].pc = "commit_client"
         /\ mem'[p].removed = nums
         /\ mem'[p].list = mem[p].list \ Gone(p, nums)
         /\ mem'[p].sums = mem[p].sums \ SumsOf(mem[p].client, Gone(p, nums) \cap mem[p].list)
         /\ mem'[p].unused = mem[p].unused \cup (Gone(p, nums) \ mem[p].list)
                \cup {id \in Gone(p, nums) \cap mem[p].list \cap store : NobodyUses(id, mem'[p].sums)}
<1>. DEFINE m == mem[p]
            ids == Gone(p, nums)
            listed == ids \cap m.list
            sums == m.sums \ SumsOf(m.client, listed)
            n == [m EXCEPT
                   !.pc = "commit_client",
                   !.removed = nums,
                   !.list = m.list \ listed,
                   !.sums = sums,
                   !.unused = m.unused \cup (ids \ listed)
                                \cup {id \in listed \cap store : NobodyUses(id, sums)},
                   !.checkpoints = {}]
<1>1. Become(p, n)
  BY DEF RemoveGenerations, Gone
<1>2. m \in Memory
  BY DEF Types
<1>3. ids \subseteq Ids
  BY DEF Gone, Chunks, Own, Types, TypeOK, Generations
<1>4. n \in Memory
  <2>1. "commit_client" \in Steps /\ {} \in SUBSET (1..MaxGens)
    BY DEF Steps
  <2>. HIDE DEF ids
  <2>2. m.list \ listed \in SUBSET Ids /\ sums \in SUBSET (Ids \X Clients)
    BY <1>2 DEF Memory
  <2>. HIDE DEF sums
  <2>3. m.unused \cup (ids \ listed) \cup {id \in listed \cap store : NobodyUses(id, sums)}
          \in SUBSET Ids
    BY <1>2, <1>3 DEF Memory
  <2>. HIDE DEF m, listed
  <2>. QED
    BY <1>2, <2>1, <2>2, <2>3, MemoryWithRemoved
<1>5. OnlyOf(p) /\ mem'[p] = n
  BY <1>1, <1>4, Became
<1>. HIDE DEF ids
<1>6. /\ n.pc = "commit_client" /\ n.removed = nums /\ n.list = m.list \ listed
      /\ n.sums = sums
      /\ n.unused = m.unused \cup (ids \ listed)
                       \cup {id \in listed \cap store : NobodyUses(id, sums)}
      /\ \A f \in Fields \ {"pc", "removed", "list", "sums", "unused", "checkpoints"} : n[f] = m[f]
  BY <1>2 DEF Memory, Fields
<1>7. m.list \ listed = m.list \ ids /\ ids \ listed = ids \ m.list
  OBVIOUS
<1>8. Only(p, {"pc", "removed", "list", "sums", "unused", "checkpoints"})
  BY <1>5, <1>6 DEF Only
<1>9. mem'[p].unused = m.unused \cup (ids \ m.list)
                \cup {id \in ids \cap m.list \cap store : NobodyUses(id, mem'[p].sums)}
  <2>1. mem'[p].sums = sums
    BY <1>5, <1>6
  <2>2. mem'[p].unused = m.unused \cup (ids \ m.list)
                 \cup {id \in ids \cap m.list \cap store : NobodyUses(id, sums)}
    BY <1>5, <1>6, <1>7, Zenon
  <2>. QED
    BY <2>1, <2>2, Zenon
<1>. QED
  BY <1>5, <1>6, <1>7, <1>8, <1>9 DEF ids

LEMMA RemoveUnusedEffect ==
  ASSUME Types, NEW p \in Procs, NEW id \in Ids, RemoveUnused(p, id), id \in store
  PROVE  Only(p, {"unused"}) /\ mem'[p].unused = mem[p].unused \ {id}
<1>. DEFINE m == [mem[p] EXCEPT !.unused = mem[p].unused \ {id}]
<1>1. Become(p, m)
  BY DEF RemoveUnused
<1>2. mem[p] \in Memory
  BY DEF Types
<1>3. m \in Memory
  BY <1>2 DEF Memory
<1>4. OnlyOf(p) /\ mem'[p] = m
  BY <1>1, <1>3, Became
<1>. QED
  BY <1>2, <1>4 DEF Memory, Only, Fields

LEMMA EndEffect ==
  ASSUME Types, NEW p \in Procs, NEW released, EndWith(p, released)
  PROVE  OnlyOf(p) /\ mem'[p] = Idle
  BY IdleIsMemory, Became DEF EndWith

LEMMA FailEffect ==
  ASSUME Types, NEW p \in Procs, Fail(p)
  PROVE  /\ OnlyOf(p) /\ mem'[p] = Idle
         /\ UNCHANGED <<clientList, gens, lastGen, store, chunklist, chunksums, runs, faults>>
  BY EndEffect DEF Fail

(* What backing up a chunk may do.                                         *)
LEMMA BackupChunkEffect ==
  ASSUME Types, NEW p \in Procs, NEW x \in Contents, BackupChunk(p, x)
  PROVE  /\ mem[p].pc = "backing_up"
         /\ \/ \E id \in Ids \ Mentioned, shared \in BOOLEAN :
                 /\ shared <=> mem[p].mode # "never"
                 /\ store' = store \cup {id}
                 /\ UseChunk(p, id, shared)
                 /\ UNCHANGED <<owner, clientList, gens, lastGen, chunklist, chunksums, runs, faults>>
            \/ \E id \in Ids :
                 /\ mem[p].mode # "never"
                 /\ id \in Snapshot(p) \cup mem[p].tokens
                 /\ ~ReadFails(p, id)
                 /\ UseChunk(p, id, TRUE)
                 /\ UNCHANGED <<disk, runs, faults>>
            \/ Fail(p)
<1>1. At(p, "backing_up")
  BY DEF BackupChunk
<1>2. FreshIds(x) \subseteq Ids \ Mentioned /\ Snapshot(p) \subseteq Ids /\ mem[p].tokens \subseteq Ids
  BY SetTypes, TypesOf DEF Memory
<1>3. ASSUME NEW shared \in BOOLEAN, shared <=> mem[p].mode # "never", PutChunk(p, x, shared)
      PROVE  \E id \in Ids \ Mentioned, sh \in BOOLEAN :
               /\ sh <=> mem[p].mode # "never"
               /\ store' = store \cup {id}
               /\ UseChunk(p, id, sh)
               /\ UNCHANGED <<owner, clientList, gens, lastGen, chunklist, chunksums, runs, faults>>
  BY <1>2, <1>3 DEF PutChunk
<1>4. CASE mem[p].mode = "never"
  BY <1>1, <1>3, <1>4 DEF BackupChunk, At
<1>5. CASE mem[p].mode # "never"
  <2>1. PICK found \in InTree(p, x) :
          LET candidates == found \cup WithToken(x, mem[p].tokens) IN
          IF candidates = {} THEN PutChunk(p, x, TRUE)
          ELSE \E id \in candidates :
                 IF ReadFails(p, id) THEN Fail(p) ELSE ReuseChunk(p, id)
    BY <1>5 DEF BackupChunk
  <2>2. found \cup WithToken(x, mem[p].tokens) \subseteq Snapshot(p) \cup mem[p].tokens
    BY DEF InTree, WithToken
  <2>. DEFINE candidates == found \cup WithToken(x, mem[p].tokens)
  <2>3. CASE candidates = {}
    BY <1>1, <1>3, <1>5, <2>1, <2>3 DEF At
  <2>4. CASE candidates # {}
    <3>1. PICK id \in candidates : IF ReadFails(p, id) THEN Fail(p) ELSE ReuseChunk(p, id)
      BY <2>1, <2>4
    <3>2. id \in Snapshot(p) \cup mem[p].tokens /\ id \in Ids
      BY <1>2, <2>2, <3>1
    <3>. QED
      BY <1>1, <1>5, <3>1, <3>2 DEF ReuseChunk, At
  <2>. QED
    BY <2>3, <2>4
<1>. QED
  BY <1>4, <1>5

-----------------------------------------------------------------------------
(* Typing                                                                  *)

(* TypeOK without the memories.                                            *)
DiskTypes ==
  /\ owner \in [Locks -> Procs \cup {Nobody, Dead}]
  /\ clientList \subseteq Clients
  /\ gens \subseteq Generations
  /\ lastGen \in [Clients -> 0..MaxGens]
  /\ store \subseteq Ids
  /\ chunklist \subseteq Ids
  /\ chunksums \subseteq Ids \X Clients
  /\ runs \in 0..MaxRuns
  /\ faults \in 0..MaxFaults

LEMMA TypesKept ==
  ASSUME Types, NEW p \in Procs, OnlyOf(p), DiskTypes',
         mem'[p].pc # "idle" => mem'[p].client \in Clients,
         mem'[p].pc = "backing_up" => mem'[p].gen # 0
  PROVE  Types'
<1>1. TypeOK'
  BY DEF TypeOK, DiskTypes, OnlyOf
<1>2. \A q \in Procs : q # p => mem'[q] = mem[q]
  BY DEF OnlyOf
<1>3. \A q \in Procs : /\ mem'[q].pc # "idle" => mem'[q].client \in Clients
                      /\ mem'[q].pc = "backing_up" => mem'[q].gen # 0
  BY <1>2, TypesOf
<1>. QED
  BY <1>1, <1>3 DEF Types, OnlyOf, At

LEMMA TypeStep ==
  ASSUME Types, [Next]_vars
  PROVE  Types'
<1>0. DiskTypes
  BY DEF Types, TypeOK, DiskTypes
<1>. DEFINE Rest == UNCHANGED <<clientList, gens, lastGen, store, chunklist, chunksums>>
<1>1. ASSUME NEW p \in Procs, NEW l \in Locks, owner' = [owner EXCEPT ![l] = p],
             Rest, UNCHANGED faults, runs' \in 0..MaxRuns
      PROVE  DiskTypes'
  BY <1>0, <1>1 DEF DiskTypes
<1>2. ASSUME NEW l \in Locks, owner' = [owner EXCEPT ![l] = Nobody],
             Rest, UNCHANGED faults, UNCHANGED runs
      PROVE  DiskTypes'
  BY <1>0, <1>2 DEF DiskTypes
<1>3. ASSUME NEW p \in Procs, NEW released, EndWith(p, released), Rest, UNCHANGED runs,
             faults' \in 0..MaxFaults
      PROVE  Types'
  <2>1. OnlyOf(p) /\ mem'[p].pc = "idle"
    BY <1>3, EndEffect, IdleIsMemory
  <2>2. DiskTypes'
    BY <1>0, <1>3 DEF DiskTypes, EndWith
  <2>. QED
    BY <2>1, <2>2, TypesKept
<1>4. ASSUME NEW p \in Procs, Fail(p) PROVE Types'
  BY <1>0, <1>3, <1>4 DEF Fail, DiskTypes
<1>5. ASSUME NEW p \in Procs, NEW c \in Clients, StartBackup(p, c) PROVE Types'
  <2>1. runs' \in 0..MaxRuns
    BY <1>0, <1>5, BoundsAssumption DEF StartBackup, DiskTypes
  <2>2. DiskTypes'
    BY <1>1, <1>5, <2>1 DEF StartBackup, Locks
  <2>. QED
    BY <1>5, <2>2, StartBackupEffect, TypesKept
<1>6. ASSUME NEW p \in Procs, NEW c \in Clients, StartForget(p, c) PROVE Types'
  <2>1. runs' \in 0..MaxRuns
    BY <1>0, <1>6, BoundsAssumption DEF StartForget, DiskTypes
  <2>2. DiskTypes'
    BY <1>1, <1>6, <2>1 DEF StartForget, Locks
  <2>. QED
    BY <1>6, <2>2, StartForgetEffect, TypesKept
<1>7. ASSUME NEW p \in Procs, NEW s \in Steps, Goto(p, s), ~At(p, "idle"), s # "backing_up",
             DiskTypes'
      PROVE  Types'
  <2>1. Only(p, {"pc"}) /\ mem'[p].pc = s
    BY <1>7, GotoEffect
  <2>2. OnlyOf(p) /\ mem'[p].client = mem[p].client
    BY <2>1 DEF Only, Fields
  <2>. QED
    BY <1>7, <2>1, <2>2, TypesKept, TypesOf DEF At
<1>8. ASSUME NEW p \in Procs, CommitClientList(p) PROVE Types'
  <2>1. DiskTypes'
    BY <1>0, <1>8, TypesOf DEF CommitClientList, DiskTypes, At
  <2>. QED
    BY <1>7, <1>8, <2>1 DEF CommitClientList, At, Steps
<1>9. ASSUME NEW p \in Procs, UnlockClientList(p) PROVE Types'
  <2>1. DiskTypes'
    BY <1>2, <1>9 DEF UnlockClientList, Locks
  <2>. QED
    BY <1>7, <1>9, <2>1 DEF UnlockClientList, At, Steps
<1>10. ASSUME NEW p \in Procs, LockClient(p) PROVE Types'
  <2>1. mem[p].client \in Clients /\ mem[p].client \in Locks
    BY <1>10, TypesOf DEF LockClient, Locks
  <2>2. DiskTypes'
    BY <1>0, <1>1, <1>10, <2>1 DEF LockClient, DiskTypes
  <2>. QED
    BY <1>7, <1>10, <2>2 DEF LockClient, At, Steps
<1>11. ASSUME NEW p \in Procs, InitIndexes(p) \/ InitUnlock(p) PROVE Types'
  <2>1. DiskTypes'
    BY <1>0, <1>1, <1>2, <1>11 DEF InitIndexes, InitUnlock, Locks, DiskTypes
  <2>. QED
    BY <1>7, <1>11, <2>1 DEF InitIndexes, InitUnlock, At, Steps
<1>12. ASSUME NEW p \in Procs, CreateGeneration(p) PROVE Types'
  <2>1. DiskTypes'
    BY <1>0, <1>12 DEF CreateGeneration, DiskTypes, disk
  <2>2. mem[p].client \in Clients
    BY <1>12, TypesOf DEF CreateGeneration, At
  <2>3. OnlyOf(p) /\ mem'[p].client = mem[p].client /\ mem'[p].gen = lastGen[mem[p].client] + 1
    BY <1>12, CreateGenerationEffect DEF Only, Fields
  <2>4. mem'[p].gen # 0
    BY <1>0, <2>2, <2>3, BoundsAssumption DEF DiskTypes
  <2>. QED
    BY <2>1, <2>2, <2>3, <2>4, TypesKept
<1>13. ASSUME NEW p \in Procs, NEW x \in Contents, BackupChunk(p, x) PROVE Types'
  <2>1. ASSUME NEW id \in Ids, NEW shared \in BOOLEAN, UseChunk(p, id, shared), DiskTypes'
        PROVE  Types'
    <3>1. OnlyOf(p) /\ \A f \in {"pc", "client", "gen"} : mem'[p][f] = mem[p][f]
      BY <2>1, UseChunkEffect DEF Only, Fields
    <3>. QED
      BY <2>1, <3>1, TypesKept, TypesOf
  <2>2. ASSUME NEW id \in Ids, store' = store \cup {id},
               UNCHANGED <<owner, clientList, gens, lastGen, chunklist, chunksums, runs, faults>>
        PROVE  DiskTypes'
    BY <1>0, <2>2 DEF DiskTypes
  <2>3. ASSUME UNCHANGED <<disk, runs, faults>> PROVE DiskTypes'
    BY <1>0, <2>3 DEF DiskTypes, disk
  <2>. QED
    BY <1>4, <1>13, <2>1, <2>2, <2>3, BackupChunkEffect
<1>14. ASSUME NEW p \in Procs, NEW id \in Ids, DropChunk(p, id) PROVE Types'
  <2>1. OnlyOf(p) /\ \A f \in {"pc", "client", "gen"} : mem'[p][f] = mem[p][f]
    BY <1>14, DropChunkEffect DEF Only, Fields
  <2>2. DiskTypes'
    BY <1>0, <1>14 DEF DropChunk, DiskTypes, disk
  <2>. QED
    BY <2>1, <2>2, TypesKept, TypesOf
<1>15. ASSUME NEW p \in Procs, NEW final \in BOOLEAN, StartCommit(p, final) PROVE Types'
  <2>1. /\ OnlyOf(p) /\ mem'[p].pc = "commit_client" /\ mem'[p].client = mem[p].client
    BY <1>15, StartCommitEffect DEF Only, Fields
  <2>2. DiskTypes'
    BY <1>0, <1>1, <1>15 DEF StartCommit, Locks, DiskTypes
  <2>. QED
    BY <1>15, <2>1, <2>2, TypesKept, TypesOf DEF StartCommit, At
<1>16. ASSUME NEW p \in Procs, CommitClient(p) PROVE Types'
  <2>1. /\ OnlyOf(p) /\ mem'[p].client = mem[p].client
        /\ mem'[p].pc \in {"commit_chunklist", "unlock_client"}
    BY <1>16, CommitClientEffect DEF Only, Fields
  <2>2. mem[p].client \in Clients /\ mem[p] \in Memory
    BY <1>16, TypesOf DEF CommitClient, At
  <2>3. CommittedGens(p) \subseteq Generations
    <3>1. gens \subseteq Generations
      BY <1>0 DEF DiskTypes
    <3>2. mem[p].gen # 0 => [client |-> mem[p].client, num |-> mem[p].gen, chunks |-> mem[p].cur] \in Generations
      <4>1. mem[p].gen \in 0..MaxGens /\ mem[p].cur \in SUBSET Ids
        BY <2>2 DEF Memory
      <4>2. mem[p].gen # 0 => mem[p].gen \in 1..MaxGens
        BY <4>1, BoundsAssumption
      <4>. QED
        BY <2>2, <4>1, <4>2 DEF Generations
    <3>. QED
      BY <3>1, <3>2 DEF CommittedGens
  <2>4. lastGen' \in [Clients -> 0..MaxGens]
    <3>1. lastGen \in [Clients -> 0..MaxGens] /\ mem[p].gen \in 0..MaxGens
      BY <1>0, <2>2 DEF DiskTypes, Memory
    <3>. QED
      BY <1>16, <2>2, <3>1 DEF CommitClient
  <2>5. DiskTypes'
    BY <1>0, <1>16, <2>3, <2>4 DEF CommitClient, DiskTypes
  <2>. QED
    BY <2>1, <2>2, <2>5, TypesKept
<1>17. ASSUME NEW p \in Procs, UnlockClient(p) PROVE Types'
  <2>1. OnlyOf(p) /\ mem'[p].pc = "commit_chunklist" /\ mem'[p].client = mem[p].client
    BY <1>17, UnlockClientEffect DEF Only, Fields
  <2>2. mem[p].client \in Clients
    BY <1>17, TypesOf DEF UnlockClient, At
  <2>3. DiskTypes'
    BY <1>2, <1>17, <2>2 DEF UnlockClient, Locks
  <2>. QED
    BY <2>1, <2>2, <2>3, TypesKept
<1>18. ASSUME NEW p \in Procs, CommitChunklist(p) \/ CommitChunksums(p) PROVE Types'
  <2>1. DiskTypes'
    BY <1>0, <1>18, TypesOf DEF CommitChunklist, CommitChunksums, DiskTypes, Memory
  <2>. QED
    BY <1>7, <1>18, <2>1 DEF CommitChunklist, CommitChunksums, At, Steps
<1>19. ASSUME NEW p \in Procs, UnlockIndexes(p) PROVE Types'
  <2>1. DiskTypes'
    BY <1>0, <1>2, <1>19 DEF UnlockIndexes, Locks, DiskTypes
  <2>2. CASE OnlyOf(p) /\ mem'[p] = Idle
    BY <2>1, <2>2, IdleIsMemory, TypesKept
  <2>3. CASE Only(p, {"pc", "list", "sums", "opened", "snap"}) /\ mem'[p].pc # "backing_up"
    <3>1. OnlyOf(p) /\ mem'[p].client = mem[p].client
      BY <2>3 DEF Only, Fields
    <3>. QED
      BY <1>19, <2>1, <2>3, <3>1, TypesKept, TypesOf DEF UnlockIndexes, At
  <2>. QED
    BY <1>19, <2>2, <2>3, UnlockIndexesEffect
<1>20. ASSUME NEW p \in Procs, NEW l \in Locks, LockEverything(p, l) PROVE Types'
  <2>1. DiskTypes'
    BY <1>0, <1>1, <1>20 DEF LockEverything, DiskTypes
  <2>2. CASE l # Indexes
    <3>1. OnlyOf(p) /\ mem'[p] = mem[p]
      BY <1>20, <2>2, LockEverythingEffect
    <3>. QED
      BY <2>1, <3>1, TypesKept, TypesOf
  <2>3. CASE l = Indexes
    <3>1. OnlyOf(p) /\ mem'[p].pc = "remove_generations" /\ mem'[p].client = mem[p].client
      BY <1>20, <2>3, LockEverythingEffect DEF Only, Fields
    <3>. QED
      BY <1>20, <2>1, <3>1, TypesKept, TypesOf DEF LockEverything, At
  <2>. QED
    BY <2>2, <2>3
<1>21. ASSUME NEW p \in Procs, NEW l \in Locks, LockEverythingFails(p, l) PROVE Types'
  <2>1. DiskTypes'
    BY <1>0, <1>21 DEF LockEverythingFails, DiskTypes, disk
  <2>. QED
    BY <1>7, <1>21, <2>1 DEF LockEverythingFails, At, Steps
<1>22. ASSUME NEW p \in Procs, NEW nums \in SUBSET (1..MaxGens), At(p, "remove_generations"),
              RemoveGenerations(p, nums, "commit_client"), UNCHANGED <<disk, runs, faults>>
       PROVE  Types'
  <2>1. OnlyOf(p) /\ mem'[p].pc = "commit_client" /\ mem'[p].client = mem[p].client
    <3>1. /\ Only(p, {"pc", "removed", "list", "sums", "unused", "checkpoints"})
          /\ mem'[p].pc = "commit_client"
      BY <1>22, RemoveGenerationsEffect
    <3>. QED
      BY <3>1 DEF Only, Fields
  <2>2. DiskTypes'
    BY <1>0, <1>22 DEF DiskTypes, disk
  <2>. QED
    BY <1>22, <2>1, <2>2, TypesKept, TypesOf DEF At
<1>23. ASSUME NEW p \in Procs, NEW num \in 1..MaxGens, ForgetOne(p, num) PROVE Types'
  BY <1>22, <1>23 DEF ForgetOne
<1>24. ASSUME NEW p \in Procs, ForgetUnknown(p) PROVE Types'
  BY <1>4, <1>24 DEF ForgetUnknown
<1>25. ASSUME NEW p \in Procs, ForgetDone(p) PROVE Types'
  <2>1. DiskTypes'
    BY <1>0, <1>25 DEF ForgetDone, DiskTypes, disk
  <2>. QED
    BY <1>7, <1>25, <2>1 DEF ForgetDone, At, Steps
<1>26. ASSUME NEW p \in Procs, RemoveCheckpoints(p) PROVE Types'
  <2>1. mem[p].checkpoints \in SUBSET (1..MaxGens)
    BY TypesOf DEF Memory
  <2>. QED
    BY <1>4, <1>22, <1>26, <2>1 DEF RemoveCheckpoints
<1>27. ASSUME NEW p \in Procs, NEW id \in Ids, RemoveUnused(p, id) PROVE Types'
  <2>1. CASE id \in store
    <3>1. OnlyOf(p) /\ \A f \in {"pc", "client", "gen"} : mem'[p][f] = mem[p][f]
      BY <1>27, <2>1, RemoveUnusedEffect DEF Only, Fields
    <3>2. DiskTypes'
      BY <1>0, <1>27, <2>1 DEF RemoveUnused, DiskTypes
    <3>. QED
      BY <3>1, <3>2, TypesKept, TypesOf
  <2>. QED
    BY <1>4, <1>27, <2>1 DEF RemoveUnused
<1>28. ASSUME NEW p \in Procs, RemovedUnused(p) PROVE Types'
  <2>1. DiskTypes'
    BY <1>0, <1>28 DEF RemovedUnused, DiskTypes, disk
  <2>. QED
    BY <1>7, <1>28, <2>1 DEF RemovedUnused, At, Steps
<1>29. ASSUME NEW p \in Procs, UnlockEverything(p) PROVE Types'
  <2>1. DiskTypes'
    <3>1. \A l \in NextUnlock(p) : l \in Locks
      BY DEF NextUnlock, Held, Locks
    <3>. QED
      BY <1>0, <1>2, <1>29, <3>1 DEF UnlockEverything, DiskTypes
  <2>2. CASE Become(p, Idle)
    BY <2>1, <2>2, IdleIsMemory, Became, TypesKept
  <2>3. CASE UNCHANGED mem
    <3>1. OnlyOf(p)
      BY <2>3 DEF Types, OnlyOf
    <3>. QED
      BY <2>1, <2>3, <3>1, TypesKept, TypesOf
  <2>. QED
    BY <1>29, <2>2, <2>3 DEF UnlockEverything
<1>30. ASSUME NEW p \in Procs, Interrupt(p) \/ Crash(p) PROVE Types'
  <2>1. faults' \in 0..MaxFaults
    BY <1>0, <1>30, BoundsAssumption DEF Interrupt, Crash, DiskTypes
  <2>. QED
    BY <1>3, <1>30, <2>1 DEF Interrupt, Crash
<1>31. CASE ForceLock
  <2>1. DiskTypes'
    BY <1>0, <1>31 DEF ForceLock, SetOwner, DiskTypes
  <2>. QED
    BY <1>31, <2>1 DEF ForceLock, Types, TypeOK, DiskTypes, At
<1>32. CASE UNCHANGED vars
  BY <1>32 DEF vars, disk, Types, TypeOK, At
<1>33. ASSUME NEW p \in Procs, LockFails(p) PROVE Types'
  BY <1>4, <1>33 DEF LockFails
<1>34. ASSUME NEW p \in Procs, Backup(p) PROVE Types'
  BY <1>34, <1>5, <1>8, <1>9, <1>10, <1>11, <1>12, <1>13, <1>14, <1>15, <1>17, <1>19, <1>33 DEF Backup
<1>35. ASSUME NEW p \in Procs, Removal(p) PROVE Types'
  BY <1>35, <1>6, <1>20, <1>21, <1>23, <1>24, <1>25, <1>26, <1>27, <1>28, <1>29 DEF Removal
<1>36. ASSUME NEW p \in Procs, Commit(p) PROVE Types'
  BY <1>36, <1>16, <1>18 DEF Commit
<1>. QED
  BY <1>30, <1>31, <1>32, <1>34, <1>35, <1>36 DEF Next

(* All variables keep their types.                                         *)
THEOREM Typing == Spec => []TypeOK
<1>1. Init => Types
  BY IdleIsMemory, BoundsAssumption DEF Init, Types, TypeOK, At, Locks
<1>2. Types /\ [Next]_vars => Types'
  BY TypeStep
<1>3. Types => TypeOK
  BY DEF Types
<1>. QED
  BY <1>1, <1>2, <1>3, PTL DEF Spec

-----------------------------------------------------------------------------
(* The lock discipline                                                     *)

OwnSteps == {"init_indexes", "init_unlock", "create_generation", "backing_up",
             "commit_client", "unlock_client"}
IndexSteps == {"init_unlock", "commit_client", "unlock_client", "commit_chunklist",
               "commit_chunksums", "unlock_indexes", "remove_generations", "remove_unused"}
RemovalSteps == {"remove_generations", "commit_client", "unlock_client", "commit_chunklist",
                 "commit_chunksums", "remove_unused"}
BackupSteps == {"commit_client_list", "unlock_client_list", "lock_client", "init_indexes",
                "init_unlock", "create_generation", "backing_up", "unlock_client",
                "unlock_indexes", "relock_client"}

(* What p holds where: the client and the indexes while it changes them,   *)
(* the list of clients, and all clients, while it removes generations.     *)
DisciplineOf(p) ==
  LET m == mem[p] IN
  /\ m.pc # "idle" => m.task \in {"backup", "forget"}
  /\ m.pc \in BackupSteps => m.task = "backup"
  /\ m.pc \notin {"idle", "commit_client_list"} => m.client \in clientList
  /\ m.pc \in OwnSteps => Holds(p, m.client)
  /\ m.pc \in IndexSteps => Holds(p, Indexes)
  /\ m.pc \in {"commit_client_list", "unlock_client_list", "remove_generations", "remove_unused"} =>
       Holds(p, ClientList)
  /\ m.task = "forget" /\ m.pc \in RemovalSteps => Holds(p, ClientList)
  /\ Holds(p, ClientList) =>
       m.pc \in RemovalSteps \cup {"commit_client_list", "unlock_client_list",
                                  "lock_everything", "unlock_everything"}
  /\ Removing(p) =>
       /\ \A c \in clientList \ {m.client} : Holds(p, c)
       /\ m.task = "forget" \/ m.pc = "remove_generations" => Holds(p, m.client)

Discipline == \A p \in Procs : DisciplineOf(p)

LEMMA LockNames ==
  /\ ClientList \in Locks /\ Indexes \in Locks /\ Clients \subseteq Locks
  /\ ClientList # Indexes /\ ClientList \notin Clients /\ Indexes \notin Clients
  /\ Nobody \notin Procs /\ Dead \notin Procs /\ Nobody # Dead
  BY NamesAssumption DEF Locks, ClientList, Indexes, Nobody, Dead

(* A step of p neither takes a lock from another process nor gives it one. *)
OthersKeep(p) ==
  \A q \in Procs \ {p}, l \in Locks : owner'[l] = q <=> owner[l] = q

LEMMA DisciplineKept ==
  ASSUME Types, Discipline, NEW p \in Procs, OnlyOf(p), OthersKeep(p), DisciplineOf(p)',
         \/ UNCHANGED clientList
         \/ /\ Holds(p, ClientList) /\ mem[p].client \in Clients
            /\ clientList' = clientList \cup {mem[p].client}
  PROVE  Discipline'
<1>. SUFFICES ASSUME NEW q \in Procs, q # p PROVE DisciplineOf(q)'
  BY DEF Discipline
<1>1. mem'[q] = mem[q] /\ DisciplineOf(q)
  BY DEF OnlyOf, Discipline
<1>2. \A l \in Locks : owner'[l] = q <=> owner[l] = q
  BY DEF OthersKeep
<1>3. ~At(q, "idle") => mem[q].client \in Locks
  BY TypesOf, LockNames DEF At
<1>4. Holds(q, ClientList) => UNCHANGED clientList
  BY LockNames DEF Holds
<1>5. clientList \subseteq clientList' /\ clientList' \subseteq Locks
  BY LockNames DEF Types, TypeOK
<1>. QED
  BY <1>1, <1>2, <1>3, <1>4, <1>5, LockNames
     DEF DisciplineOf, Holds, At, OwnSteps, IndexSteps, RemovalSteps, BackupSteps, Removing

LEMMA DisciplineStep ==
  ASSUME Types, Discipline, [Next]_vars
  PROVE  Discipline'
<1>. USE LockNames DEF At, Holds, Free, Fields
<1>1. ASSUME NEW p \in Procs, NEW l \in Locks, Free(l), owner' = [owner EXCEPT ![l] = p]
      PROVE  /\ OthersKeep(p) /\ Holds(p, l)'
             /\ \A k \in Locks : k # l => owner'[k] = owner[k]
  BY <1>1 DEF OthersKeep, Types, TypeOK
<1>2. ASSUME NEW p \in Procs, NEW l \in Locks, Holds(p, l), owner' = [owner EXCEPT ![l] = Nobody]
      PROVE  /\ OthersKeep(p) /\ owner'[l] = Nobody
             /\ \A k \in Locks : k # l => owner'[k] = owner[k]
  BY <1>2 DEF OthersKeep, Types, TypeOK
<1>3. ASSUME NEW p \in Procs, NEW released, EndWith(p, released), UNCHANGED clientList
      PROVE  Discipline'
  <2>1. OnlyOf(p) /\ mem'[p].pc = "idle"
    BY <1>3, EndEffect, IdleIsMemory
  <2>2. \A l \in Locks : owner'[l] # p /\ (owner[l] # p => owner'[l] = owner[l])
    BY <1>3 DEF EndWith
  <2>3. OthersKeep(p)
    BY <1>3 DEF EndWith, OthersKeep
  <2>4. DisciplineOf(p)'
    BY <2>1, <2>2 DEF DisciplineOf, OwnSteps, IndexSteps, RemovalSteps, BackupSteps, Removing
  <2>. QED
    BY <1>3, <2>1, <2>3, <2>4, DisciplineKept
<1>4. ASSUME NEW p \in Procs, Fail(p) PROVE Discipline'
  BY <1>3, <1>4 DEF Fail
<1>5. \A p \in Procs : DisciplineOf(p)
  BY DEF Discipline
<1>. USE DEF OwnSteps, IndexSteps, RemovalSteps, BackupSteps, Removing
<1>6. ASSUME NEW p \in Procs, NEW c \in Clients, StartBackup(p, c) \/ StartForget(p, c)
      PROVE  Discipline'
  <2>1. /\ OnlyOf(p) /\ mem'[p].client = c
        /\ \/ mem'[p].pc = "commit_client_list" /\ mem'[p].task = "backup"
           \/ mem'[p].pc = "lock_everything" /\ mem'[p].task = "forget" /\ c \in clientList
    BY <1>6, StartBackupEffect, StartForgetEffect DEF StartForget
  <2>2. /\ OthersKeep(p) /\ Holds(p, ClientList)' /\ UNCHANGED clientList
    BY <1>1, <1>6 DEF StartBackup, StartForget
  <2>3. DisciplineOf(p)'
    BY <2>1, <2>2 DEF DisciplineOf
  <2>. QED
    BY <2>1, <2>2, <2>3, DisciplineKept
<1>7. ASSUME NEW p \in Procs, CommitClientList(p) PROVE Discipline'
  <2>1. Only(p, {"pc"}) /\ mem'[p].pc = "unlock_client_list"
    BY <1>7, GotoEffect DEF CommitClientList, Steps
  <2>2. OnlyOf(p) /\ mem'[p].client = mem[p].client /\ mem'[p].task = mem[p].task
    BY <2>1 DEF Only
  <2>3. /\ OthersKeep(p) /\ UNCHANGED owner /\ Holds(p, ClientList)
        /\ mem[p].client \in Clients /\ mem[p].task = "backup"
    BY <1>5, <1>7, TypesOf DEF CommitClientList, OthersKeep, DisciplineOf
  <2>4. clientList' = clientList \cup {mem[p].client}
    BY <1>7 DEF CommitClientList
  <2>5. DisciplineOf(p)'
    BY <2>1, <2>2, <2>3, <2>4 DEF DisciplineOf
  <2>. QED
    BY <2>2, <2>3, <2>4, <2>5, DisciplineKept
<1>8. ASSUME NEW p \in Procs, UnlockClientList(p) PROVE Discipline'
  <2>1. Only(p, {"pc"}) /\ mem'[p].pc = "lock_client"
    BY <1>8, GotoEffect DEF UnlockClientList, Steps
  <2>2. OnlyOf(p) /\ mem'[p].client = mem[p].client /\ mem'[p].task = mem[p].task
    BY <2>1 DEF Only
  <2>3. OthersKeep(p) /\ owner'[ClientList] = Nobody /\ UNCHANGED clientList
    BY <1>2, <1>5, <1>8 DEF UnlockClientList, DisciplineOf
  <2>4. DisciplineOf(p)'
    BY <1>5, <1>8, <2>1, <2>2, <2>3 DEF DisciplineOf, UnlockClientList
  <2>. QED
    BY <2>2, <2>3, <2>4, DisciplineKept
<1>9. ASSUME NEW p \in Procs, LockClient(p) PROVE Discipline'
  <2>1. Only(p, {"pc"}) /\ mem'[p].pc \in {"init_indexes", "create_generation"}
    BY <1>9, GotoEffect DEF LockClient, Steps
  <2>2. OnlyOf(p) /\ mem'[p].client = mem[p].client /\ mem'[p].task = mem[p].task
    BY <2>1 DEF Only
  <2>3. mem[p].client \in Clients
    BY <1>9, TypesOf DEF LockClient
  <2>4. /\ OthersKeep(p) /\ Holds(p, mem[p].client)' /\ UNCHANGED clientList
        /\ owner'[ClientList] = owner[ClientList]
    <3>1. PICK c \in Locks : c = mem[p].client
      BY <2>3
    <3>2. /\ c # ClientList /\ Free(c) /\ UNCHANGED clientList
          /\ owner' = [owner EXCEPT ![c] = p]
      BY <1>9, <2>3, <3>1 DEF LockClient
    <3>3. OthersKeep(p) /\ Holds(p, c)' /\ owner'[ClientList] = owner[ClientList]
      BY <1>1, <3>2
    <3>. QED
      BY <2>2, <3>1, <3>2, <3>3
  <2>5. DisciplineOf(p)'
    BY <1>5, <1>9, <2>1, <2>2, <2>4 DEF DisciplineOf, LockClient
  <2>. QED
    BY <2>2, <2>4, <2>5, DisciplineKept
<1>10. ASSUME NEW p \in Procs, InitIndexes(p) PROVE Discipline'
  <2>1. Only(p, {"pc"}) /\ mem'[p].pc = "init_unlock"
    BY <1>10, GotoEffect DEF InitIndexes, Steps
  <2>2. OnlyOf(p) /\ mem'[p].client = mem[p].client /\ mem'[p].task = mem[p].task
    BY <2>1 DEF Only
  <2>3. /\ OthersKeep(p) /\ Holds(p, Indexes)' /\ UNCHANGED clientList
        /\ \A k \in Locks : k # Indexes => owner'[k] = owner[k]
    <3>1. /\ Indexes \in Locks /\ Free(Indexes) /\ owner' = [owner EXCEPT ![Indexes] = p]
          /\ UNCHANGED clientList
      BY <1>10 DEF InitIndexes
    <3>. QED
      BY <1>1, <3>1
  <2>4. mem[p].client \in Clients
    BY <1>10, TypesOf DEF InitIndexes
  <2>5. DisciplineOf(p)'
    BY <1>5, <1>10, <2>1, <2>2, <2>3, <2>4 DEF DisciplineOf, InitIndexes
  <2>. QED
    BY <2>2, <2>3, <2>5, DisciplineKept
<1>11. ASSUME NEW p \in Procs, InitUnlock(p) PROVE Discipline'
  <2>1. Only(p, {"pc"}) /\ mem'[p].pc = "create_generation"
    BY <1>11, GotoEffect DEF InitUnlock, Steps
  <2>2. OnlyOf(p) /\ mem'[p].client = mem[p].client /\ mem'[p].task = mem[p].task
    BY <2>1 DEF Only
  <2>3. /\ OthersKeep(p) /\ UNCHANGED clientList
        /\ \A k \in Locks : k # Indexes => owner'[k] = owner[k]
    BY <1>2, <1>5, <1>11 DEF InitUnlock, DisciplineOf
  <2>4. mem[p].client \in Clients
    BY <1>11, TypesOf DEF InitUnlock
  <2>5. DisciplineOf(p)'
    BY <1>5, <1>11, <2>1, <2>2, <2>3, <2>4 DEF DisciplineOf, InitUnlock
  <2>. QED
    BY <2>2, <2>3, <2>5, DisciplineKept
<1>12. ASSUME NEW p \in Procs, OnlyOf(p), UNCHANGED <<owner, clientList>>,
              mem'[p].client = mem[p].client, mem'[p].task = mem[p].task,
              mem'[p].pc = mem[p].pc
       PROVE  Discipline'
  <2>1. OthersKeep(p)
    BY <1>12 DEF OthersKeep
  <2>2. DisciplineOf(p)'
    BY <1>5, <1>12 DEF DisciplineOf
  <2>. QED
    BY <1>12, <2>1, <2>2, DisciplineKept
<1>13. ASSUME NEW p \in Procs, CreateGeneration(p) PROVE Discipline'
  <2>1. Only(p, {"pc", "gen", "cur"}) /\ mem'[p].pc = "backing_up"
    BY <1>13, CreateGenerationEffect
  <2>2. OnlyOf(p) /\ mem'[p].client = mem[p].client /\ mem'[p].task = mem[p].task
    BY <2>1 DEF Only
  <2>3. OthersKeep(p) /\ UNCHANGED <<owner, clientList>>
    BY <1>13 DEF OthersKeep, CreateGeneration, disk
  <2>4. DisciplineOf(p)'
    BY <1>5, <1>13, <2>1, <2>2, <2>3 DEF DisciplineOf, CreateGeneration
  <2>. QED
    BY <2>2, <2>3, <2>4, DisciplineKept
<1>14. ASSUME NEW p \in Procs, NEW x \in Contents, BackupChunk(p, x) PROVE Discipline'
  <2>1. ASSUME NEW id \in Ids, NEW shared \in BOOLEAN, UseChunk(p, id, shared),
               UNCHANGED <<owner, clientList>>
        PROVE  Discipline'
    <3>1. OnlyOf(p) /\ \A f \in {"pc", "client", "task"} : mem'[p][f] = mem[p][f]
      BY <2>1, UseChunkEffect DEF Only
    <3>. QED
      BY <1>12, <2>1, <3>1
  <2>. QED
    BY <1>4, <1>14, <2>1, BackupChunkEffect DEF disk
<1>15. ASSUME NEW p \in Procs, NEW id \in Ids, DropChunk(p, id) PROVE Discipline'
  <2>1. OnlyOf(p) /\ \A f \in {"pc", "client", "task"} : mem'[p][f] = mem[p][f]
    BY <1>15, DropChunkEffect DEF Only
  <2>. QED
    BY <1>12, <1>15, <2>1 DEF DropChunk, disk
<1>16. ASSUME NEW p \in Procs, NEW final \in BOOLEAN, StartCommit(p, final) PROVE Discipline'
  <2>1. /\ Only(p, {"pc", "final", "checkpoints", "list", "sums"})
        /\ mem'[p].pc = "commit_client"
    BY <1>16, StartCommitEffect
  <2>2. OnlyOf(p) /\ mem'[p].client = mem[p].client /\ mem'[p].task = mem[p].task
    BY <2>1 DEF Only
  <2>3. /\ OthersKeep(p) /\ Holds(p, Indexes)' /\ UNCHANGED clientList
        /\ \A k \in Locks : k # Indexes => owner'[k] = owner[k]
    <3>1. /\ Indexes \in Locks /\ Free(Indexes) /\ owner' = [owner EXCEPT ![Indexes] = p]
          /\ UNCHANGED clientList
      BY <1>16 DEF StartCommit
    <3>. QED
      BY <1>1, <3>1
  <2>4. mem[p].client \in Clients
    BY <1>16, TypesOf DEF StartCommit
  <2>5. DisciplineOf(p)'
    BY <1>5, <1>16, <2>1, <2>2, <2>3, <2>4 DEF DisciplineOf, StartCommit
  <2>. QED
    BY <2>2, <2>3, <2>5, DisciplineKept
<1>17. ASSUME NEW p \in Procs, CommitClient(p) PROVE Discipline'
  <2>1. /\ Only(p, {"pc", "list", "sums", "tokens", "removed"})
        /\ mem'[p].pc = IF mem[p].task = "forget" THEN "commit_chunklist" ELSE "unlock_client"
    BY <1>17, CommitClientEffect
  <2>2. OnlyOf(p) /\ mem'[p].client = mem[p].client /\ mem'[p].task = mem[p].task
    BY <2>1 DEF Only
  <2>3. OthersKeep(p) /\ UNCHANGED <<owner, clientList>>
    BY <1>17 DEF OthersKeep, CommitClient
  <2>4. DisciplineOf(p)'
    BY <1>5, <1>17, <2>1, <2>2, <2>3 DEF DisciplineOf, CommitClient
  <2>. QED
    BY <2>2, <2>3, <2>4, DisciplineKept
<1>18. ASSUME NEW p \in Procs, UnlockClient(p) PROVE Discipline'
  <2>1. Only(p, {"pc", "gen", "cur", "unused"}) /\ mem'[p].pc = "commit_chunklist"
    BY <1>18, UnlockClientEffect
  <2>2. OnlyOf(p) /\ mem'[p].client = mem[p].client /\ mem'[p].task = mem[p].task
    BY <2>1 DEF Only
  <2>3. mem[p].client \in Clients /\ mem[p].task = "backup"
    BY <1>5, <1>18, TypesOf DEF UnlockClient, DisciplineOf
  <2>4. /\ OthersKeep(p) /\ UNCHANGED clientList
        /\ \A k \in Locks : k # mem[p].client => owner'[k] = owner[k]
    BY <1>2, <1>5, <1>18, <2>3 DEF UnlockClient, DisciplineOf
  <2>5. clientList \subseteq Locks
    BY DEF Types, TypeOK
  <2>6. DisciplineOf(p)'
    BY <1>5, <1>18, <2>1, <2>2, <2>3, <2>4, <2>5 DEF DisciplineOf, UnlockClient
  <2>. QED
    BY <2>2, <2>4, <2>6, DisciplineKept
<1>19. ASSUME NEW p \in Procs, CommitChunklist(p) \/ CommitChunksums(p) PROVE Discipline'
  <2>1. /\ Only(p, {"pc"})
        /\ CommitChunklist(p) => mem'[p].pc = "commit_chunksums"
        /\ CommitChunksums(p) =>
             mem'[p].pc = IF Holds(p, ClientList) THEN "remove_unused" ELSE "unlock_indexes"
    BY <1>19, GotoEffect DEF CommitChunklist, CommitChunksums, Steps
  <2>2. OnlyOf(p) /\ mem'[p].client = mem[p].client /\ mem'[p].task = mem[p].task
    BY <2>1 DEF Only
  <2>3. OthersKeep(p) /\ UNCHANGED <<owner, clientList>>
    BY <1>19 DEF OthersKeep, CommitChunklist, CommitChunksums
  <2>4. DisciplineOf(p)'
    BY <1>5, <1>19, <2>1, <2>2, <2>3 DEF DisciplineOf, CommitChunklist, CommitChunksums
  <2>. QED
    BY <2>2, <2>3, <2>4, DisciplineKept
<1>20. ASSUME NEW p \in Procs, UnlockIndexes(p) PROVE Discipline'
  <2>1. /\ OthersKeep(p) /\ UNCHANGED clientList
        /\ \A k \in Locks : k # Indexes => owner'[k] = owner[k]
    BY <1>2, <1>5, <1>20 DEF UnlockIndexes, DisciplineOf
  <2>2. ~Holds(p, ClientList)
    BY <1>5, <1>20 DEF DisciplineOf, UnlockIndexes
  <2>3. CASE OnlyOf(p) /\ mem'[p] = Idle
    <3>1. DisciplineOf(p)'
      BY <2>1, <2>2, <2>3, IdleIsMemory DEF DisciplineOf
    <3>. QED
      BY <2>1, <2>3, <3>1, DisciplineKept
  <2>4. CASE /\ Only(p, {"pc", "list", "sums", "opened", "snap"})
             /\ mem'[p].pc \in {"lock_everything", "relock_client"}
    <3>1. OnlyOf(p) /\ mem'[p].client = mem[p].client /\ mem'[p].task = mem[p].task
      BY <2>4 DEF Only
    <3>2. DisciplineOf(p)'
      BY <1>5, <1>20, <2>1, <2>2, <2>4, <3>1 DEF DisciplineOf, UnlockIndexes
    <3>. QED
      BY <2>1, <3>1, <3>2, DisciplineKept
  <2>. QED
    BY <1>20, <2>3, <2>4, UnlockIndexesEffect
<1>21. ASSUME NEW p \in Procs, NEW l \in Locks, LockEverything(p, l) PROVE Discipline'
  <2>1. /\ OthersKeep(p) /\ Holds(p, l)' /\ UNCHANGED clientList
        /\ \A k \in Locks : k # l => owner'[k] = owner[k]
    <3>1. Free(l) /\ owner' = [owner EXCEPT ![l] = p] /\ UNCHANGED clientList
      BY <1>21 DEF LockEverything
    <3>. QED
      BY <1>1, <3>1
  <2>2. CASE l # Indexes
    <3>1. OnlyOf(p) /\ mem'[p] = mem[p]
      BY <1>21, <2>2, LockEverythingEffect
    <3>2. DisciplineOf(p)'
      BY <1>5, <1>21, <2>1, <3>1 DEF DisciplineOf, LockEverything
    <3>. QED
      BY <2>1, <3>1, <3>2, DisciplineKept
  <2>3. CASE l = Indexes
    <3>1. Only(p, {"pc", "list", "sums"}) /\ mem'[p].pc = "remove_generations"
      BY <1>21, <2>3, LockEverythingEffect
    <3>2. OnlyOf(p) /\ mem'[p].client = mem[p].client /\ mem'[p].task = mem[p].task
      BY <3>1 DEF Only
    <3>3. clientList \subseteq Clients
      BY DEF Types, TypeOK
    <3>4. Holds(p, ClientList) /\ \A c \in clientList : Holds(p, c)
      BY <1>21, <2>3, <3>3 DEF LockEverything, NextLock, AllClients, Held
    <3>5. DisciplineOf(p)'
      BY <1>5, <1>21, <2>1, <2>3, <3>1, <3>2, <3>3, <3>4 DEF DisciplineOf, LockEverything
    <3>. QED
      BY <2>1, <3>2, <3>5, DisciplineKept
  <2>. QED
    BY <2>2, <2>3
<1>22. ASSUME NEW p \in Procs, Only(p, {"pc"}), UNCHANGED <<owner, clientList>>,
              mem[p].pc \in {"lock_everything", "remove_generations", "remove_unused"},
              \/ mem'[p].pc = "unlock_everything"
              \/ mem[p].pc = "remove_unused" /\ mem[p].task = "forget" /\ mem'[p].pc = "remove_generations"
       PROVE  Discipline'
  <2>1. OnlyOf(p) /\ mem'[p].client = mem[p].client /\ mem'[p].task = mem[p].task
    BY <1>22 DEF Only
  <2>2. OthersKeep(p)
    BY <1>22 DEF OthersKeep
  <2>3. DisciplineOf(p)'
    BY <1>5, <1>22, <2>1 DEF DisciplineOf
  <2>. QED
    BY <1>22, <2>1, <2>2, <2>3, DisciplineKept
<1>23. ASSUME NEW p \in Procs, NEW l \in Locks, LockEverythingFails(p, l) PROVE Discipline'
  BY <1>22, <1>23, GotoEffect DEF LockEverythingFails, disk, Steps
<1>24. ASSUME NEW p \in Procs, ForgetDone(p) \/ RemovedUnused(p) PROVE Discipline'
  BY <1>22, <1>24, GotoEffect DEF ForgetDone, RemovedUnused, disk, Steps
<1>25. ASSUME NEW p \in Procs, NEW nums \in SUBSET (1..MaxGens), At(p, "remove_generations"),
              RemoveGenerations(p, nums, "commit_client"), UNCHANGED <<disk, runs, faults>>
       PROVE  Discipline'
  <2>1. /\ Only(p, {"pc", "removed", "list", "sums", "unused", "checkpoints"})
        /\ mem'[p].pc = "commit_client"
    BY <1>25, RemoveGenerationsEffect
  <2>2. OnlyOf(p) /\ mem'[p].client = mem[p].client /\ mem'[p].task = mem[p].task
    BY <2>1 DEF Only
  <2>3. OthersKeep(p) /\ UNCHANGED <<owner, clientList>>
    BY <1>25 DEF OthersKeep, disk
  <2>4. DisciplineOf(p)'
    BY <1>5, <1>25, <2>1, <2>2, <2>3 DEF DisciplineOf
  <2>. QED
    BY <2>2, <2>3, <2>4, DisciplineKept
<1>26. ASSUME NEW p \in Procs, NEW num \in 1..MaxGens, ForgetOne(p, num) PROVE Discipline'
  BY <1>25, <1>26 DEF ForgetOne
<1>27. ASSUME NEW p \in Procs, RemoveCheckpoints(p) PROVE Discipline'
  <2>1. mem[p].checkpoints \in SUBSET (1..MaxGens)
    BY TypesOf DEF Memory
  <2>. QED
    BY <1>4, <1>25, <1>27, <2>1 DEF RemoveCheckpoints
<1>28. ASSUME NEW p \in Procs, NEW id \in Ids, RemoveUnused(p, id) PROVE Discipline'
  <2>1. CASE id \in store
    <3>1. OnlyOf(p) /\ \A f \in {"pc", "client", "task"} : mem'[p][f] = mem[p][f]
      BY <1>28, <2>1, RemoveUnusedEffect DEF Only
    <3>. QED
      BY <1>12, <1>28, <2>1, <3>1 DEF RemoveUnused
  <2>. QED
    BY <1>4, <1>28, <2>1 DEF RemoveUnused
<1>29. ASSUME NEW p \in Procs, UnlockEverything(p) PROVE Discipline'
  <2>1. UNCHANGED clientList /\ mem[p].pc = "unlock_everything"
    BY <1>29 DEF UnlockEverything
  <2>2. /\ OnlyOf(p)
        /\ \/ mem'[p] = mem[p]
           \/ mem'[p].pc = "idle" /\ \A l \in Locks : owner'[l] # p
    <3>1. CASE Held(p) = {} /\ Become(p, Idle) /\ UNCHANGED owner
      BY <3>1, IdleIsMemory, Became DEF Held
    <3>2. CASE \E l \in NextUnlock(p) :
                 /\ owner' = [owner EXCEPT ![l] = Nobody]
                 /\ IF Held(p) = {l} THEN Become(p, Idle) ELSE UNCHANGED mem
      <4>1. PICK l \in NextUnlock(p) :
              /\ owner' = [owner EXCEPT ![l] = Nobody]
              /\ IF Held(p) = {l} THEN Become(p, Idle) ELSE UNCHANGED mem
        BY <3>2
      <4>2. CASE Held(p) = {l}
        <5>1. OnlyOf(p) /\ mem'[p] = Idle
          BY <4>1, <4>2, IdleIsMemory, Became
        <5>2. \A k \in Locks : owner'[k] # p
          BY <4>1, <4>2 DEF Held, Types, TypeOK
        <5>. QED
          BY <5>1, <5>2, IdleIsMemory
      <4>3. CASE Held(p) # {l}
        BY <4>1, <4>3 DEF OnlyOf, Types
      <4>. QED
        BY <4>2, <4>3
    <3>. QED
      BY <1>29, <3>1, <3>2 DEF UnlockEverything
  <2>3. OthersKeep(p) /\ (Holds(p, ClientList)' => Holds(p, ClientList))
    <3>1. \A l \in NextUnlock(p) : l \in Locks /\ Holds(p, l)
      BY DEF NextUnlock, Held
    <3>2. CASE UNCHANGED owner
      BY <3>2 DEF OthersKeep
    <3>3. ASSUME NEW l \in NextUnlock(p), owner' = [owner EXCEPT ![l] = Nobody]
          PROVE  OthersKeep(p) /\ (Holds(p, ClientList)' => Holds(p, ClientList))
      <4>1. l \in Locks /\ Holds(p, l)
        BY <3>1, <3>3
      <4>2. OthersKeep(p) /\ owner'[l] = Nobody /\ \A k \in Locks : k # l => owner'[k] = owner[k]
        BY <1>2, <3>3, <4>1
      <4>3. ClientList = l \/ owner'[ClientList] = owner[ClientList]
        BY <4>2
      <4>. QED
        BY <4>1, <4>2, <4>3
    <3>. QED
      BY <1>29, <3>2, <3>3 DEF UnlockEverything
  <2>4. DisciplineOf(p)'
    BY <1>5, <2>1, <2>2, <2>3 DEF DisciplineOf
  <2>. QED
    BY <2>1, <2>2, <2>3, <2>4, DisciplineKept
<1>30. ASSUME NEW p \in Procs, Interrupt(p) \/ Crash(p) PROVE Discipline'
  BY <1>3, <1>30 DEF Interrupt, Crash
<1>31. CASE ForceLock
  <2>1. \A p \in Procs : mem'[p].pc = "idle" /\ ~Holds(p, ClientList)'
    BY <1>31 DEF ForceLock, SetOwner
  <2>. QED
    BY <2>1 DEF Discipline, DisciplineOf
<1>32. CASE UNCHANGED vars
  BY <1>32 DEF vars, disk, Discipline, DisciplineOf
<1>33. ASSUME NEW p \in Procs, LockFails(p) \/ ForgetUnknown(p) PROVE Discipline'
  BY <1>4, <1>33 DEF LockFails, ForgetUnknown
<1>34. ASSUME NEW p \in Procs, Backup(p) PROVE Discipline'
  BY <1>34, <1>6, <1>7, <1>8, <1>9, <1>10, <1>11, <1>13, <1>14, <1>15, <1>16, <1>18, <1>20, <1>33
     DEF Backup
<1>35. ASSUME NEW p \in Procs, Removal(p) PROVE Discipline'
  BY <1>35, <1>6, <1>21, <1>23, <1>24, <1>26, <1>27, <1>28, <1>29, <1>33 DEF Removal
<1>36. ASSUME NEW p \in Procs, Commit(p) PROVE Discipline'
  BY <1>36, <1>17, <1>19 DEF Commit
<1>. QED
  BY <1>30, <1>31, <1>32, <1>34, <1>35, <1>36 DEF Next

-----------------------------------------------------------------------------
(* The kinds of steps, as the invariants below tell them apart             *)

data == <<gens, lastGen, store, chunklist, chunksums>>

SameLocks(q) == \A l \in Locks : owner'[l] = q <=> owner[l] = q

(* The steps that only lead p to another step, by the steps they connect.  *)
Passages == {
  <<"commit_client_list", "unlock_client_list">>, <<"unlock_client_list", "lock_client">>,
  <<"lock_client", "init_indexes">>, <<"init_indexes", "init_unlock">>,
  <<"init_unlock", "create_generation">>, <<"relock_client", "create_generation">>,
  <<"lock_everything", "unlock_everything">>, <<"remove_generations", "unlock_everything">>,
  <<"remove_unused", "remove_generations">>, <<"remove_unused", "unlock_everything">>}

Passes(p) ==
  /\ <<mem[p].pc, mem'[p].pc>> \in Passages
  /\ mem[p].pc = "remove_unused" => mem[p].unused = {}
  /\ Only(p, {"pc"}) /\ UNCHANGED data

(* A command ends, and in the middle of a commit only if there are faults. *)
CommitSteps == {"commit_client", "unlock_client", "commit_chunklist", "commit_chunksums"}
Ends(p) ==
  /\ MaxFaults = 0 => mem[p].pc \notin CommitSteps
  /\ OnlyOf(p) /\ mem'[p] = Idle /\ UNCHANGED data

Starts(p) ==
  /\ OnlyOf(p) /\ UNCHANGED data
  /\ mem[p].pc = "idle"
  /\ \/ mem'[p].pc = "commit_client_list" /\ mem'[p].task = "backup" /\ mem'[p].mode \in Modes
     \/ mem'[p].pc = "lock_everything" /\ mem'[p].task = "forget" /\ mem'[p].mode = "none"
  /\ mem'[p].client \in Clients
  /\ <<p, mem'[p].task, mem'[p].client>> \in MayRun
  /\ \A f \in Fields \ {"pc", "task", "client", "mode"} : mem'[p][f] = Idle[f]

(* A new chunk, or one that has been found.                                *)
Puts(p, id, shared) ==
  /\ mem[p].pc = "backing_up" /\ (shared <=> mem[p].mode # "never")
  /\ id \notin Mentioned /\ store' = store \cup {id}
  /\ UseChunk(p, id, shared)
  /\ UNCHANGED <<gens, lastGen, chunklist, chunksums>>

Reuses(p, id) ==
  /\ mem[p].pc = "backing_up" /\ mem[p].mode # "never"
  /\ id \in Snapshot(p) \cup mem[p].tokens /\ ~ReadFails(p, id)
  /\ UseChunk(p, id, TRUE)
  /\ UNCHANGED data

Continues(p) ==
  /\ mem[p].pc = "unlock_indexes"
  /\ mem'[p].pc = IF mem[p].final THEN "lock_everything" ELSE "relock_client"
  /\ Only(p, {"pc", "list", "sums", "opened", "snap"})
  /\ mem'[p].list = {} /\ mem'[p].sums = {} /\ mem'[p].opened = FALSE /\ mem'[p].snap = {}
  /\ UNCHANGED data

Removes(p, nums) ==
  /\ mem[p].pc = "remove_generations"
  /\ mem[p].task = "forget" => \A num \in nums :
       ForgetNewest \/ \E g \in Own(mem[p].client) : g.num > num
  /\ RemoveGenerations(p, nums, "commit_client")
  /\ UNCHANGED <<data, owner>>

Step(p) ==
  \/ Passes(p) \/ Ends(p) \/ Starts(p)
  \/ CreateGeneration(p)
  \/ \E id \in Ids, shared \in BOOLEAN : Puts(p, id, shared)
  \/ \E id \in Ids : Reuses(p, id)
  \/ \E id \in Ids : DropChunk(p, id)
  \/ \E final \in BOOLEAN : StartCommit(p, final)
  \/ CommitClient(p) \/ UnlockClient(p) \/ CommitChunklist(p) \/ CommitChunksums(p)
  \/ Continues(p)
  \/ LockEverything(p, Indexes)
  \/ \E nums \in SUBSET (1..MaxGens) : Removes(p, nums)
  \/ \E id \in Ids : RemoveUnused(p, id) /\ id \in store

Rests ==
  /\ UNCHANGED <<mem, data>>
  /\ \A q \in Procs :
       mem[q].pc \in {"idle", "lock_everything", "unlock_everything"} \/ SameLocks(q)

LEMMA Kinds ==
  ASSUME Types, Discipline, [Next]_vars
  PROVE  Rests \/ \E p \in Procs : Step(p) /\ OthersKeep(p)
<1>. DEFINE Goal == Rests \/ \E p \in Procs : Step(p) /\ OthersKeep(p)
<1>. USE LockNames DEF At, Holds, Free
<1>1. ASSUME NEW p \in Procs, NEW l \in Locks, Free(l), owner' = [owner EXCEPT ![l] = p]
      PROVE  OthersKeep(p)
  BY <1>1 DEF OthersKeep, Types, TypeOK
<1>2. ASSUME NEW p \in Procs, NEW l \in Locks, Holds(p, l), owner' = [owner EXCEPT ![l] = Nobody]
      PROVE  OthersKeep(p)
  BY <1>2 DEF OthersKeep, Types, TypeOK
<1>3. ASSUME NEW p \in Procs, NEW released, EndWith(p, released),
             MaxFaults = 0 => mem[p].pc \notin CommitSteps,
             UNCHANGED <<gens, lastGen, store, chunklist, chunksums>>
      PROVE  Ends(p) /\ OthersKeep(p)
  BY <1>3, EndEffect DEF EndWith, OthersKeep, Ends, data
<1>4. ASSUME NEW p \in Procs, Fail(p), mem[p].pc \notin CommitSteps
      PROVE  Ends(p) /\ OthersKeep(p)
  BY <1>3, <1>4 DEF Fail
<1>5. \A p \in Procs : DisciplineOf(p)
  BY DEF Discipline
<1>6. ASSUME NEW p \in Procs, UNCHANGED owner PROVE OthersKeep(p)
  BY <1>6 DEF OthersKeep
<1>7. ASSUME NEW p \in Procs, NEW c \in Clients, StartBackup(p, c) PROVE Starts(p) /\ OthersKeep(p)
  BY <1>1, <1>7, StartBackupEffect DEF StartBackup, Starts, data
<1>8. ASSUME NEW p \in Procs, NEW c \in Clients, StartForget(p, c) PROVE Starts(p) /\ OthersKeep(p)
  <2>1. mem'[p].mode = "none"
    BY <1>8, StartForgetEffect DEF Fields, Idle
  <2>. QED
    BY <1>1, <1>8, <2>1, StartForgetEffect DEF StartForget, Starts, data
<1>9. ASSUME NEW p \in Procs, NEW s \in Steps, Goto(p, s), <<mem[p].pc, s>> \in Passages,
             mem[p].pc = "remove_unused" => mem[p].unused = {}, UNCHANGED data
      PROVE  Passes(p)
  BY <1>9, GotoEffect DEF Passes
<1>10. ASSUME NEW p \in Procs, CommitClientList(p) PROVE Passes(p) /\ OthersKeep(p)
  BY <1>6, <1>9, <1>10 DEF CommitClientList, data, Steps, Passages
<1>11. ASSUME NEW p \in Procs, UnlockClientList(p) PROVE Passes(p) /\ OthersKeep(p)
  BY <1>2, <1>5, <1>9, <1>11 DEF UnlockClientList, data, Steps, Passages, DisciplineOf
<1>12. ASSUME NEW p \in Procs, LockClient(p) PROVE Passes(p) /\ OthersKeep(p)
  <2>1. mem[p].client \in Locks
    BY <1>12, TypesOf DEF LockClient
  <2>2. OthersKeep(p)
    BY <1>1, <1>12, <2>1 DEF LockClient
  <2>. QED
    BY <1>9, <1>12, <2>2 DEF LockClient, data, Steps, Passages
<1>13. ASSUME NEW p \in Procs, InitIndexes(p) PROVE Passes(p) /\ OthersKeep(p)
  BY <1>1, <1>9, <1>13 DEF InitIndexes, data, Steps, Passages
<1>14. ASSUME NEW p \in Procs, InitUnlock(p) PROVE Passes(p) /\ OthersKeep(p)
  BY <1>2, <1>5, <1>9, <1>14 DEF InitUnlock, data, Steps, Passages, DisciplineOf, IndexSteps
<1>15. ASSUME NEW p \in Procs, CreateGeneration(p) \/ CommitClient(p) \/ CommitChunklist(p) \/ CommitChunksums(p)
       PROVE  Step(p) /\ OthersKeep(p)
  BY <1>6, <1>15 DEF CreateGeneration, CommitClient, CommitChunklist, CommitChunksums, disk, Step
<1>16. ASSUME NEW p \in Procs, NEW x \in Contents, BackupChunk(p, x) PROVE Step(p) /\ OthersKeep(p)
  <2>1. ASSUME NEW id \in Ids \ Mentioned, NEW shared \in BOOLEAN,
               shared <=> mem[p].mode # "never", store' = store \cup {id}, UseChunk(p, id, shared),
               UNCHANGED <<owner, clientList, gens, lastGen, chunklist, chunksums, runs, faults>>
        PROVE  Step(p) /\ OthersKeep(p)
    <3>1. Puts(p, id, shared)
      BY <1>16, <2>1 DEF BackupChunk, Puts
    <3>. QED
      BY <1>6, <2>1, <3>1 DEF Step
  <2>2. ASSUME NEW id \in Ids, mem[p].mode # "never", id \in Snapshot(p) \cup mem[p].tokens,
               ~ReadFails(p, id), UseChunk(p, id, TRUE), UNCHANGED <<disk, runs, faults>>
        PROVE  Step(p) /\ OthersKeep(p)
    <3>1. Reuses(p, id)
      BY <1>16, <2>2 DEF BackupChunk, Reuses, disk, data
    <3>. QED
      BY <1>6, <2>2, <3>1 DEF Step, disk
  <2>3. ASSUME Fail(p) PROVE Step(p) /\ OthersKeep(p)
    BY <1>4, <1>16, <2>3 DEF Step, BackupChunk, CommitSteps
  <2>. QED
    BY <1>16, <2>1, <2>2, <2>3, BackupChunkEffect
<1>17. ASSUME NEW p \in Procs, NEW id \in Ids, DropChunk(p, id) PROVE Step(p) /\ OthersKeep(p)
  BY <1>6, <1>17 DEF DropChunk, disk, Step
<1>18. ASSUME NEW p \in Procs, NEW final \in BOOLEAN, StartCommit(p, final) PROVE Step(p) /\ OthersKeep(p)
  BY <1>1, <1>18 DEF StartCommit, Step
<1>19. ASSUME NEW p \in Procs, UnlockClient(p) PROVE Step(p) /\ OthersKeep(p)
  <2>1. mem[p].client \in Locks /\ Holds(p, mem[p].client)
    BY <1>5, <1>19, TypesOf DEF UnlockClient, DisciplineOf, OwnSteps
  <2>. QED
    BY <1>2, <1>19, <2>1 DEF UnlockClient, Step
<1>20. ASSUME NEW p \in Procs, UnlockIndexes(p) PROVE Step(p) /\ OthersKeep(p)
  <2>1. OthersKeep(p)
    BY <1>2, <1>5, <1>20 DEF UnlockIndexes, DisciplineOf, IndexSteps
  <2>2. Ends(p) \/ Continues(p)
    BY <1>20, UnlockIndexesEffect DEF UnlockIndexes, Ends, Continues, data, CommitSteps
  <2>. QED
    BY <2>1, <2>2 DEF Step
<1>21. ASSUME NEW p \in Procs, NEW l \in Locks, LockEverything(p, l) PROVE Goal
  <2>1. OthersKeep(p)
    BY <1>1, <1>21 DEF LockEverything
  <2>2. CASE l = Indexes
    BY <1>21, <2>1, <2>2 DEF Step
  <2>3. CASE l # Indexes
    BY <1>21, <2>1, <2>3 DEF LockEverything, Rests, data, OthersKeep, SameLocks
  <2>. QED
    BY <2>2, <2>3
<1>22. ASSUME NEW p \in Procs, NEW l \in Locks, LockEverythingFails(p, l) PROVE Passes(p) /\ OthersKeep(p)
  BY <1>6, <1>9, <1>22 DEF LockEverythingFails, data, disk, Steps, Passages
<1>23. ASSUME NEW p \in Procs, NEW num \in 1..MaxGens, ForgetOne(p, num) PROVE Step(p) /\ OthersKeep(p)
  <2>1. Removes(p, {num})
    BY <1>23 DEF ForgetOne, Removes, disk, data
  <2>. QED
    BY <1>6, <1>23, <2>1 DEF Step, ForgetOne, disk
<1>24. ASSUME NEW p \in Procs, RemoveCheckpoints(p) PROVE Step(p) /\ OthersKeep(p)
  <2>1. mem[p].checkpoints \in SUBSET (1..MaxGens)
    BY TypesOf DEF Memory
  <2>2. CASE RemoveGenerations(p, mem[p].checkpoints, "commit_client") /\ UNCHANGED <<disk, runs, faults>>
    <3>1. Removes(p, mem[p].checkpoints)
      BY <1>24, <2>2 DEF RemoveCheckpoints, Removes, disk, data
    <3>. QED
      BY <1>6, <2>1, <2>2, <3>1 DEF Step, disk
  <2>3. CASE Fail(p)
    BY <1>4, <1>24, <2>3 DEF Step, RemoveCheckpoints, CommitSteps
  <2>. QED
    BY <1>24, <2>2, <2>3 DEF RemoveCheckpoints
<1>25. ASSUME NEW p \in Procs, ForgetDone(p) PROVE Passes(p) /\ OthersKeep(p)
  BY <1>6, <1>9, <1>25 DEF ForgetDone, data, disk, Steps, Passages
<1>26. ASSUME NEW p \in Procs, RemovedUnused(p) PROVE Passes(p) /\ OthersKeep(p)
  BY <1>6, <1>9, <1>26 DEF RemovedUnused, data, disk, Steps, Passages
<1>27. ASSUME NEW p \in Procs, NEW id \in Ids, RemoveUnused(p, id) PROVE Step(p) /\ OthersKeep(p)
  BY <1>4, <1>6, <1>27 DEF RemoveUnused, Step, CommitSteps
<1>28. ASSUME NEW p \in Procs, UnlockEverything(p) PROVE Goal
  <2>1. OthersKeep(p)
    <3>1. \A l \in NextUnlock(p) : l \in Locks /\ Holds(p, l)
      BY DEF NextUnlock, Held
    <3>. QED
      BY <1>2, <1>6, <1>28, <3>1 DEF UnlockEverything
  <2>2. CASE Become(p, Idle)
    <3>1. Ends(p)
      BY <1>28, <2>2, IdleIsMemory, Became DEF UnlockEverything, Ends, data, CommitSteps
    <3>. QED
      BY <2>1, <3>1 DEF Step
  <2>3. CASE UNCHANGED mem
    BY <1>28, <2>1, <2>3 DEF UnlockEverything, Rests, data, OthersKeep, SameLocks
  <2>. QED
    BY <1>28, <2>2, <2>3 DEF UnlockEverything
<1>29. ASSUME NEW p \in Procs, Interrupt(p) \/ Crash(p) PROVE Ends(p) /\ OthersKeep(p)
  <2>1. MaxFaults # 0
    BY <1>29, BoundsAssumption DEF Interrupt, Crash, Types, TypeOK
  <2>. QED
    BY <1>3, <1>29, <2>1 DEF Interrupt, Crash
<1>30. CASE ForceLock
  BY <1>30 DEF ForceLock, Rests, data
<1>31. CASE UNCHANGED vars
  BY <1>31 DEF vars, disk, Rests, data, SameLocks
<1>32. ASSUME NEW p \in Procs, LockFails(p) \/ ForgetUnknown(p) PROVE Ends(p) /\ OthersKeep(p)
  <2>1. LockFails(p) => mem[p].pc \in {"lock_client", "relock_client", "init_indexes", "backing_up"}
    BY DEF LockFails, WantedLock
  <2>. QED
    BY <1>4, <1>32, <2>1 DEF LockFails, ForgetUnknown, CommitSteps
<1>33. ASSUME NEW p \in Procs, Passes(p) \/ Ends(p) \/ Starts(p) PROVE Step(p)
  BY <1>33 DEF Step
<1>34. ASSUME NEW p \in Procs, Backup(p) PROVE Goal
  BY <1>34, <1>7, <1>10, <1>11, <1>12, <1>13, <1>14, <1>15, <1>16, <1>17, <1>18, <1>19, <1>20,
     <1>32, <1>33 DEF Backup
<1>35. ASSUME NEW p \in Procs, Removal(p) PROVE Goal
  BY <1>35, <1>8, <1>21, <1>22, <1>23, <1>24, <1>25, <1>26, <1>27, <1>28, <1>32, <1>33 DEF Removal
<1>36. ASSUME NEW p \in Procs, Commit(p) PROVE Goal
  BY <1>36, <1>15 DEF Commit
<1>. QED
  BY <1>29, <1>30, <1>31, <1>33, <1>34, <1>35, <1>36 DEF Next

LEMMA StepIsOwn ==
  ASSUME Types, NEW p \in Procs, Step(p)
  PROVE  OnlyOf(p)
<1>1. ASSUME NEW s \in Steps, Goto(p, s) PROVE OnlyOf(p)
  BY <1>1, GotoEffect DEF Only
<1>2. CASE CommitChunklist(p) \/ CommitChunksums(p)
  BY <1>1, <1>2 DEF CommitChunklist, CommitChunksums, Steps
<1>3. ASSUME NEW id \in Ids, NEW shared \in BOOLEAN, UseChunk(p, id, shared) PROVE OnlyOf(p)
  BY <1>3, UseChunkEffect DEF Only
<1>4. CASE CreateGeneration(p) \/ CommitClient(p) \/ UnlockClient(p)
  BY <1>4, CreateGenerationEffect, CommitClientEffect, UnlockClientEffect DEF Only
<1>5. ASSUME NEW id \in Ids, DropChunk(p, id) PROVE OnlyOf(p)
  BY <1>5, DropChunkEffect DEF Only
<1>6. ASSUME NEW final \in BOOLEAN, StartCommit(p, final) PROVE OnlyOf(p)
  BY <1>6, StartCommitEffect DEF Only
<1>7. ASSUME NEW nums \in SUBSET (1..MaxGens), Removes(p, nums) PROVE OnlyOf(p)
  BY <1>7, RemoveGenerationsEffect DEF Only, Removes
<1>8. ASSUME NEW id \in Ids, RemoveUnused(p, id), id \in store PROVE OnlyOf(p)
  BY <1>8, RemoveUnusedEffect DEF Only
<1>9. CASE LockEverything(p, Indexes)
  BY <1>9, LockEverythingEffect, LockNames
<1>10. CASE Passes(p) \/ Ends(p) \/ Starts(p) \/ Continues(p)
  BY <1>10 DEF Passes, Ends, Starts, Continues, Only
<1>. QED
  BY <1>2, <1>3, <1>4, <1>5, <1>6, <1>7, <1>8, <1>9, <1>10 DEF Step, Puts, Reuses

-----------------------------------------------------------------------------
(* What is in the memory of a command, and when                            *)

MemoryOf(p) ==
  LET m == mem[p] IN
  /\ m.removed # {} => m.pc = "commit_client" /\ m.gen = 0
  /\ m.gen # 0 => m.pc \in {"backing_up", "commit_client", "unlock_client"} /\ ~Holds(p, ClientList)
  /\ m.pc = "commit_client" /\ m.gen = 0 => Holds(p, ClientList)
  /\ m.cur # {} => m.gen # 0
  /\ m.tokens # {} => m.pc \in {"backing_up", "commit_client"} /\ m.gen # 0
  /\ m.tokens \subseteq m.cur /\ m.tokens \subseteq m.saved
  /\ m.unused # {} => Removing(p) /\ m.pc # "remove_generations"

Memories == \A p \in Procs : MemoryOf(p)

LEMMA MemoriesKept ==
  ASSUME Types, Memories, NEW p \in Procs, OnlyOf(p), OthersKeep(p), MemoryOf(p)'
  PROVE  Memories'
<1>. SUFFICES ASSUME NEW q \in Procs, q # p PROVE MemoryOf(q)'
  BY DEF Memories
<1>1. mem'[q] = mem[q] /\ MemoryOf(q)
  BY DEF OnlyOf, Memories
<1>2. Holds(q, ClientList)' <=> Holds(q, ClientList)
  BY LockNames DEF OthersKeep, Holds
<1>. QED
  BY <1>1, <1>2 DEF MemoryOf, Removing

LEMMA MemoriesStep ==
  ASSUME Types, Discipline, Memories, [Next]_vars, Discipline'
  PROVE  Memories'
<1>. USE DEF At, Fields, RemovalSteps
<1>1. \A p \in Procs : MemoryOf(p) /\ DisciplineOf(p) /\ DisciplineOf(p)'
  BY DEF Memories, Discipline
<1>2. ASSUME NEW p \in Procs, Step(p), OthersKeep(p) PROVE OnlyOf(p) /\ MemoryOf(p)'
  <2>1. CASE Passes(p)
    <3>1. OnlyOf(p) /\ \A f \in Fields \ {"pc"} : mem'[p][f] = mem[p][f]
      BY <2>1 DEF Passes, Only
    <3>2. /\ mem[p].removed = {} /\ mem[p].gen = 0 /\ mem[p].cur = {} /\ mem[p].tokens = {}
          /\ mem[p].unused = {} /\ mem'[p].pc # "commit_client"
      BY <1>1, <2>1 DEF Passes, Passages, MemoryOf, Removing
    <3>. QED
      BY <3>1, <3>2 DEF MemoryOf
  <2>2. CASE Ends(p)
    BY <2>2 DEF Ends, Idle, MemoryOf
  <2>3. CASE Starts(p)
    <3>1. \A f \in Fields \ {"pc", "task", "client", "mode"} : mem'[p][f] = Idle[f]
      BY <2>3 DEF Starts
    <3>2. /\ mem'[p].removed = {} /\ mem'[p].gen = 0 /\ mem'[p].cur = {}
          /\ mem'[p].tokens = {} /\ mem'[p].saved = {} /\ mem'[p].unused = {}
      BY <3>1 DEF Idle
    <3>. QED
      BY <2>3, <3>2 DEF Starts, MemoryOf
  <2>4. CASE CreateGeneration(p)
    <3>1. Only(p, {"pc", "gen", "cur"}) /\ mem'[p].pc = "backing_up" /\ mem'[p].gen # 0
      <4>1. mem[p].client \in Clients
        BY <2>4, TypesOf DEF CreateGeneration
      <4>2. lastGen[mem[p].client] \in 0..MaxGens
        BY <4>1 DEF Types, TypeOK
      <4>. QED
        BY <2>4, <4>2, BoundsAssumption, CreateGenerationEffect
    <3>2. /\ mem[p].removed = {} /\ mem[p].tokens = {} /\ mem[p].unused = {}
      BY <1>1, <2>4 DEF CreateGeneration, MemoryOf, Removing
    <3>3. ~Holds(p, ClientList)'
      BY <1>1, <3>1 DEF DisciplineOf
    <3>4. OnlyOf(p) /\ \A f \in {"removed", "tokens", "unused", "saved"} : mem'[p][f] = mem[p][f]
      BY <3>1 DEF Only
    <3>. QED
      BY <3>1, <3>2, <3>3, <3>4 DEF MemoryOf
  <2>5. ASSUME NEW id \in Ids, NEW shared \in BOOLEAN, UseChunk(p, id, shared), mem[p].pc = "backing_up"
        PROVE  OnlyOf(p) /\ MemoryOf(p)'
    <3>1. /\ Only(p, {"cur", "saved", "tokens", "snap", "opened"})
          /\ mem'[p].cur = mem[p].cur \cup {id} /\ mem'[p].saved = mem[p].saved \cup {id}
          /\ mem'[p].tokens \subseteq mem[p].tokens \cup {id}
      BY <2>5, UseChunkEffect
    <3>2. OnlyOf(p) /\ \A f \in {"pc", "removed", "gen", "unused"} : mem'[p][f] = mem[p][f]
      BY <3>1 DEF Only
    <3>3. mem[p].gen # 0 /\ mem'[p].unused = {}
      BY <1>1, <2>5, <3>2, TypesOf DEF MemoryOf, Removing
    <3>4. ~Holds(p, ClientList)'
      BY <1>1, <2>5, <3>2 DEF DisciplineOf
    <3>. QED
      BY <1>1, <2>5, <3>1, <3>2, <3>3, <3>4 DEF MemoryOf
  <2>6. ASSUME NEW id \in Ids, DropChunk(p, id) PROVE OnlyOf(p) /\ MemoryOf(p)'
    <3>1. Only(p, {"cur"}) /\ mem'[p].cur = mem[p].cur \ {id}
      BY <2>6, DropChunkEffect
    <3>2. /\ OnlyOf(p)
          /\ \A f \in {"pc", "removed", "gen", "unused", "tokens", "saved"} : mem'[p][f] = mem[p][f]
      BY <3>1 DEF Only
    <3>3. ~Holds(p, ClientList)' /\ mem'[p].pc = "backing_up" /\ mem[p].unused = {} /\ id \notin mem[p].saved
      BY <1>1, <2>6, <3>2 DEF DisciplineOf, DropChunk, MemoryOf, Removing
    <3>. QED
      BY <1>1, <3>1, <3>2, <3>3 DEF MemoryOf
  <2>7. ASSUME NEW final \in BOOLEAN, StartCommit(p, final) PROVE OnlyOf(p) /\ MemoryOf(p)'
    <3>1. Only(p, {"pc", "final", "checkpoints", "list", "sums"}) /\ mem'[p].pc = "commit_client"
      BY <2>7, StartCommitEffect
    <3>2. /\ OnlyOf(p)
          /\ \A f \in {"removed", "gen", "unused", "tokens", "saved", "cur"} : mem'[p][f] = mem[p][f]
      BY <3>1 DEF Only
    <3>3. /\ mem[p].pc = "backing_up" /\ mem[p].gen # 0
          /\ mem[p].unused = {} /\ mem[p].removed = {} /\ ~Holds(p, ClientList)
      BY <1>1, <2>7, TypesOf DEF StartCommit, MemoryOf, Removing
    <3>4. ~Holds(p, ClientList)'
      BY <2>7, <3>3, LockNames DEF StartCommit, Holds, Types, TypeOK
    <3>. QED
      BY <1>1, <3>1, <3>2, <3>3, <3>4 DEF MemoryOf
  <2>8. CASE CommitClient(p)
    <3>1. /\ Only(p, {"pc", "list", "sums", "tokens", "removed"})
          /\ mem'[p].pc = IF mem[p].task = "forget" THEN "commit_chunklist" ELSE "unlock_client"
          /\ mem'[p].tokens = {} /\ mem'[p].removed = {}
      BY <2>8, CommitClientEffect
    <3>2. OnlyOf(p) /\ \A f \in {"gen", "unused", "saved", "cur"} : mem'[p][f] = mem[p][f]
      BY <3>1 DEF Only
    <3>3. mem[p].pc = "commit_client" /\ (Holds(p, ClientList)' <=> Holds(p, ClientList))
      BY <2>8 DEF CommitClient, Holds
    <3>4. mem[p].task = "forget" => mem[p].gen = 0
      BY <1>1, <3>3 DEF DisciplineOf, MemoryOf
    <3>. QED
      BY <1>1, <3>1, <3>2, <3>3, <3>4 DEF MemoryOf, Removing
  <2>9. CASE UnlockClient(p)
    <3>1. /\ Only(p, {"pc", "gen", "cur", "unused"}) /\ mem'[p].pc = "commit_chunklist"
          /\ mem'[p].gen = 0 /\ mem'[p].cur = {} /\ mem'[p].unused = {}
      BY <2>9, UnlockClientEffect
    <3>2. OnlyOf(p) /\ \A f \in {"removed", "saved", "tokens"} : mem'[p][f] = mem[p][f]
      BY <3>1 DEF Only
    <3>. QED
      BY <1>1, <2>9, <3>1, <3>2 DEF MemoryOf, UnlockClient
  <2>10. CASE CommitChunklist(p) \/ CommitChunksums(p)
    <3>1. /\ Only(p, {"pc"}) /\ (Holds(p, ClientList)' <=> Holds(p, ClientList))
          /\ mem[p].pc \in {"commit_chunklist", "commit_chunksums"}
          /\ \/ mem'[p].pc = "commit_chunksums"
             \/ mem'[p].pc = IF Holds(p, ClientList) THEN "remove_unused" ELSE "unlock_indexes"
      BY <2>10, GotoEffect DEF CommitChunklist, CommitChunksums, Steps, Holds
    <3>2. OnlyOf(p) /\ \A f \in Fields \ {"pc"} : mem'[p][f] = mem[p][f]
      BY <3>1 DEF Only
    <3>. QED
      BY <1>1, <3>1, <3>2 DEF MemoryOf, Removing
  <2>11. CASE Continues(p)
    <3>1. /\ OnlyOf(p)
          /\ \A f \in {"removed", "gen", "unused", "tokens", "saved", "cur"} : mem'[p][f] = mem[p][f]
      BY <2>11 DEF Continues, Only
    <3>. QED
      BY <1>1, <2>11, <3>1 DEF Continues, MemoryOf, Removing
  <2>12. CASE LockEverything(p, Indexes)
    <3>1. Only(p, {"pc", "list", "sums"}) /\ mem'[p].pc = "remove_generations"
      BY <2>12, LockEverythingEffect, LockNames
    <3>2. /\ OnlyOf(p)
          /\ \A f \in {"removed", "gen", "unused", "tokens", "saved", "cur"} : mem'[p][f] = mem[p][f]
      BY <3>1 DEF Only
    <3>. QED
      BY <1>1, <2>12, <3>1, <3>2 DEF LockEverything, MemoryOf, Removing
  <2>13. ASSUME NEW nums \in SUBSET (1..MaxGens), Removes(p, nums) PROVE OnlyOf(p) /\ MemoryOf(p)'
    <3>1. /\ Only(p, {"pc", "removed", "list", "sums", "unused", "checkpoints"})
          /\ mem'[p].pc = "commit_client"
      BY <2>13, RemoveGenerationsEffect DEF Removes
    <3>2. OnlyOf(p) /\ \A f \in {"gen", "tokens", "saved", "cur"} : mem'[p][f] = mem[p][f]
      BY <3>1 DEF Only
    <3>3. mem[p].pc = "remove_generations" /\ mem[p].gen = 0
      BY <1>1, <2>13 DEF Removes, MemoryOf
    <3>4. Holds(p, ClientList)'
      BY <1>1, <2>13, <3>3 DEF DisciplineOf, Holds, Removes
    <3>. QED
      BY <1>1, <3>1, <3>2, <3>3, <3>4 DEF MemoryOf, Removing
  <2>14. ASSUME NEW id \in Ids, RemoveUnused(p, id), id \in store PROVE OnlyOf(p) /\ MemoryOf(p)'
    <3>1. Only(p, {"unused"}) /\ mem'[p].unused = mem[p].unused \ {id}
      BY <2>14, RemoveUnusedEffect
    <3>2. /\ OnlyOf(p)
          /\ \A f \in {"pc", "removed", "gen", "tokens", "saved", "cur"} : mem'[p][f] = mem[p][f]
      BY <3>1 DEF Only
    <3>3. Holds(p, ClientList)' <=> Holds(p, ClientList)
      BY <2>14 DEF RemoveUnused, Holds
    <3>. QED
      BY <1>1, <3>1, <3>2, <3>3 DEF MemoryOf, Removing
  <2>. QED
    BY <1>2, <2>1, <2>2, <2>3, <2>4, <2>5, <2>6, <2>7, <2>8, <2>9, <2>10, <2>11, <2>12, <2>13, <2>14
       DEF Step, Puts, Reuses
<1>3. CASE Rests
  <2>1. \A q \in Procs : mem'[q] = mem[q]
    BY <1>3 DEF Rests
  <2>2. \A q \in Procs : mem[q].pc \notin {"idle", "lock_everything", "unlock_everything"} =>
          (Holds(q, ClientList)' <=> Holds(q, ClientList))
    BY <1>3, LockNames DEF Rests, SameLocks, Holds
  <2>3. ASSUME NEW q \in Procs PROVE MemoryOf(q)'
    BY <1>1, <2>1, <2>2 DEF MemoryOf, Removing
  <2>. QED
    BY <2>3 DEF Memories
<1>. QED
  BY <1>2, <1>3, Kinds, MemoriesKept

(* The invariants that hold whatever happens, for the proofs below.        *)
Base == Types /\ Discipline /\ Memories

LEMMA BaseStep == Base /\ [Next]_vars => Base'
  BY TypeStep, DisciplineStep, MemoriesStep DEF Base

LEMMA BaseInit == Init => Base
<1>. SUFFICES ASSUME Init PROVE Base
  OBVIOUS
<1>1. Types
  BY IdleIsMemory, BoundsAssumption DEF Init, Types, TypeOK, At, Locks
<1>2. \A p \in Procs : mem[p] = Idle /\ ~Holds(p, ClientList)
  BY LockNames DEF Init, Holds
<1>3. Discipline
  BY <1>2 DEF Discipline, DisciplineOf, Idle, OwnSteps, IndexSteps, RemovalSteps, BackupSteps, Removing
<1>4. Memories
  BY <1>2 DEF Memories, MemoryOf, Idle
<1>. QED
  BY <1>1, <1>3, <1>4 DEF Base

(* What Base says of one process.                                          *)
LEMMA BaseOf ==
  ASSUME Base, NEW p \in Procs
  PROVE  MemoryOf(p) /\ DisciplineOf(p)
  BY DEF Base, Memories, Discipline

(* Two processes do not hold the same lock.                                *)
LEMMA OneHolder ==
  ASSUME NEW p \in Procs, NEW q \in Procs, NEW l, Holds(p, l), Holds(q, l)
  PROVE  p = q
  BY DEF Holds

-----------------------------------------------------------------------------
(* Generation numbers                                                      *)

Numbers ==
  /\ \A g \in gens : g.num <= lastGen[g.client]
  /\ \A g, h \in gens : g.client = h.client /\ g.num = h.num => g = h
  /\ \A p \in Procs : mem[p].gen # 0 /\ mem[p].pc \in {"backing_up", "commit_client"} =>
       mem[p].gen = lastGen[mem[p].client] + 1

(* Which generations a commit leaves, and the one it may add.              *)
LEMMA CommitGens ==
  ASSUME Base, Numbers, NEW p \in Procs, CommitClient(p)
  PROVE  /\ \A g \in gens' : \/ g \in gens
                             \/ /\ mem[p].gen # 0
                                /\ g.client = mem[p].client /\ g.num = mem[p].gen
                                /\ g.chunks = mem[p].cur
                                /\ g.num = lastGen[g.client] + 1
         /\ \A g, h \in gens' : g \notin gens /\ h \notin gens => g = h
         /\ mem[p].gen = 0 => lastGen' = lastGen /\ gens' \subseteq gens
         /\ mem[p].gen # 0 => /\ lastGen' = [lastGen EXCEPT ![mem[p].client] = mem[p].gen]
                              /\ mem[p].removed = {}
                              /\ gens' = gens \cup {[client |-> mem[p].client, num |-> mem[p].gen,
                                                     chunks |-> mem[p].cur]}
<1>. DEFINE m == mem[p]
            new == [client |-> m.client, num |-> m.gen, chunks |-> m.cur]
<1>1. m.pc = "commit_client" /\ m.client \in Clients
  BY TypesOf DEF Base, CommitClient, At
<1>2. gens' = {g \in gens : ~(g.client = m.client /\ g.num \in m.removed)}
                \cup IF m.gen = 0 THEN {} ELSE {new}
  BY DEF CommitClient, CommittedGens
<1>3. m.gen # 0 => m.gen = lastGen[m.client] + 1 /\ m.removed = {}
  BY <1>1, BaseOf DEF Numbers, MemoryOf
<1>4. new.client = m.client /\ new.num = m.gen /\ new.chunks = m.cur
  OBVIOUS
<1>5. lastGen' = [lastGen EXCEPT ![m.client] = IF m.gen = 0 THEN lastGen[m.client] ELSE m.gen]
  BY DEF CommitClient
<1>6. m.gen = 0 => lastGen' = lastGen
  <2>1. lastGen \in [Clients -> 0..MaxGens]
    BY DEF Base, Types, TypeOK
  <2>. QED
    BY <1>1, <1>5, <2>1
<1>. HIDE DEF new
<1>7. m.gen # 0 => gens' = gens \cup {new}
  BY <1>2, <1>3
<1>. QED
  BY <1>2, <1>3, <1>4, <1>5, <1>6, <1>7 DEF new

LEMMA NumbersStep ==
  ASSUME Base, Numbers, [Next]_vars
  PROVE  /\ Numbers'
         /\ \A g \in gens' : g \in gens \/ g.num > lastGen[g.client]
<1>. DEFINE Final == \A g \in gens' : g \in gens \/ g.num > lastGen[g.client]
<1>. USE DEF At, Fields
<1>1. ASSUME UNCHANGED <<gens, lastGen>>,
             \A p \in Procs : mem'[p].gen # 0 /\ mem'[p].pc \in {"backing_up", "commit_client"} =>
                \/ mem'[p].gen = lastGen[mem'[p].client] + 1
                \/ /\ mem'[p].gen = mem[p].gen /\ mem'[p].client = mem[p].client
                   /\ mem[p].pc \in {"backing_up", "commit_client"}
      PROVE  Numbers' /\ Final
  BY <1>1 DEF Numbers
<1>2. ASSUME NEW p \in Procs, UNCHANGED <<gens, lastGen>>, OnlyOf(p),
             mem'[p].gen # 0 /\ mem'[p].pc \in {"backing_up", "commit_client"} =>
                \/ mem'[p].gen = lastGen[mem'[p].client] + 1
                \/ /\ mem'[p].gen = mem[p].gen /\ mem'[p].client = mem[p].client
                   /\ mem[p].pc \in {"backing_up", "commit_client"}
      PROVE  Numbers' /\ Final
  BY <1>1, <1>2 DEF OnlyOf
<1>3. ASSUME NEW p \in Procs, Only(p, Fields \ {"gen", "client"}), UNCHANGED <<gens, lastGen>>,
             \/ mem'[p].pc \notin {"backing_up", "commit_client"}
             \/ mem[p].pc \in {"backing_up", "commit_client"}
             \/ mem[p].gen = 0
      PROVE  Numbers' /\ Final
  <2>1. OnlyOf(p) /\ mem'[p].gen = mem[p].gen /\ mem'[p].client = mem[p].client
    BY <1>3 DEF Only
  <2>. QED
    BY <1>2, <1>3, <2>1
<1>4. ASSUME NEW p \in Procs, Step(p) PROVE Numbers' /\ Final
  <2>1. CASE Passes(p)
    <3>1. Only(p, Fields \ {"gen", "client"})
      BY <2>1 DEF Passes, Only
    <3>. QED
      BY <1>3, <2>1, <3>1 DEF Passes, Passages, data
  <2>2. CASE Ends(p)
    BY <1>2, <2>2 DEF Ends, Idle, data
  <2>3. CASE Starts(p)
    <3>1. mem'[p].pc \notin {"backing_up", "commit_client"} /\ OnlyOf(p) /\ UNCHANGED <<gens, lastGen>>
      BY <2>3 DEF Starts, data
    <3>. QED
      BY <1>2, <3>1
  <2>4. CASE CreateGeneration(p)
    <3>1. /\ OnlyOf(p) /\ mem'[p].client = mem[p].client
          /\ mem'[p].gen = lastGen[mem[p].client] + 1
      BY <2>4, CreateGenerationEffect DEF Base, Only
    <3>. QED
      BY <1>2, <2>4, <3>1 DEF CreateGeneration, disk
  <2>5. ASSUME NEW id \in Ids, NEW shared \in BOOLEAN, UseChunk(p, id, shared), mem[p].pc = "backing_up",
               UNCHANGED <<gens, lastGen>>
        PROVE  Numbers' /\ Final
    <3>1. Only(p, {"cur", "saved", "tokens", "snap", "opened"})
      BY <2>5, UseChunkEffect DEF Base
    <3>2. Only(p, Fields \ {"gen", "client"})
      BY <3>1 DEF Only
    <3>. QED
      BY <1>3, <2>5, <3>2
  <2>6. ASSUME NEW id \in Ids, DropChunk(p, id) PROVE Numbers' /\ Final
    <3>1. Only(p, {"cur"}) /\ mem[p].pc = "backing_up" /\ UNCHANGED <<gens, lastGen>>
      BY <2>6, DropChunkEffect DEF Base, DropChunk, disk
    <3>2. Only(p, Fields \ {"gen", "client"})
      BY <3>1 DEF Only
    <3>. QED
      BY <1>3, <3>1, <3>2
  <2>7. ASSUME NEW final \in BOOLEAN, StartCommit(p, final) PROVE Numbers' /\ Final
    <3>1. /\ Only(p, {"pc", "final", "checkpoints", "list", "sums"})
          /\ mem[p].pc = "backing_up" /\ UNCHANGED <<gens, lastGen>>
      BY <2>7, StartCommitEffect DEF Base, StartCommit
    <3>2. Only(p, Fields \ {"gen", "client"})
      BY <3>1 DEF Only
    <3>. QED
      BY <1>3, <3>1, <3>2
  <2>8. CASE CommitClient(p)
    <3>1. /\ OnlyOf(p) /\ mem'[p].pc \in {"commit_chunklist", "unlock_client"}
      BY <2>8, CommitClientEffect DEF Base, Only
    <3>2. /\ mem[p].pc = "commit_client" /\ mem[p].client \in Clients
          /\ Holds(p, mem[p].client) /\ lastGen \in [Clients -> 0..MaxGens]
      BY <2>8, TypesOf, BaseOf DEF Base, CommitClient, DisciplineOf, OwnSteps, Types, TypeOK
    <3>3. \A g \in gens : g.client \in Clients /\ g.num \in 1..MaxGens
      BY DEF Base, Types, TypeOK, Generations
    <3>4. mem[p].gen \in 0..MaxGens /\ (mem[p].gen # 0 => mem[p].gen = lastGen[mem[p].client] + 1)
      BY <3>2, TypesOf DEF Base, Memory, Numbers
    <3>5. Final
      BY <2>8, <3>2, <3>3, CommitGens, BoundsAssumption
    <3>6. CASE mem[p].gen = 0
      <4>1. lastGen' = lastGen /\ gens' \subseteq gens
        BY <2>8, <3>6, CommitGens
      <4>. QED
        BY <3>1, <3>5, <4>1 DEF Numbers, OnlyOf
    <3>7. CASE mem[p].gen # 0
      <4>. DEFINE new == [client |-> mem[p].client, num |-> mem[p].gen, chunks |-> mem[p].cur]
      <4>1. /\ lastGen' = [lastGen EXCEPT ![mem[p].client] = mem[p].gen]
            /\ gens' = gens \cup {new} /\ new.client = mem[p].client /\ new.num = mem[p].gen
        BY <2>8, <3>7, CommitGens
      <4>. HIDE DEF new
      <4>2. \A g \in gens' : g.num <= lastGen'[g.client]
        <5>1. \A g \in gens : g.num <= lastGen[g.client] /\ g.client \in Clients
          BY <3>3 DEF Numbers
        <5>2. lastGen'[new.client] = mem[p].gen
          BY <3>2, <4>1
        <5>3. \A g \in gens : g.num <= lastGen'[g.client]
          BY <3>2, <3>3, <3>4, <3>7, <4>1, <5>1, BoundsAssumption
        <5>. QED
          BY <3>4, <4>1, <5>2, <5>3, BoundsAssumption
      <4>3. \A g \in gens : ~(g.client = new.client /\ g.num = new.num)
        BY <3>2, <3>3, <3>4, <3>7, <4>1, BoundsAssumption DEF Numbers
      <4>4. \A g, h \in gens' : g.client = h.client /\ g.num = h.num => g = h
        BY <4>1, <4>3 DEF Numbers
      <4>5. ASSUME NEW q \in Procs, mem'[q].gen # 0, mem'[q].pc \in {"backing_up", "commit_client"}
            PROVE  mem'[q].gen = lastGen'[mem'[q].client] + 1
        <5>1. q # p /\ mem'[q] = mem[q]
          BY <3>1, <4>5 DEF OnlyOf
        <5>2. Holds(q, mem[q].client) /\ mem[q].client \in Clients
          BY <4>5, <5>1, TypesOf, BaseOf DEF Base, DisciplineOf, OwnSteps
        <5>3. mem[q].client # mem[p].client
          BY <3>2, <5>1, <5>2, OneHolder
        <5>4. lastGen'[mem[q].client] = lastGen[mem[q].client]
          BY <3>2, <4>1, <5>2, <5>3
        <5>. QED
          BY <4>5, <5>1, <5>4 DEF Numbers
      <4>. QED
        BY <3>5, <4>2, <4>4, <4>5 DEF Numbers
    <3>. QED
      BY <3>6, <3>7
  <2>9. CASE UnlockClient(p)
    <3>1. OnlyOf(p) /\ mem'[p].pc = "commit_chunklist" /\ UNCHANGED <<gens, lastGen>>
      BY <2>9, UnlockClientEffect DEF Base, Only, UnlockClient
    <3>. QED
      BY <1>2, <3>1
  <2>10. CASE CommitChunklist(p) \/ CommitChunksums(p)
    <3>1. /\ OnlyOf(p) /\ UNCHANGED <<gens, lastGen>>
          /\ mem'[p].pc \in {"commit_chunksums", "remove_unused", "unlock_indexes"}
      BY <2>10, GotoEffect DEF Base, Only, CommitChunklist, CommitChunksums, Steps
    <3>. QED
      BY <1>2, <3>1
  <2>11. CASE Continues(p)
    <3>1. /\ OnlyOf(p) /\ UNCHANGED <<gens, lastGen>>
          /\ mem'[p].pc \in {"lock_everything", "relock_client"}
      BY <2>11 DEF Continues, Only, data
    <3>. QED
      BY <1>2, <3>1
  <2>12. CASE LockEverything(p, Indexes)
    <3>1. OnlyOf(p) /\ UNCHANGED <<gens, lastGen>> /\ mem'[p].pc = "remove_generations"
      BY <2>12, LockEverythingEffect, LockNames DEF Base, Only, LockEverything
    <3>. QED
      BY <1>2, <3>1
  <2>13. ASSUME NEW nums \in SUBSET (1..MaxGens), Removes(p, nums) PROVE Numbers' /\ Final
    <3>1. /\ Only(p, {"pc", "removed", "list", "sums", "unused", "checkpoints"})
          /\ UNCHANGED <<gens, lastGen>>
      BY <2>13, RemoveGenerationsEffect DEF Base, Removes, data
    <3>2. mem[p].gen = 0
      BY <2>13, BaseOf DEF MemoryOf, Removes
    <3>3. Only(p, Fields \ {"gen", "client"})
      BY <3>1 DEF Only
    <3>. QED
      BY <1>3, <3>1, <3>2, <3>3
  <2>14. ASSUME NEW id \in Ids, RemoveUnused(p, id), id \in store PROVE Numbers' /\ Final
    <3>1. Only(p, {"unused"}) /\ UNCHANGED <<gens, lastGen>> /\ mem[p].pc = "remove_unused"
      BY <2>14, RemoveUnusedEffect DEF Base, RemoveUnused
    <3>2. Only(p, Fields \ {"gen", "client"}) /\ mem'[p].pc = mem[p].pc
      BY <3>1 DEF Only
    <3>. QED
      BY <1>3, <3>1, <3>2
  <2>. QED
    BY <1>4, <2>1, <2>2, <2>3, <2>4, <2>5, <2>6, <2>7, <2>8, <2>9, <2>10, <2>11, <2>12, <2>13, <2>14
       DEF Step, Puts, Reuses, data
<1>5. CASE Rests
  BY <1>1, <1>5 DEF Rests, data
<1>. QED
  BY <1>4, <1>5, Kinds DEF Base

(* A committed generation never changes, and its number does not come back *)
(* as another generation.                                                  *)
THEOREM Finality == Spec => GenerationsAreFinal
<1>1. Init => Base /\ Numbers
  <2>1. Init => \A p \in Procs : mem[p] = Idle
    BY DEF Init
  <2>. QED
    BY <2>1, BaseInit DEF Init, Numbers, Idle
<1>2. Base /\ Numbers /\ [Next]_vars => Base' /\ Numbers'
  BY BaseStep, NumbersStep
<1>3. Base /\ Numbers /\ [Next]_vars => [\A g \in gens' : g \in gens \/ g.num > lastGen[g.client]]_vars
  BY NumbersStep
<1>. QED
  BY <1>1, <1>2, <1>3, PTL DEF Spec, GenerationsAreFinal

-----------------------------------------------------------------------------
(* Sessions: the commands that have the chunk indexes, from the moment     *)
(* they read them to the moment they have committed them                   *)

SessionSteps == {"remove_generations", "commit_client", "unlock_client", "commit_chunklist",
                 "commit_chunksums", "remove_unused"}
InSession(p) == mem[p].pc \in SessionSteps

(* There is one session at a time; somebody who locks the indexes, commits *)
(* them or has them locked sees no other.                                  *)
LEMMA OneSession ==
  ASSUME Base, NEW p \in Procs, NEW q \in Procs, InSession(q),
         InSession(p) \/ mem[p].pc = "unlock_indexes" \/ Free(Indexes)
  PROVE  p = q /\ ~Free(Indexes)
  BY BaseOf, LockNames DEF InSession, SessionSteps, DisciplineOf, IndexSteps, Holds, Free

(* Who changes what on disk.                                               *)
LEMMA Writes ==
  ASSUME Base, NEW p \in Procs, Step(p)
  PROVE  /\ CommitClient(p) \/ UNCHANGED <<gens, lastGen>>
         /\ CommitChunklist(p) \/ UNCHANGED chunklist
         /\ CommitChunksums(p) \/ UNCHANGED chunksums
         /\ \/ UNCHANGED store
            \/ \E id \in Ids, shared \in BOOLEAN : Puts(p, id, shared)
            \/ \E id \in Ids : RemoveUnused(p, id) /\ id \in store
  BY DEF Step, Passes, Ends, Starts, CreateGeneration, Puts, Reuses, DropChunk, StartCommit,
         CommitClient, UnlockClient, CommitChunklist, CommitChunksums, Continues, LockEverything,
         Removes, RemoveUnused, data, disk

(* How p gets into a session and through it.                               *)
LEMMA SessionMoves ==
  ASSUME Base, NEW p \in Procs, Step(p), InSession(p)'
  PROVE  \/ /\ ~InSession(p) /\ Free(Indexes)
            /\ mem'[p].pc \in {"commit_client", "remove_generations"}
            /\ mem'[p].list = chunklist /\ mem'[p].sums = chunksums
            /\ mem'[p].client = mem[p].client /\ mem'[p].cur = mem[p].cur
            /\ mem'[p].tokens = mem[p].tokens /\ mem'[p].removed = mem[p].removed
            /\ mem'[p].gen = mem[p].gen /\ mem'[p].task = mem[p].task
            /\ mem'[p].unused = mem[p].unused
            /\ mem[p].pc = IF mem'[p].pc = "commit_client" THEN "backing_up" ELSE "lock_everything"
            /\ UNCHANGED data
         \/ /\ mem[p].pc = "remove_unused" /\ mem'[p].pc = "remove_generations"
            /\ Only(p, {"pc"}) /\ UNCHANGED data
         \/ CommitClient(p) \/ UnlockClient(p) \/ CommitChunklist(p) \/ CommitChunksums(p)
         \/ \E nums \in SUBSET (1..MaxGens) : Removes(p, nums)
         \/ \E id \in Ids : RemoveUnused(p, id) /\ id \in store
<1>. USE DEF At, Fields, InSession, SessionSteps
<1>1. CASE Passes(p)
  BY <1>1 DEF Passes, Passages
<1>2. CASE Ends(p) \/ Starts(p) \/ Continues(p)
  BY <1>2 DEF Ends, Starts, Continues, Idle
<1>3. CASE CreateGeneration(p)
  BY <1>3, CreateGenerationEffect DEF Base
<1>4. ASSUME NEW id \in Ids, NEW shared \in BOOLEAN, UseChunk(p, id, shared), mem[p].pc = "backing_up"
      PROVE  FALSE
  <2>1. mem'[p].pc = mem[p].pc
    BY <1>4, UseChunkEffect DEF Base, Only
  <2>. QED
    BY <1>4, <2>1
<1>5. ASSUME NEW id \in Ids, DropChunk(p, id) PROVE FALSE
  <2>1. mem'[p].pc = mem[p].pc
    BY <1>5, DropChunkEffect DEF Base, Only
  <2>. QED
    BY <1>5, <2>1 DEF DropChunk
<1>6. ASSUME NEW final \in BOOLEAN, StartCommit(p, final)
      PROVE  /\ ~InSession(p) /\ Free(Indexes)
             /\ mem'[p].pc = "commit_client" /\ mem[p].pc = "backing_up"
             /\ mem'[p].list = chunklist /\ mem'[p].sums = chunksums
             /\ mem'[p].client = mem[p].client /\ mem'[p].cur = mem[p].cur
             /\ mem'[p].tokens = mem[p].tokens /\ mem'[p].removed = mem[p].removed
             /\ mem'[p].gen = mem[p].gen /\ mem'[p].task = mem[p].task
             /\ mem'[p].unused = mem[p].unused
             /\ UNCHANGED data
  BY <1>6, StartCommitEffect DEF Base, StartCommit, data, Only
<1>7. ASSUME LockEverything(p, Indexes)
      PROVE  /\ ~InSession(p) /\ Free(Indexes)
             /\ mem'[p].pc = "remove_generations" /\ mem[p].pc = "lock_everything"
             /\ mem'[p].list = chunklist /\ mem'[p].sums = chunksums
             /\ mem'[p].client = mem[p].client /\ mem'[p].cur = mem[p].cur
             /\ mem'[p].tokens = mem[p].tokens /\ mem'[p].removed = mem[p].removed
             /\ mem'[p].gen = mem[p].gen /\ mem'[p].task = mem[p].task
             /\ mem'[p].unused = mem[p].unused
             /\ UNCHANGED data
  BY <1>7, LockEverythingEffect, LockNames DEF Base, LockEverything, data, Only
<1>. QED
  BY <1>1, <1>2, <1>3, <1>4, <1>5, <1>6, <1>7 DEF Step, Puts, Reuses

(* Uses that are missing from a session's tree are its own client's, and   *)
(* the session removes generations.                                        *)
Uses ==
  \A p \in Procs : InSession(p) =>
    \A e \in chunksums \ mem[p].sums : e[2] = mem[p].client /\ Holds(p, ClientList)

LEMMA UsesStep ==
  ASSUME Base, Uses, [Next]_vars, Base'
  PROVE  /\ Uses'
         /\ \A e \in chunksums \ chunksums' : \E p \in Procs : Removing(p) /\ mem[p].client = e[2]
<1>. USE DEF At, Fields
<1>. DEFINE Lost == \A e \in chunksums \ chunksums' : \E p \in Procs : Removing(p) /\ mem[p].client = e[2]
<1>1. ASSUME NEW p \in Procs, Step(p), OthersKeep(p) PROVE Uses' /\ Lost
  <2>1. Lost
    <3>1. CASE UNCHANGED chunksums
      BY <3>1
    <3>2. CASE CommitChunksums(p)
      BY <3>2 DEF CommitChunksums, Uses, InSession, SessionSteps, Removing
    <3>. QED
      BY <1>1, <3>1, <3>2, Writes
  <2>2. \A q \in Procs : q # p => mem'[q] = mem[q] /\ (Holds(q, ClientList)' <=> Holds(q, ClientList))
    BY <1>1, StepIsOwn, LockNames DEF Base, OnlyOf, OthersKeep, Holds
  <2>3. ASSUME NEW q \in Procs, q # p, InSession(q)',
               NEW e \in chunksums' \ mem'[q].sums
        PROVE  e[2] = mem'[q].client /\ Holds(q, ClientList)'
    <3>1. mem'[q] = mem[q] /\ InSession(q)
      BY <2>2, <2>3 DEF InSession
    <3>2. CASE UNCHANGED chunksums
      BY <2>2, <2>3, <3>1, <3>2 DEF Uses
    <3>3. CASE CommitChunksums(p)
      BY <2>3, <3>1, <3>3, OneSession DEF CommitChunksums, InSession, SessionSteps
    <3>. QED
      BY <1>1, <3>2, <3>3, Writes
  <2>4. ASSUME InSession(p)', NEW e \in chunksums' \ mem'[p].sums
        PROVE  e[2] = mem'[p].client /\ Holds(p, ClientList)'
    <3>1. CASE mem'[p].sums = chunksums /\ UNCHANGED data
      BY <2>4, <3>1 DEF data
    <3>2. ASSUME Only(p, {"pc"}), UNCHANGED chunksums, InSession(p), mem[p].sums = mem'[p].sums,
                 Holds(p, ClientList) => Holds(p, ClientList)'
          PROVE  e[2] = mem'[p].client /\ Holds(p, ClientList)'
      BY <2>4, <3>2 DEF Uses, Only
    <3>3. CASE mem[p].pc = "remove_unused" /\ mem'[p].pc = "remove_generations" /\ Only(p, {"pc"}) /\ UNCHANGED data
      BY <1>1, <3>2, <3>3, BaseOf DEF Only, data, InSession, SessionSteps, Base, Discipline, DisciplineOf
    <3>4. CASE CommitClient(p)
      <4>1. /\ mem'[p].sums = mem[p].sums \cup NewUses(p) /\ mem'[p].client = mem[p].client
            /\ UNCHANGED <<owner, chunksums>> /\ InSession(p)
        BY <3>4, CommitClientEffect DEF Base, Only, CommitClient, InSession, SessionSteps
      <4>. QED
        BY <2>4, <4>1 DEF Uses, Holds
    <3>5. CASE UnlockClient(p)
      <4>1. /\ mem'[p].sums = mem[p].sums /\ mem'[p].client = mem[p].client
            /\ UNCHANGED chunksums /\ InSession(p)
        BY <3>5, UnlockClientEffect DEF Base, Only, UnlockClient, InSession, SessionSteps
      <4>2. owner'[ClientList] = owner[ClientList]
        BY <3>5, TypesOf, LockNames DEF Base, UnlockClient, Types, TypeOK
      <4>. QED
        BY <2>4, <4>1, <4>2 DEF Uses, Holds
    <3>6. CASE CommitChunklist(p)
      <4>1. /\ Only(p, {"pc"}) /\ UNCHANGED <<owner, chunksums>> /\ InSession(p)
        BY <3>6, GotoEffect DEF Base, CommitChunklist, InSession, SessionSteps, Steps
      <4>. QED
        BY <3>2, <4>1 DEF Only, Holds
    <3>7. CASE CommitChunksums(p)
      BY <2>4, <3>7, GotoEffect DEF Base, CommitChunksums, Only, Steps
    <3>8. ASSUME NEW nums \in SUBSET (1..MaxGens), Removes(p, nums)
          PROVE  e[2] = mem'[p].client /\ Holds(p, ClientList)'
      <4>1. /\ mem'[p].sums = mem[p].sums \ SumsOf(mem[p].client, Gone(p, nums) \cap mem[p].list)
            /\ Only(p, {"pc", "removed", "list", "sums", "unused", "checkpoints"})
        BY <3>8, RemoveGenerationsEffect DEF Base, Removes
      <4>2. /\ mem'[p].client = mem[p].client /\ UNCHANGED <<owner, chunksums>> /\ InSession(p)
        BY <3>8, <4>1 DEF Only, Removes, data, InSession, SessionSteps
      <4>3. Holds(p, ClientList)
        BY <3>8, BaseOf DEF Removes, DisciplineOf
      <4>4. e \in mem[p].sums => e[2] = mem[p].client
        BY <2>4, <4>1 DEF SumsOf
      <4>. QED
        BY <2>4, <4>2, <4>3, <4>4 DEF Uses, Holds
    <3>9. ASSUME NEW id \in Ids, RemoveUnused(p, id), id \in store
          PROVE  e[2] = mem'[p].client /\ Holds(p, ClientList)'
      <4>1. /\ mem'[p].sums = mem[p].sums /\ mem'[p].client = mem[p].client
            /\ UNCHANGED <<owner, chunksums>> /\ InSession(p)
        BY <3>9, RemoveUnusedEffect DEF Base, Only, RemoveUnused, InSession, SessionSteps
      <4>. QED
        BY <2>4, <4>1 DEF Uses, Holds
    <3>. QED
      BY <1>1, <2>4, <3>1, <3>3, <3>4, <3>5, <3>6, <3>7, <3>8, <3>9, SessionMoves
  <2>. QED
    BY <2>1, <2>3, <2>4 DEF Uses
<1>2. CASE Rests
  <2>1. UNCHANGED chunksums /\ \A q \in Procs : mem'[q] = mem[q]
    BY <1>2 DEF Rests, data
  <2>2. \A q \in Procs : InSession(q) => (Holds(q, ClientList)' <=> Holds(q, ClientList))
    BY <1>2, LockNames DEF Rests, SameLocks, Holds, InSession, SessionSteps
  <2>. QED
    BY <2>1, <2>2 DEF Uses, InSession
<1>. QED
  BY <1>1, <1>2, Kinds DEF Base

(* A client's uses of chunks are only ever removed from the indexes by a   *)
(* command that removes that client's generations.                         *)
THEOREM UsesStay == Spec => UsesOfOthersStay
<1>1. Init => Base /\ Uses
  BY BaseInit DEF Init, Uses
<1>2. Base /\ Uses /\ [Next]_vars => Base' /\ Uses'
  BY BaseStep, UsesStep
<1>3. Base /\ Uses /\ [Next]_vars =>
        [\A e \in chunksums \ chunksums' : \E p \in Procs : Removing(p) /\ mem[p].client = e[2]]_vars
  BY BaseStep, UsesStep
<1>. QED
  BY <1>1, <1>2, <1>3, PTL DEF Spec, UsesOfOthersStay

-----------------------------------------------------------------------------
(* The recorded uses of chunks                                             *)

(* The generations that are left when p's removals are committed.          *)
Left(p) == {g \in gens : ~(g.client = mem[p].client /\ g.num \in mem[p].removed)}

(* Uses of p's new generation that p does not record, because it has taken *)
(* them over from an earlier one.                                          *)
OldUses(p) == SumsOf(mem[p].client, mem[p].cur \ mem[p].tokens)

(* The uses that a session knows, and those that no session knows yet.     *)
Recorded ==
  /\ UsesAreRecorded
  /\ \A p \in Procs : InSession(p) =>
       \A g \in Left(p) : SumsOf(g.client, g.chunks) \subseteq mem[p].sums
  /\ \A p \in Procs : At(p, "commit_client") => OldUses(p) \subseteq mem[p].sums
  /\ \A p \in Procs : At(p, "backing_up") =>
       /\ OldUses(p) \subseteq chunksums \/ Committing(mem[p].client)
       /\ \A r \in Procs : InSession(r) => OldUses(p) \subseteq mem[r].sums

(* How p gets to work on a generation, and what it does there.             *)
LEMMA WorkMoves ==
  ASSUME Base, NEW p \in Procs, Step(p), mem'[p].pc = "backing_up"
  PROVE  \/ CreateGeneration(p)
         \/ /\ mem[p].pc = "backing_up"
            /\ \/ \E id \in Ids, shared \in BOOLEAN : Puts(p, id, shared)
               \/ \E id \in Ids : Reuses(p, id)
               \/ \E id \in Ids : DropChunk(p, id)
<1>. USE DEF At, Fields
<1>1. CASE Passes(p) \/ Ends(p) \/ Starts(p) \/ Continues(p)
  BY <1>1 DEF Passes, Passages, Ends, Starts, Continues, Idle
<1>2. CASE \E final \in BOOLEAN : StartCommit(p, final)
  BY <1>2, StartCommitEffect DEF Base
<1>3. CASE CommitClient(p) \/ UnlockClient(p)
  BY <1>3, CommitClientEffect, UnlockClientEffect DEF Base
<1>4. CASE CommitChunklist(p) \/ CommitChunksums(p)
  BY <1>4, GotoEffect DEF Base, CommitChunklist, CommitChunksums, Steps
<1>5. CASE LockEverything(p, Indexes)
  BY <1>5, LockEverythingEffect, LockNames DEF Base
<1>6. CASE \E nums \in SUBSET (1..MaxGens) : Removes(p, nums)
  <2>1. PICK nums \in SUBSET (1..MaxGens) : Removes(p, nums)
    BY <1>6
  <2>2. mem'[p].pc = "commit_client"
    BY <2>1, RemoveGenerationsEffect DEF Base, Removes
  <2>. QED
    BY <2>2
<1>7. ASSUME NEW id \in Ids, RemoveUnused(p, id), id \in store PROVE FALSE
  <2>1. mem'[p].pc = mem[p].pc
    BY <1>7, RemoveUnusedEffect DEF Base, Only
  <2>. QED
    BY <1>7, <2>1 DEF RemoveUnused
<1>. QED
  BY <1>1, <1>2, <1>3, <1>4, <1>5, <1>6, <1>7 DEF Step, Puts, Reuses, DropChunk

(* A commit that nothing interrupts goes on to the end.                    *)
LEMMA CommittingStays ==
  ASSUME Base, MaxFaults = 0, NEW p \in Procs, Step(p), ~CommitChunksums(p)
  PROVE  \A c : Committing(c) => Committing(c)'
<1>. USE DEF At, Fields
<1>. SUFFICES ASSUME NEW c, Committing(c) PROVE Committing(c)'
  OBVIOUS
<1>1. PICK q \in Procs : /\ mem[q].client = c
                         /\ mem[q].pc \in {"unlock_client", "commit_chunklist", "commit_chunksums"}
  BY DEF Committing
<1>2. CASE q # p
  BY <1>1, <1>2, StepIsOwn DEF Base, OnlyOf, Committing
<1>3. CASE q = p
  <2>1. UnlockClient(p) \/ CommitChunklist(p)
    BY <1>1, <1>3 DEF Step, Passes, Passages, Ends, CommitSteps, Starts, CreateGeneration, Puts, Reuses,
       DropChunk, StartCommit, CommitClient, Continues, LockEverything, Removes, RemoveUnused,
       CommitChunksums
  <2>2. /\ mem'[p].client = c
        /\ mem'[p].pc \in {"unlock_client", "commit_chunklist", "commit_chunksums"}
    BY <1>1, <1>3, <2>1, UnlockClientEffect, GotoEffect DEF Base, Only, CommitChunklist, Steps
  <2>. QED
    BY <2>2 DEF Committing
<1>. QED
  BY <1>2, <1>3

(* Nobody commits the chunk indexes while they are not locked.             *)
LEMMA FreeMeansCommitted ==
  ASSUME Base, Free(Indexes)
  PROVE  \A c : ~Committing(c)
  BY OneSession DEF Committing, InSession, SessionSteps

(* A step leaves the memory of the others alone, and what a session of     *)
(* theirs looks at.                                                        *)
LEMMA OthersSessions ==
  ASSUME Base, NEW p \in Procs, Step(p), NEW q \in Procs, q # p
  PROVE  /\ mem'[q] = mem[q]
         /\ InSession(q) => UNCHANGED <<gens, chunksums, chunklist>>
<1>1. CommitClient(p) \/ CommitChunklist(p) \/ CommitChunksums(p) => InSession(p)
  BY DEF CommitClient, CommitChunklist, CommitChunksums, InSession, SessionSteps, At
<1>. QED
  BY <1>1, StepIsOwn, Writes, OneSession DEF Base, OnlyOf

LEMMA RecordedSession ==
  ASSUME MaxFaults = 0, Base, Recorded, NEW p \in Procs, Step(p), InSession(p)', Base'
  PROVE  /\ \A g \in Left(p)' : SumsOf(g.client, g.chunks) \subseteq mem'[p].sums
         /\ mem'[p].pc = "commit_client" => OldUses(p)' \subseteq mem'[p].sums
         /\ \A q \in Procs \ {p} : At(q, "backing_up") => OldUses(q) \subseteq mem'[p].sums
<1>. USE DEF At, Fields
<1>. DEFINE Known == \A g \in Left(p)' : SumsOf(g.client, g.chunks) \subseteq mem'[p].sums
            New == mem'[p].pc = "commit_client" => OldUses(p)' \subseteq mem'[p].sums
            Others == \A q \in Procs \ {p} : At(q, "backing_up") => OldUses(q) \subseteq mem'[p].sums
<1>1. CASE /\ ~InSession(p) /\ Free(Indexes)
           /\ mem'[p].pc \in {"commit_client", "remove_generations"}
           /\ mem'[p].sums = chunksums
           /\ mem'[p].client = mem[p].client /\ mem'[p].cur = mem[p].cur
           /\ mem'[p].tokens = mem[p].tokens
           /\ mem[p].pc = IF mem'[p].pc = "commit_client" THEN "backing_up" ELSE "lock_everything"
           /\ UNCHANGED data
  <2>1. \A c : ~Committing(c)
    BY <1>1, FreeMeansCommitted
  <2>2. \A g \in gens : SumsOf(g.client, g.chunks) \subseteq chunksums
    BY <2>1 DEF Recorded, UsesAreRecorded
  <2>3. Known
    BY <1>1, <2>2 DEF Left, data
  <2>4. New
    BY <1>1, <2>1 DEF Recorded, OldUses
  <2>5. Others
    BY <1>1, <2>1 DEF Recorded
  <2>. QED
    BY <2>3, <2>4, <2>5
<1>2. ASSUME InSession(p), UNCHANGED gens, mem[p].sums \subseteq mem'[p].sums,
             mem'[p].client = mem[p].client, mem'[p].removed = mem[p].removed,
             mem'[p].pc # "commit_client"
      PROVE  Known /\ New /\ Others
  BY <1>2 DEF Recorded, Left
<1>3. CASE mem[p].pc = "remove_unused" /\ Only(p, {"pc"}) /\ UNCHANGED data /\ mem'[p].pc = "remove_generations"
  BY <1>2, <1>3 DEF Only, data, InSession, SessionSteps
<1>4. CASE CommitClient(p)
  <2>1. /\ mem'[p].sums = mem[p].sums \cup NewUses(p) /\ mem'[p].removed = {}
        /\ mem'[p].pc # "commit_client" /\ InSession(p)
    BY <1>4, CommitClientEffect DEF Base, CommitClient, InSession, SessionSteps
  <2>2. \A g \in gens' : \/ g \in Left(p)
                         \/ g.client = mem[p].client /\ g.chunks = mem[p].cur
    BY <1>4 DEF CommitClient, CommittedGens, Left
  <2>3. OldUses(p) \subseteq mem[p].sums
    BY <1>4 DEF Recorded, CommitClient
  <2>4. SumsOf(mem[p].client, mem[p].cur) \subseteq OldUses(p) \cup NewUses(p)
    BY DEF OldUses, NewUses, SumsOf
  <2>5. Known
    BY <2>1, <2>2, <2>3, <2>4 DEF Recorded, Left
  <2>. QED
    BY <2>1, <2>5 DEF Recorded
<1>5. CASE UnlockClient(p)
  <2>1. Only(p, {"pc", "gen", "cur", "unused"}) /\ mem'[p].pc = "commit_chunklist"
    BY <1>5, UnlockClientEffect DEF Base
  <2>. QED
    BY <1>2, <1>5, <2>1 DEF UnlockClient, Only, InSession, SessionSteps
<1>6. CASE CommitChunklist(p) \/ CommitChunksums(p)
  <2>1. Only(p, {"pc"}) /\ mem'[p].pc # "commit_client" /\ UNCHANGED gens
    BY <1>6, GotoEffect DEF Base, CommitChunklist, CommitChunksums, Steps
  <2>. QED
    BY <1>2, <1>6, <2>1 DEF CommitChunklist, CommitChunksums, Only, InSession, SessionSteps
<1>7. ASSUME NEW nums \in SUBSET (1..MaxGens), Removes(p, nums)
      PROVE  Known /\ New /\ Others
  <2>. DEFINE ids == Gone(p, nums) \cap mem[p].list
  <2>1. /\ mem'[p].sums = mem[p].sums \ SumsOf(mem[p].client, ids)
        /\ mem'[p].removed = nums /\ mem'[p].pc = "commit_client"
        /\ Only(p, {"pc", "removed", "list", "sums", "unused", "checkpoints"})
    BY <1>7, RemoveGenerationsEffect DEF Base, Removes
  <2>2. mem[p].pc = "remove_generations" /\ InSession(p) /\ UNCHANGED gens
    BY <1>7 DEF Removes, data, InSession, SessionSteps
  <2>3. mem[p].removed = {} /\ mem[p].cur = {}
    BY <2>2, BaseOf DEF MemoryOf
  <2>4. mem'[p].client = mem[p].client /\ mem'[p].cur = {}
    BY <2>1, <2>3 DEF Only
  <2>5. ASSUME NEW g \in Left(p)' PROVE SumsOf(g.client, g.chunks) \subseteq mem'[p].sums
    <3>1. g \in gens /\ ~(g.client = mem[p].client /\ g.num \in nums)
      BY <2>1, <2>2, <2>4, <2>5 DEF Left
    <3>2. SumsOf(g.client, g.chunks) \subseteq mem[p].sums
      BY <2>2, <2>3, <3>1 DEF Recorded, Left
    <3>3. CASE g.client # mem[p].client
      BY <2>1, <3>2, <3>3 DEF SumsOf
    <3>4. CASE g.client = mem[p].client
      <4>1. g \in Kept(p, nums)
        BY <3>1, <3>4 DEF Kept, Own
      <4>2. g.chunks \cap ids = {}
        BY <4>1 DEF Gone, Chunks
      <4>. QED
        BY <2>1, <3>2, <4>2 DEF SumsOf
    <3>. QED
      BY <3>3, <3>4
  <2>6. New
    BY <2>4 DEF OldUses, SumsOf
  <2>7. ASSUME NEW q \in Procs, q # p, At(q, "backing_up")
        PROVE  OldUses(q) \subseteq mem'[p].sums
    <3>1. Holds(p, mem[p].client)
      BY <2>2, BaseOf DEF DisciplineOf, Removing
    <3>2. Holds(q, mem[q].client)
      BY <2>7, BaseOf DEF DisciplineOf, OwnSteps
    <3>3. mem[q].client # mem[p].client
      BY <2>7, <3>1, <3>2, OneHolder
    <3>4. OldUses(q) \subseteq mem[p].sums
      BY <2>2, <2>7 DEF Recorded
    <3>. QED
      BY <2>1, <3>3, <3>4 DEF OldUses, SumsOf
  <2>. QED
    BY <2>5, <2>6, <2>7
<1>8. ASSUME NEW id \in Ids, RemoveUnused(p, id), id \in store
      PROVE  Known /\ New /\ Others
  <2>1. Only(p, {"unused"})
    BY <1>8, RemoveUnusedEffect DEF Base
  <2>. QED
    BY <1>2, <1>8, <2>1 DEF RemoveUnused, Only, InSession, SessionSteps
<1>. QED
  BY <1>1, <1>3, <1>4, <1>5, <1>6, <1>7, <1>8, SessionMoves

LEMMA RecordedWork ==
  ASSUME MaxFaults = 0, "never" \notin Modes, Base, Recorded,
         NEW p \in Procs, Step(p), At(p, "backing_up")', Base'
  PROVE  /\ OldUses(p)' \subseteq chunksums' \/ Committing(mem[p].client)'
         /\ \A r \in Procs : InSession(r)' => OldUses(p)' \subseteq mem'[r].sums
<1>. USE DEF At, Fields
<1>1. ~InSession(p)' /\ \A r \in Procs : InSession(r)' => r # p /\ mem'[r] = mem[r] /\ InSession(r)
  BY OthersSessions DEF InSession, SessionSteps
<1>2. CASE CreateGeneration(p)
  <2>. DEFINE c == mem[p].client
  <2>1. mem'[p].cur = NewestTree(c) /\ mem'[p].client = c /\ UNCHANGED <<gens, chunksums>>
    BY <1>2, CreateGenerationEffect DEF Base, Only, CreateGeneration, disk
  <2>2. \A e \in OldUses(p)' : \E g \in Own(c) : e \in SumsOf(c, g.chunks)
    BY <2>1 DEF OldUses, SumsOf, NewestTree, Chunks
  <2>3. OldUses(p)' \subseteq chunksums' \/ Committing(c)'
    <3>1. Committing(c) => Committing(c)'
      <4>1. \A k : Committing(k) => Committing(k)'
        BY <1>2, CommittingStays DEF CreateGeneration, CommitChunksums
      <4>. QED
        BY <2>1, <4>1 DEF Committing
    <3>2. ~Committing(c) => \A g \in Own(c) : SumsOf(c, g.chunks) \subseteq chunksums
      BY DEF Recorded, UsesAreRecorded, Own
    <3>. QED
      BY <2>1, <2>2, <3>1, <3>2
  <2>4. ASSUME NEW r \in Procs, InSession(r)' PROVE OldUses(p)' \subseteq mem'[r].sums
    <3>1. r # p /\ mem'[r] = mem[r] /\ InSession(r)
      BY <1>1, <2>4
    <3>2. Holds(p, c)
      BY <1>2, BaseOf DEF CreateGeneration, DisciplineOf, OwnSteps
    <3>3. mem[r].removed # {} => Holds(r, mem[r].client)
      BY BaseOf DEF MemoryOf, DisciplineOf, OwnSteps
    <3>4. Own(c) \subseteq Left(r)
      BY <3>1, <3>2, <3>3, OneHolder DEF Own, Left
    <3>5. \A g \in Own(c) : SumsOf(c, g.chunks) \subseteq mem[r].sums
      BY <3>1, <3>4 DEF Recorded, Own
    <3>. QED
      BY <2>2, <3>1, <3>5
  <2>. QED
    BY <2>1, <2>3, <2>4
<1>3. ASSUME mem[p].pc = "backing_up", UNCHANGED chunksums, mem'[p].client = mem[p].client,
             mem'[p].cur \ mem'[p].tokens \subseteq mem[p].cur \ mem[p].tokens,
             ~CommitChunksums(p)
      PROVE  /\ OldUses(p)' \subseteq chunksums' \/ Committing(mem[p].client)'
             /\ \A r \in Procs : InSession(r)' => OldUses(p)' \subseteq mem'[r].sums
  <2>1. OldUses(p)' \subseteq OldUses(p)
    BY <1>3 DEF OldUses, SumsOf
  <2>2. OldUses(p) \subseteq chunksums \/ Committing(mem[p].client)
    BY <1>3 DEF Recorded
  <2>3. Committing(mem[p].client) => Committing(mem[p].client)'
    BY <1>3, CommittingStays
  <2>4. \A r \in Procs : InSession(r) => OldUses(p) \subseteq mem[r].sums
    BY <1>3 DEF Recorded
  <2>. QED
    BY <1>1, <1>3, <2>1, <2>2, <2>3, <2>4
<1>4. ASSUME NEW id \in Ids, UseChunk(p, id, TRUE), mem[p].pc = "backing_up", UNCHANGED chunksums
      PROVE  /\ OldUses(p)' \subseteq chunksums' \/ Committing(mem[p].client)'
             /\ \A r \in Procs : InSession(r)' => OldUses(p)' \subseteq mem'[r].sums
  <2>1. /\ mem'[p].cur = mem[p].cur \cup {id} /\ mem'[p].tokens = mem[p].tokens \cup {id}
        /\ mem'[p].client = mem[p].client
    <3>1. /\ Only(p, {"cur", "saved", "tokens", "snap", "opened"})
          /\ mem'[p].cur = mem[p].cur \cup {id} /\ mem'[p].tokens = mem[p].tokens \cup {id}
      BY <1>4, UseChunkEffect DEF Base
    <3>2. mem'[p].client = mem[p].client
      BY <3>1 DEF Only, Fields
    <3>. QED
      BY <3>1, <3>2
  <2>. QED
    BY <1>3, <1>4, <2>1 DEF CommitChunksums
<1>5. CASE mem[p].pc = "backing_up" /\ \E id \in Ids, shared \in BOOLEAN : Puts(p, id, shared)
  <2>1. PICK id \in Ids, shared \in BOOLEAN : Puts(p, id, shared)
    BY <1>5
  <2>2. mem[p].mode # "never"
    BY BoundsAssumption DEF Base, Types, Memory
  <2>. QED
    BY <1>4, <1>5, <2>1, <2>2 DEF Puts
<1>6. CASE mem[p].pc = "backing_up" /\ \E id \in Ids : Reuses(p, id)
  BY <1>4, <1>6 DEF Reuses, data
<1>7. CASE mem[p].pc = "backing_up" /\ \E id \in Ids : DropChunk(p, id)
  <2>1. PICK id \in Ids : DropChunk(p, id)
    BY <1>7
  <2>2. mem'[p].cur = mem[p].cur \ {id} /\ mem'[p].client = mem[p].client /\ mem'[p].tokens = mem[p].tokens
    BY <2>1, DropChunkEffect DEF Base, Only
  <2>. QED
    BY <1>3, <1>7, <2>1, <2>2 DEF DropChunk, disk, CommitChunksums
<1>. QED
  BY <1>2, <1>5, <1>6, <1>7, WorkMoves

LEMMA RecordedStep ==
  ASSUME MaxFaults = 0, "never" \notin Modes, Base, Recorded, [Next]_vars, Base'
  PROVE  Recorded'
<1>. USE DEF At
<1>1. ASSUME NEW p \in Procs, Step(p) PROVE Recorded'
  <2>1. UsesAreRecorded'
    <3>. SUFFICES ASSUME NEW g \in gens', ~Committing(g.client)'
                  PROVE  SumsOf(g.client, g.chunks) \subseteq chunksums'
      BY DEF UsesAreRecorded
    <3>1. CASE CommitChunksums(p)
      <4>1. g \in Left(p)
        BY <3>1, BaseOf DEF CommitChunksums, MemoryOf, Left
      <4>. QED
        BY <3>1, <4>1 DEF CommitChunksums, Recorded, InSession, SessionSteps
    <3>2. CASE ~CommitChunksums(p) /\ g \in gens
      <4>1. ~Committing(g.client)
        BY <1>1, <3>2, CommittingStays
      <4>. QED
        BY <1>1, <3>2, <4>1, Writes DEF Recorded, UsesAreRecorded
    <3>3. CASE g \notin gens
      <4>1. CommitClient(p)
        BY <1>1, <3>3, Writes
      <4>2. g.client = mem[p].client
        BY <3>3, <4>1 DEF CommitClient, CommittedGens
      <4>3. /\ mem'[p].client = mem[p].client
            /\ mem'[p].pc \in {"unlock_client", "commit_chunklist"}
        BY <4>1, CommitClientEffect DEF Base, Only, Fields
      <4>. QED
        BY <4>2, <4>3 DEF Committing
    <3>. QED
      BY <3>1, <3>2, <3>3, <1>1, Writes DEF CommitChunksums
  <2>2. ASSUME NEW q \in Procs, InSession(q)', q # p
        PROVE  /\ \A g \in Left(q)' : SumsOf(g.client, g.chunks) \subseteq mem'[q].sums
               /\ At(q, "commit_client")' => OldUses(q)' \subseteq mem'[q].sums
    <3>1. mem'[q] = mem[q] /\ InSession(q) /\ UNCHANGED gens
      BY <1>1, <2>2, OthersSessions DEF InSession
    <3>. QED
      BY <3>1 DEF Recorded, Left, OldUses
  <2>3. ASSUME NEW q \in Procs, q # p, At(q, "backing_up")'
        PROVE  /\ OldUses(q)' \subseteq chunksums' \/ Committing(mem[q].client)'
               /\ \A r \in Procs : InSession(r)' => OldUses(q)' \subseteq mem'[r].sums
    <3>1. mem'[q] = mem[q] /\ At(q, "backing_up")
      BY <1>1, <2>3, OthersSessions
    <3>2. OldUses(q)' = OldUses(q)
      BY <3>1 DEF OldUses
    <3>3. OldUses(q) \subseteq chunksums' \/ Committing(mem[q].client)'
      <4>1. CASE CommitChunksums(p)
        BY <3>1, <4>1 DEF Recorded, CommitChunksums, InSession, SessionSteps
      <4>2. CASE ~CommitChunksums(p)
        <5>1. OldUses(q) \subseteq chunksums \/ Committing(mem[q].client)
          BY <3>1 DEF Recorded
        <5>2. UNCHANGED chunksums /\ (Committing(mem[q].client) => Committing(mem[q].client)')
          <6>1. \A k : Committing(k) => Committing(k)'
            BY <1>1, <4>2, CommittingStays
          <6>. QED
            BY <1>1, <3>1, <4>2, <6>1, Writes DEF Committing
        <5>. QED
          BY <5>1, <5>2
      <4>. QED
        BY <4>1, <4>2
    <3>4. ASSUME NEW r \in Procs, InSession(r)' PROVE OldUses(q) \subseteq mem'[r].sums
      <4>1. CASE r = p
        BY <1>1, <2>3, <3>1, <3>4, <4>1, RecordedSession
      <4>2. CASE r # p
        <5>1. mem'[r] = mem[r] /\ InSession(r)
          BY <1>1, <3>4, <4>2, OthersSessions DEF InSession
        <5>. QED
          BY <3>1, <5>1 DEF Recorded
      <4>. QED
        BY <4>1, <4>2
    <3>. QED
      BY <3>1, <3>2, <3>3, <3>4
  <2>4. \A q \in Procs : InSession(q)' =>
          /\ \A g \in Left(q)' : SumsOf(g.client, g.chunks) \subseteq mem'[q].sums
          /\ At(q, "commit_client")' => OldUses(q)' \subseteq mem'[q].sums
    BY <1>1, <2>2, RecordedSession
  <2>5. \A q \in Procs : At(q, "backing_up")' =>
          /\ OldUses(q)' \subseteq chunksums' \/ Committing(mem[q].client)'
          /\ \A r \in Procs : InSession(r)' => OldUses(q)' \subseteq mem'[r].sums
    BY <1>1, <2>3, RecordedWork
  <2>6. \A q \in Procs : At(q, "commit_client")' => InSession(q)'
    BY DEF InSession, SessionSteps
  <2>. QED
    BY <2>1, <2>4, <2>5, <2>6 DEF Recorded
<1>2. CASE Rests
  BY <1>2 DEF Rests, data, Recorded, UsesAreRecorded, Committing, InSession, Left, OldUses
<1>. QED
  BY <1>1, <1>2, Kinds DEF Base

(* Every client is recorded as a user of each chunk its generations refer  *)
(* to, unless its commit is still under way; if no command is interrupted  *)
(* and no client has deduplication switched off.                           *)
THEOREM UsesRecorded ==
  ASSUME MaxFaults = 0, "never" \notin Modes
  PROVE  Spec => []UsesAreRecorded
<1>1. Init => Base /\ Recorded
  <2>1. Init => \A p \in Procs : mem[p] = Idle
    BY DEF Init
  <2>. QED
    BY <2>1, BaseInit DEF Init, Recorded, UsesAreRecorded, Idle, InSession, SessionSteps, At
<1>2. Base /\ Recorded /\ [Next]_vars => Base' /\ Recorded'
  BY BaseStep, RecordedStep
<1>3. Recorded => UsesAreRecorded
  BY DEF Recorded
<1>. QED
  BY <1>1, <1>2, <1>3, PTL DEF Spec

-----------------------------------------------------------------------------
(* What a backup has stored stays in the generation it builds              *)

(* The steps between two generations of a backup.                          *)
BetweenSteps == {"unlock_client", "commit_chunklist", "commit_chunksums", "unlock_indexes",
                 "relock_client", "create_generation"}
FirstSteps == {"commit_client_list", "unlock_client_list", "lock_client", "init_indexes",
               "init_unlock"}

SavedBy(p) ==
  LET m == mem[p] IN
  /\ m.pc # "idle" => <<p, m.task, m.client>> \in MayRun
  /\ m.pc \in FirstSteps => m.saved = {}
  /\ m.gen # 0 /\ m.pc \in {"backing_up", "commit_client"} => m.saved \subseteq m.cur
  /\ m.pc \in BetweenSteps /\ ~Holds(p, ClientList) => m.saved \subseteq NewestTree(m.client)
  /\ m.pc = "commit_client" /\ m.task = "forget" =>
       \A num \in m.removed : \E g \in Own(m.client) : g.num > num

Saved == \A p \in Procs : SavedBy(p)

(* Nobody else makes backups of the client that p makes them of.           *)
OneBackupEach ==
  \A p, q \in Procs, c \in Clients :
    <<p, "backup", c>> \in MayRun /\ <<q, "backup", c>> \in MayRun => p = q

(* A commit leaves the newest generation of every client, except that a    *)
(* backup makes a newer one of its own.                                    *)
LEMMA NewestStays ==
  ASSUME Base, Numbers, Saved, NEW p \in Procs, CommitClient(p)
  PROVE  /\ \A c \in Clients : c # mem[p].client \/ mem[p].task = "forget" =>
              NewestTree(c) \subseteq NewestTree(c)'
         /\ mem[p].gen # 0 => mem[p].cur \subseteq NewestTree(mem[p].client)'
<1>. USE DEF At
<1>1. ASSUME NEW c \in Clients, c # mem[p].client PROVE NewestTree(c) = NewestTree(c)'
  <2>1. Own(c)' = Own(c)
    BY <1>1 DEF CommitClient, CommittedGens, Own
  <2>. QED
    BY <2>1 DEF NewestTree, Chunks
<1>2. ASSUME mem[p].task = "forget", NEW c \in Clients, c = mem[p].client
      PROVE  NewestTree(c) \subseteq NewestTree(c)'
  <2>1. mem[p].gen = 0
    BY <1>2, BaseOf DEF CommitClient, DisciplineOf, MemoryOf, RemovalSteps
  <2>2. Own(c)' = {g \in Own(c) : g.num \notin mem[p].removed}
    BY <1>2, <2>1 DEF CommitClient, CommittedGens, Own
  <2>3. \A g \in Own(c) : g.num \in Int
    BY DEF Base, Types, TypeOK, Generations, Own
  <2>4. \A num \in mem[p].removed : num \in Int /\ \E g \in Own(c) : g.num > num
    <3>1. mem[p].removed \subseteq 1..MaxGens
      BY DEF Base, Types, Memory
    <3>2. \A num \in mem[p].removed : \E g \in Own(c) : g.num > num
      BY <1>2 DEF Saved, SavedBy, CommitClient
    <3>. QED
      BY <3>1, <3>2, BoundsAssumption
  <2>5. ASSUME NEW g \in Own(c), \A h \in Own(c) : h.num <= g.num
        PROVE  g \in Own(c)'
    BY <2>2, <2>3, <2>4, <2>5
  <2>. QED
    BY <2>2, <2>5 DEF NewestTree, Chunks
<1>3. ASSUME mem[p].gen # 0 PROVE mem[p].cur \subseteq NewestTree(mem[p].client)'
  <2>. DEFINE c == mem[p].client
              new == [client |-> c, num |-> mem[p].gen, chunks |-> mem[p].cur]
  <2>1. gens' = gens \cup {new} /\ mem'[p].client = c
    BY <1>3, CommitGens, CommitClientEffect DEF Base, Only, Fields
  <2>2. mem[p].gen = lastGen[c] + 1 /\ lastGen[c] \in Int
    BY <1>3, TypesOf DEF Numbers, CommitClient, Base, Types, TypeOK
  <2>3. \A h \in gens' : h.client = c => h.num <= new.num
    <3>1. \A h \in gens : h.num <= lastGen[h.client] /\ h.num \in Int
      BY DEF Numbers, Base, Types, TypeOK, Generations
    <3>. QED
      BY <2>1, <2>2, <3>1
  <2>4. new \in gens' /\ new.client = c /\ new.chunks = mem[p].cur
    BY <2>1
  <2>. HIDE DEF new
  <2>. QED
    BY <2>1, <2>3, <2>4 DEF NewestTree, Own, Chunks
<1>. QED
  BY <1>1, <1>2, <1>3

LEMMA SavedKept ==
  ASSUME OneBackupEach, Base, Numbers, Saved, NEW p \in Procs, Step(p), OthersKeep(p),
         NEW q \in Procs, q # p
  PROVE  SavedBy(q)'
<1>. DEFINE c == mem[q].client
<1>1. mem'[q] = mem[q] /\ SavedBy(q) /\ (InSession(q) => UNCHANGED gens)
  BY OthersSessions DEF Saved
<1>2. Holds(q, ClientList)' <=> Holds(q, ClientList)
  BY LockNames DEF OthersKeep, Holds
<1>3. mem[q].pc = "commit_client" => Own(c)' = Own(c)
  BY <1>1 DEF Own, InSession, SessionSteps
<1>4. ASSUME mem[q].pc \in BetweenSteps, ~Holds(q, ClientList)
      PROVE  NewestTree(c) \subseteq NewestTree(c)'
  <2>1. mem[q].task = "backup" /\ c \in Clients
    BY <1>4, BaseOf, TypesOf DEF Base, DisciplineOf, BetweenSteps, RemovalSteps, BackupSteps
  <2>2. CASE UNCHANGED gens
    BY <1>1, <2>2 DEF NewestTree, Own, Chunks
  <2>3. CASE CommitClient(p)
    <3>1. mem[p].task = "backup" \/ mem[p].task = "forget"
      BY <2>3, BaseOf DEF CommitClient, At, DisciplineOf
    <3>2. mem[p].client # c \/ mem[p].task = "forget"
      BY <1>1, <1>4, <2>1, <2>3, <3>1 DEF OneBackupEach, Saved, SavedBy, CommitClient, At, BetweenSteps
    <3>3. \A k \in Clients : k # mem[p].client \/ mem[p].task = "forget" => NewestTree(k) \subseteq NewestTree(k)'
      BY <2>3, NewestStays
    <3>. QED
      BY <1>1, <2>1, <3>2, <3>3 DEF NewestTree, Own
  <2>. QED
    BY <2>2, <2>3, Writes
<1>. QED
  BY <1>1, <1>2, <1>3, <1>4 DEF SavedBy

LEMMA SavedStep ==
  ASSUME ForgetNewest = FALSE, OneBackupEach, Base, Numbers, Saved, [Next]_vars, Base'
  PROVE  Saved'
<1>. USE DEF At, Fields
<1>1. ASSUME NEW p \in Procs, Step(p), OthersKeep(p) PROVE SavedBy(p)'
  <2>. DEFINE m == mem[p]
              n == mem'[p]
  <2>1. SavedBy(p) /\ MemoryOf(p) /\ DisciplineOf(p) /\ MemoryOf(p)' /\ DisciplineOf(p)'
    BY BaseOf DEF Saved, Base, Memories, Discipline
  <2>2. ASSUME Only(p, Fields \ {"task", "client", "saved"}), UNCHANGED gens,
               m.pc # "idle", n.pc \in FirstSteps => m.pc \in FirstSteps
        PROVE  /\ <<p, n.task, n.client>> \in MayRun
               /\ n.pc \in FirstSteps => n.saved = {}
               /\ n.saved = m.saved /\ n.client = m.client /\ n.task = m.task
               /\ NewestTree(m.client)' = NewestTree(m.client) /\ Own(m.client)' = Own(m.client)
    BY <2>1, <2>2 DEF Only, SavedBy, NewestTree, Own, Chunks
  <2>3. CASE Passes(p)
    <3>1. /\ Only(p, {"pc"}) /\ UNCHANGED gens /\ m.pc # "idle"
          /\ n.pc \in FirstSteps => m.pc \in FirstSteps
          /\ n.pc \notin {"backing_up", "commit_client"}
          /\ n.pc \in BetweenSteps => m.pc \in {"init_unlock", "relock_client"}
      BY <2>3 DEF Passes, Passages, data, FirstSteps, BetweenSteps
    <3>2. Only(p, Fields \ {"task", "client", "saved"})
      BY <3>1 DEF Only
    <3>3. m.pc \in {"init_unlock", "relock_client"} => m.saved \subseteq NewestTree(m.client)
      BY <2>1 DEF SavedBy, FirstSteps, BetweenSteps, DisciplineOf, RemovalSteps
    <3>. QED
      BY <2>2, <3>1, <3>2, <3>3 DEF SavedBy
  <2>4. CASE Ends(p)
    BY <2>4 DEF Ends, Idle, SavedBy, FirstSteps, BetweenSteps
  <2>5. CASE Starts(p)
    BY <2>5 DEF Starts, Idle, SavedBy, FirstSteps, BetweenSteps
  <2>6. CASE CreateGeneration(p)
    <3>1. /\ Only(p, {"pc", "gen", "cur"}) /\ n.pc = "backing_up" /\ n.cur = NewestTree(m.client)
          /\ m.pc = "create_generation" /\ UNCHANGED gens
      BY <2>6, CreateGenerationEffect DEF Base, CreateGeneration, disk
    <3>2. m.saved \subseteq NewestTree(m.client)
      BY <2>1, <3>1 DEF SavedBy, BetweenSteps, DisciplineOf, RemovalSteps
    <3>. QED
      BY <2>1, <3>1, <3>2 DEF SavedBy, Only, FirstSteps, BetweenSteps
  <2>7. ASSUME NEW id \in Ids, NEW shared \in BOOLEAN, UseChunk(p, id, shared), m.pc = "backing_up"
        PROVE  SavedBy(p)'
    <3>1. /\ Only(p, {"cur", "saved", "tokens", "snap", "opened"})
          /\ n.cur = m.cur \cup {id} /\ n.saved = m.saved \cup {id}
      BY <2>7, UseChunkEffect DEF Base
    <3>. QED
      BY <2>1, <2>7, <3>1 DEF SavedBy, Only, FirstSteps, BetweenSteps
  <2>8. ASSUME NEW id \in Ids, DropChunk(p, id) PROVE SavedBy(p)'
    <3>1. Only(p, {"cur"}) /\ n.cur = m.cur \ {id} /\ m.pc = "backing_up" /\ id \notin m.saved
      BY <2>8, DropChunkEffect DEF Base, DropChunk
    <3>. QED
      BY <2>1, <3>1 DEF SavedBy, Only, FirstSteps, BetweenSteps
  <2>9. ASSUME NEW final \in BOOLEAN, StartCommit(p, final) PROVE SavedBy(p)'
    <3>1. Only(p, {"pc", "final", "checkpoints", "list", "sums"}) /\ n.pc = "commit_client" /\ m.pc = "backing_up"
      BY <2>9, StartCommitEffect DEF Base, StartCommit
    <3>2. m.removed = {}
      BY <2>1, <3>1 DEF MemoryOf
    <3>. QED
      BY <2>1, <3>1, <3>2 DEF SavedBy, Only, FirstSteps, BetweenSteps
  <2>10. CASE CommitClient(p)
    <3>1. /\ Only(p, {"pc", "list", "sums", "tokens", "removed"}) /\ m.pc = "commit_client"
          /\ n.pc \in {"commit_chunklist", "unlock_client"} /\ UNCHANGED owner
      BY <2>10, CommitClientEffect DEF Base, CommitClient
    <3>2. ~Holds(p, ClientList) => m.gen # 0
      BY <2>1, <3>1 DEF MemoryOf
    <3>3. m.gen # 0 => m.saved \subseteq NewestTree(m.client)'
      BY <2>1, <2>10, <3>1, NewestStays DEF SavedBy
    <3>4. n.client = m.client /\ n.saved = m.saved /\ n.task = m.task /\ (Holds(p, ClientList)' <=> Holds(p, ClientList))
      BY <3>1 DEF Only, Holds
    <3>. QED
      BY <2>1, <3>1, <3>2, <3>3, <3>4 DEF SavedBy, FirstSteps, BetweenSteps
  <2>11. ASSUME Only(p, {"pc", "gen", "cur", "unused"}), UNCHANGED gens,
                Holds(p, ClientList)' <=> Holds(p, ClientList),
                m.pc \in BetweenSteps,
                n.pc \in BetweenSteps \cup {"remove_unused"}
         PROVE  SavedBy(p)'
    <3>1. Only(p, Fields \ {"task", "client", "saved"})
      BY <2>11 DEF Only
    <3>. QED
      BY <2>1, <2>2, <2>11, <3>1 DEF SavedBy, FirstSteps, BetweenSteps
  <2>12. CASE UnlockClient(p)
    <3>1. owner'[ClientList] = owner[ClientList] /\ UNCHANGED gens /\ m.pc = "unlock_client"
      BY <2>12, TypesOf, LockNames DEF Base, UnlockClient, Types, TypeOK
    <3>. QED
      BY <2>11, <2>12, <3>1, UnlockClientEffect DEF Base, Holds, BetweenSteps
  <2>13. CASE CommitChunklist(p) \/ CommitChunksums(p)
    <3>1. /\ Only(p, {"pc"}) /\ UNCHANGED <<owner, gens>> /\ m.pc \in {"commit_chunklist", "commit_chunksums"}
          /\ n.pc \in {"commit_chunksums", "remove_unused", "unlock_indexes"}
      BY <2>13, GotoEffect DEF Base, CommitChunklist, CommitChunksums, Steps
    <3>2. Only(p, {"pc", "gen", "cur", "unused"})
      BY <3>1 DEF Only
    <3>. QED
      BY <2>11, <3>1, <3>2 DEF Holds, BetweenSteps
  <2>14. CASE Continues(p)
    <3>1. Only(p, Fields \ {"task", "client", "saved"}) /\ UNCHANGED gens
      BY <2>14 DEF Continues, Only, data
    <3>2. m.pc = "unlock_indexes" /\ n.pc \in {"lock_everything", "relock_client"}
      BY <2>14 DEF Continues
    <3>3. ~Holds(p, ClientList)
      BY <2>1, <3>2 DEF DisciplineOf, RemovalSteps
    <3>. QED
      BY <2>1, <2>2, <3>1, <3>2, <3>3 DEF SavedBy, FirstSteps, BetweenSteps
  <2>15. CASE LockEverything(p, Indexes)
    <3>1. Only(p, {"pc", "list", "sums"}) /\ n.pc = "remove_generations" /\ m.pc = "lock_everything"
      BY <2>15, LockEverythingEffect, LockNames DEF Base, LockEverything
    <3>. QED
      BY <2>1, <3>1 DEF SavedBy, Only, FirstSteps, BetweenSteps
  <2>16. ASSUME NEW nums \in SUBSET (1..MaxGens), Removes(p, nums) PROVE SavedBy(p)'
    <3>1. /\ Only(p, {"pc", "removed", "list", "sums", "unused", "checkpoints"})
          /\ n.pc = "commit_client" /\ n.removed = nums /\ m.pc = "remove_generations" /\ UNCHANGED gens
      BY <2>16, RemoveGenerationsEffect DEF Base, Removes, data
    <3>2. m.gen = 0
      BY <2>1, <3>1 DEF MemoryOf
    <3>3. m.task = "forget" => \A num \in nums : \E g \in Own(m.client) : g.num > num
      BY <2>16 DEF Removes
    <3>4. n.client = m.client /\ n.task = m.task /\ n.gen = 0 /\ n.saved = m.saved
      BY <3>1, <3>2 DEF Only
    <3>5. Own(m.client)' = Own(m.client)
      BY <3>1, <3>4 DEF Own
    <3>. QED
      BY <2>1, <3>1, <3>3, <3>4, <3>5 DEF SavedBy, FirstSteps, BetweenSteps
  <2>17. ASSUME NEW id \in Ids, RemoveUnused(p, id), id \in store PROVE SavedBy(p)'
    <3>1. Only(p, {"unused"}) /\ m.pc = "remove_unused"
      BY <2>17, RemoveUnusedEffect DEF Base, RemoveUnused
    <3>. QED
      BY <2>1, <3>1 DEF SavedBy, Only, FirstSteps, BetweenSteps
  <2>. QED
    BY <1>1, <2>3, <2>4, <2>5, <2>6, <2>7, <2>8, <2>9, <2>10, <2>12, <2>13, <2>14, <2>15, <2>16, <2>17
       DEF Step, Puts, Reuses
<1>2. CASE Rests
  <2>1. \A q \in Procs : mem'[q] = mem[q] /\ UNCHANGED gens
    BY <1>2 DEF Rests, data
  <2>2. \A q \in Procs : mem[q].pc \in BetweenSteps => (Holds(q, ClientList)' <=> Holds(q, ClientList))
    BY <1>2, LockNames DEF Rests, SameLocks, Holds, BetweenSteps
  <2>3. ASSUME NEW q \in Procs PROVE SavedBy(q)'
    <3>1. SavedBy(q)
      BY DEF Saved
    <3>2. NewestTree(mem[q].client)' = NewestTree(mem[q].client) /\ Own(mem[q].client)' = Own(mem[q].client)
      BY <2>1 DEF NewestTree, Own, Chunks
    <3>. QED
      BY <2>1, <2>2, <3>1, <3>2 DEF SavedBy
  <2>. QED
    BY <2>3 DEF Saved
<1>. QED
  BY <1>1, <1>2, Kinds, SavedKept DEF Base, Saved

(* What a run of backup has stored stays in the generation it builds,      *)
(* whatever is interrupted; if nobody forgets the newest generation, and   *)
(* the client is backed up from one place.                                 *)
THEOREM SavedStays ==
  ASSUME ForgetNewest = FALSE, OneBackupEach
  PROVE  Spec => []SavedIsKept
<1>1. Init => Base /\ Numbers /\ Saved
  <2>1. Init => \A p \in Procs : mem[p] = Idle
    BY DEF Init
  <2>2. Init => Numbers /\ Saved
    BY <2>1 DEF Init, Numbers, Saved, SavedBy, Idle, FirstSteps, BetweenSteps
  <2>. QED
    BY <2>2, BaseInit
<1>2. Base /\ Numbers /\ Saved /\ [Next]_vars => Base' /\ Numbers' /\ Saved'
  BY BaseStep, NumbersStep, SavedStep
<1>3. Base /\ Saved => SavedIsKept
  BY TypesOf DEF Base, Saved, SavedBy, SavedIsKept, At
<1>. QED
  BY <1>1, <1>2, <1>3, PTL DEF Spec

-----------------------------------------------------------------------------
(* No chunk that is needed gets lost                                       *)

(* What a command means to remove, no generation that is left needs; a     *)
(* backup forgets it again when it unlocks its client.                     *)
Unneeded(p) ==
  mem[p].unused # {} =>
    /\ \A g \in Left(p) : g.chunks \cap mem[p].unused = {}
    /\ mem[p].pc \in {"commit_chunklist", "commit_chunksums", "remove_unused"} =>
         mem[p].task = "forget"

Backed == NoDangling /\ WorkIsBacked /\ \A p \in Procs : Unneeded(p)

(* What find trusts without reading it is there.                           *)
Findable ==
  \A p \in Procs : At(p, "backing_up") /\ mem[p].mode \notin {"verify", "never"} =>
    Snapshot(p) \subseteq store

(* A command that is about to remove generations knows of every chunk that *)
(* another client uses too, and that it does.                              *)
SharedKnown ==
  \A p \in Procs : At(p, "remove_generations") =>
    \A g \in Own(mem[p].client), h \in gens :
      h.client # mem[p].client =>
        \A id \in g.chunks \cap h.chunks : id \in mem[p].list /\ <<id, h.client>> \in mem[p].sums

(* Nobody builds a generation while somebody removes chunks.               *)
LEMMA NobodyBuilds ==
  ASSUME Base, Backed, NEW p \in Procs, At(p, "remove_unused"), mem[p].unused # {}, NEW q \in Procs
  PROVE  mem[q].gen = 0 /\ mem[q].cur = {}
<1>. USE DEF At
<1>1. MemoryOf(p) /\ DisciplineOf(p) /\ MemoryOf(q) /\ DisciplineOf(q)
  BY BaseOf
<1>2. mem[p].task = "forget"
  BY DEF Backed, Unneeded
<1>3. \A c \in clientList : Holds(p, c)
  BY <1>1, <1>2 DEF MemoryOf, DisciplineOf
<1>4. mem[q].gen # 0 => mem[q].client \in clientList /\ Holds(q, mem[q].client)
  BY <1>1 DEF MemoryOf, DisciplineOf, OwnSteps
<1>5. mem[q].gen # 0 => p = q
  BY <1>3, <1>4, OneHolder
<1>. QED
  BY <1>1, <1>5 DEF MemoryOf

LEMMA StoredStays ==
  ASSUME Base, Backed, NEW p \in Procs, Step(p)
  PROVE  /\ Chunks(gens) \subseteq store'
         /\ \A q \in Procs : mem[q].cur \subseteq store'
<1>1. CASE store \subseteq store'
  BY <1>1 DEF Backed, NoDangling, WorkIsBacked
<1>2. ASSUME NEW id \in Ids, RemoveUnused(p, id), id \in store
      PROVE  /\ Chunks(gens) \subseteq store'
             /\ \A q \in Procs : mem[q].cur \subseteq store'
  <2>1. id \in mem[p].unused /\ store' = store \ {id} /\ At(p, "remove_unused")
    BY <1>2 DEF RemoveUnused
  <2>2. gens = Left(p)
    BY <2>1, BaseOf DEF MemoryOf, Left, At
  <2>3. \A g \in gens : id \notin g.chunks
    BY <2>1, <2>2 DEF Backed, Unneeded
  <2>4. Chunks(gens) \subseteq store'
    BY <2>1, <2>3 DEF Backed, NoDangling, Chunks
  <2>. QED
    BY <2>1, <2>4, NobodyBuilds
<1>. QED
  BY <1>1, <1>2, Writes DEF Puts

LEMMA UnneededStep ==
  ASSUME Base, Backed, SharedKnown, NEW p \in Procs, Step(p), Base'
  PROVE  Unneeded(p)'
<1>. USE DEF At, Fields
<1>. SUFFICES ASSUME mem'[p].unused # {}
              PROVE  /\ \A g \in Left(p)' : g.chunks \cap mem'[p].unused = {}
                     /\ mem'[p].pc \in {"commit_chunklist", "commit_chunksums", "remove_unused"} =>
                          mem'[p].task = "forget"
  BY DEF Unneeded
<1>1. InSession(p)' /\ mem'[p].pc # "remove_generations"
  BY BaseOf DEF Base, Memories, MemoryOf, Removing, InSession, SessionSteps
<1>2. ASSUME UNCHANGED gens, mem'[p].unused \subseteq mem[p].unused,
             mem'[p].removed = mem[p].removed, mem'[p].client = mem[p].client,
             mem'[p].task = mem[p].task,
             mem'[p].pc \in {"commit_chunklist", "commit_chunksums", "remove_unused"} =>
               mem[p].pc \in {"commit_chunklist", "commit_chunksums", "remove_unused"}
      PROVE  /\ \A g \in Left(p)' : g.chunks \cap mem'[p].unused = {}
             /\ mem'[p].pc \in {"commit_chunklist", "commit_chunksums", "remove_unused"} =>
                  mem'[p].task = "forget"
  <2>1. Left(p)' = Left(p) /\ mem[p].unused # {}
    BY <1>2 DEF Left
  <2>2. Unneeded(p)
    BY DEF Backed
  <2>. QED
    BY <1>2, <2>1, <2>2 DEF Unneeded
<1>3. CASE ~InSession(p) /\ mem'[p].unused = mem[p].unused
  BY <1>3, BaseOf DEF MemoryOf, Removing, InSession, SessionSteps
<1>4. CASE CommitClient(p)
  <2>1. /\ Only(p, {"pc", "list", "sums", "tokens", "removed"}) /\ mem'[p].removed = {}
        /\ mem'[p].pc = IF mem[p].task = "forget" THEN "commit_chunklist" ELSE "unlock_client"
    BY <1>4, CommitClientEffect DEF Base
  <2>2. mem'[p].unused = mem[p].unused /\ mem'[p].task = mem[p].task
    BY <2>1 DEF Only
  <2>3. mem[p].gen = 0
    BY <2>2, BaseOf DEF MemoryOf, Removing
  <2>4. gens' \subseteq Left(p)
    BY <1>4, <2>3 DEF CommitClient, CommittedGens, Left
  <2>5. Left(p)' \subseteq Left(p)
    BY <2>4 DEF Left
  <2>. QED
    BY <2>1, <2>2, <2>5 DEF Backed, Unneeded
<1>5. CASE UnlockClient(p)
  BY <1>5, UnlockClientEffect DEF Base
<1>6. CASE CommitChunklist(p) \/ CommitChunksums(p)
  <2>1. Only(p, {"pc"})
    BY <1>6, GotoEffect DEF Base, CommitChunklist, CommitChunksums, Steps
  <2>. QED
    BY <1>2, <1>6, <2>1 DEF CommitChunklist, CommitChunksums, Only
<1>7. ASSUME NEW nums \in SUBSET (1..MaxGens), Removes(p, nums)
      PROVE  /\ \A g \in Left(p)' : g.chunks \cap mem'[p].unused = {}
             /\ mem'[p].pc = "commit_client"
  <2>. DEFINE c == mem[p].client
              gone == Gone(p, nums)
  <2>1. /\ mem'[p].removed = nums /\ mem'[p].pc = "commit_client"
        /\ mem'[p].sums = mem[p].sums \ SumsOf(c, gone \cap mem[p].list)
        /\ mem'[p].unused = mem[p].unused \cup (gone \ mem[p].list)
             \cup {id \in gone \cap mem[p].list \cap store : NobodyUses(id, mem'[p].sums)}
        /\ Only(p, {"pc", "removed", "list", "sums", "unused", "checkpoints"})
    BY <1>7, RemoveGenerationsEffect DEF Base, Removes
  <2>2. mem[p].pc = "remove_generations" /\ UNCHANGED gens
    BY <1>7 DEF Removes, data
  <2>3. mem[p].unused = {} /\ mem'[p].client = c
    BY <2>1, <2>2, BaseOf DEF MemoryOf, Only
  <2>4. ASSUME NEW h \in Left(p)', NEW id \in h.chunks \cap mem'[p].unused
        PROVE  FALSE
    <3>1. h \in gens /\ ~(h.client = c /\ h.num \in nums) /\ id \in gone
      BY <2>1, <2>2, <2>3, <2>4 DEF Left
    <3>2. CASE h.client = c
      BY <2>4, <3>1, <3>2 DEF Gone, Kept, Own, Chunks
    <3>3. CASE h.client # c
      <4>1. PICK g \in Own(c) : id \in g.chunks
        BY <3>1 DEF Gone, Chunks
      <4>2. id \in mem[p].list /\ <<id, h.client>> \in mem[p].sums
        BY <2>2, <2>4, <3>1, <3>3, <4>1 DEF SharedKnown
      <4>3. <<id, h.client>> \in mem'[p].sums
        BY <2>1, <3>3, <4>2 DEF SumsOf
      <4>4. id \in {e[1] : e \in mem'[p].sums}
        <5>1. <<id, h.client>>[1] = id
          OBVIOUS
        <5>. QED
          BY <4>3, <5>1
      <4>. QED
        BY <2>1, <2>3, <2>4, <4>2, <4>4 DEF NobodyUses
    <3>. QED
      BY <3>2, <3>3
  <2>. QED
    BY <2>1, <2>4
<1>8. ASSUME NEW id \in Ids, RemoveUnused(p, id), id \in store
      PROVE  /\ \A g \in Left(p)' : g.chunks \cap mem'[p].unused = {}
             /\ mem'[p].pc \in {"commit_chunklist", "commit_chunksums", "remove_unused"} =>
                  mem'[p].task = "forget"
  <2>1. Only(p, {"unused"}) /\ mem'[p].unused \subseteq mem[p].unused
    BY <1>8, RemoveUnusedEffect DEF Base
  <2>. QED
    BY <1>2, <1>8, <2>1 DEF RemoveUnused, Only
<1>. QED
  BY <1>1, <1>3, <1>4, <1>5, <1>6, <1>7, <1>8, SessionMoves

(* Only while it backs up does a process add to its generation.            *)
LEMMA CurShrinks ==
  ASSUME Base, NEW p \in Procs, Step(p), mem'[p].pc # "backing_up"
  PROVE  mem'[p].cur \subseteq mem[p].cur
<1>. USE DEF At, Fields
<1>1. ASSUME Only(p, Fields \ {"cur"}) PROVE mem'[p].cur = mem[p].cur
  BY <1>1 DEF Only
<1>2. CASE Passes(p) \/ Continues(p)
  BY <1>2 DEF Passes, Continues, Only
<1>3. CASE Ends(p) \/ Starts(p)
  BY <1>3 DEF Ends, Starts, Idle
<1>4. CASE CreateGeneration(p)
  BY <1>4, CreateGenerationEffect DEF Base
<1>5. ASSUME NEW id \in Ids, NEW shared \in BOOLEAN, UseChunk(p, id, shared), mem[p].pc = "backing_up"
      PROVE  FALSE
  BY <1>5, UseChunkEffect DEF Base, Only
<1>6. ASSUME NEW id \in Ids, DropChunk(p, id) PROVE mem'[p].cur \subseteq mem[p].cur
  BY <1>6, DropChunkEffect DEF Base
<1>7. ASSUME NEW final \in BOOLEAN, StartCommit(p, final) PROVE mem'[p].cur = mem[p].cur
  BY <1>7, StartCommitEffect DEF Base, Only
<1>8. CASE CommitClient(p) \/ UnlockClient(p)
  BY <1>8, CommitClientEffect, UnlockClientEffect DEF Base, Only
<1>9. CASE CommitChunklist(p) \/ CommitChunksums(p)
  BY <1>9, GotoEffect DEF Base, CommitChunklist, CommitChunksums, Steps, Only
<1>10. CASE LockEverything(p, Indexes)
  BY <1>10, LockEverythingEffect, LockNames DEF Base, Only
<1>11. ASSUME NEW nums \in SUBSET (1..MaxGens), Removes(p, nums) PROVE mem'[p].cur = mem[p].cur
  BY <1>11, RemoveGenerationsEffect DEF Base, Removes, Only
<1>12. ASSUME NEW id \in Ids, RemoveUnused(p, id), id \in store PROVE mem'[p].cur = mem[p].cur
  BY <1>12, RemoveUnusedEffect DEF Base, Only
<1>. QED
  BY <1>2, <1>3, <1>4, <1>5, <1>6, <1>7, <1>8, <1>9, <1>10, <1>11, <1>12 DEF Step, Puts, Reuses

(* A backup has a deduplicate setting that clients may have.               *)
Chosen == \A p \in Procs : mem[p].task = "backup" => mem[p].mode \in Modes

LEMMA ChosenStep ==
  ASSUME Base, Chosen, [Next]_vars
  PROVE  Chosen'
<1>. USE DEF At, Fields
<1>1. ASSUME NEW p \in Procs, Step(p) PROVE Chosen'
  <2>1. ASSUME mem'[p].mode = mem[p].mode, mem'[p].task = mem[p].task PROVE Chosen'
    BY <1>1, <2>1, StepIsOwn DEF Base, OnlyOf, Chosen
  <2>2. CASE Passes(p) \/ Continues(p)
    BY <2>1, <2>2 DEF Passes, Continues, Only
  <2>3. CASE Ends(p) \/ Starts(p)
    BY <2>3 DEF Ends, Starts, Idle, OnlyOf, Chosen
  <2>4. CASE CreateGeneration(p)
    BY <2>1, <2>4, CreateGenerationEffect DEF Base, Only
  <2>5. ASSUME NEW id \in Ids, NEW shared \in BOOLEAN, UseChunk(p, id, shared) PROVE Chosen'
    BY <2>1, <2>5, UseChunkEffect DEF Base, Only
  <2>6. ASSUME NEW id \in Ids, DropChunk(p, id) PROVE Chosen'
    BY <2>1, <2>6, DropChunkEffect DEF Base, Only
  <2>7. ASSUME NEW final \in BOOLEAN, StartCommit(p, final) PROVE Chosen'
    BY <2>1, <2>7, StartCommitEffect DEF Base, Only
  <2>8. CASE CommitClient(p) \/ UnlockClient(p)
    BY <2>1, <2>8, CommitClientEffect, UnlockClientEffect DEF Base, Only
  <2>9. CASE CommitChunklist(p) \/ CommitChunksums(p)
    BY <2>1, <2>9, GotoEffect DEF Base, CommitChunklist, CommitChunksums, Steps, Only
  <2>10. CASE LockEverything(p, Indexes)
    BY <2>1, <2>10, LockEverythingEffect, LockNames DEF Base, Only
  <2>11. ASSUME NEW nums \in SUBSET (1..MaxGens), Removes(p, nums) PROVE Chosen'
    <3>1. Only(p, {"pc", "removed", "list", "sums", "unused", "checkpoints"})
      BY <2>11, RemoveGenerationsEffect DEF Base, Removes
    <3>2. mem'[p].mode = mem[p].mode /\ mem'[p].task = mem[p].task
      BY <3>1 DEF Only
    <3>. QED
      BY <2>1, <3>2
  <2>12. ASSUME NEW id \in Ids, RemoveUnused(p, id), id \in store PROVE Chosen'
    BY <2>1, <2>12, RemoveUnusedEffect DEF Base, Only
  <2>. QED
    BY <1>1, <2>2, <2>3, <2>4, <2>5, <2>6, <2>7, <2>8, <2>9, <2>10, <2>11, <2>12 DEF Step, Puts, Reuses
<1>2. CASE Rests
  BY <1>2 DEF Rests, Chosen
<1>. QED
  BY <1>1, <1>2, Kinds DEF Base

LEMMA BackedStep ==
  ASSUME Base, Backed, Findable, SharedKnown, [Next]_vars, Base'
  PROVE  Backed'
<1>. USE DEF At, Fields
<1>1. ASSUME NEW p \in Procs, Step(p) PROVE Backed'
  <2>1. NoDangling'
    <3>1. CASE UNCHANGED gens
      BY <1>1, <3>1, StoredStays DEF NoDangling, Chunks
    <3>2. CASE CommitClient(p)
      <4>1. \A g \in gens' : g \in gens \/ g.chunks = mem[p].cur
        BY <3>2 DEF CommitClient, CommittedGens
      <4>. QED
        BY <1>1, <4>1, StoredStays DEF NoDangling, Chunks
    <3>. QED
      BY <1>1, <3>1, <3>2, Writes
  <2>2. ASSUME NEW q \in Procs, q # p
        PROVE  mem'[q].cur \subseteq store' /\ Unneeded(q)'
    <3>1. mem'[q] = mem[q] /\ (InSession(q) => UNCHANGED gens)
      BY <1>1, <2>2, OthersSessions
    <3>2. mem[q].unused # {} => InSession(q)
      BY BaseOf DEF MemoryOf, Removing, InSession, SessionSteps
    <3>3. mem[q].unused # {} => Left(q)' = Left(q)
      BY <3>1, <3>2 DEF Left
    <3>. QED
      BY <1>1, <3>1, <3>3, StoredStays DEF Backed, Unneeded
  <2>3. mem'[p].cur \subseteq store'
    <3>1. CASE mem'[p].pc # "backing_up" /\ mem'[p].cur \subseteq mem[p].cur
      BY <1>1, <3>1, StoredStays
    <3>2. CASE CreateGeneration(p)
      <4>1. mem'[p].cur = NewestTree(mem[p].client)
        BY <3>2, CreateGenerationEffect DEF Base
      <4>2. NewestTree(mem[p].client) \subseteq Chunks(gens)
        BY DEF NewestTree, Own, Chunks
      <4>. QED
        BY <1>1, <4>1, <4>2, StoredStays
    <3>3. ASSUME NEW id \in Ids, NEW shared \in BOOLEAN, Puts(p, id, shared)
          PROVE  mem'[p].cur \subseteq store'
      <4>1. mem'[p].cur = mem[p].cur \cup {id} /\ store' = store \cup {id}
        BY <3>3, UseChunkEffect DEF Base, Puts
      <4>. QED
        BY <4>1 DEF Backed, WorkIsBacked
    <3>4. ASSUME NEW id \in Ids, Reuses(p, id)
          PROVE  mem'[p].cur \subseteq store'
      <4>1. mem'[p].cur = mem[p].cur \cup {id} /\ UNCHANGED store
        BY <3>4, UseChunkEffect DEF Base, Reuses, data
      <4>2. mem[p].tokens \subseteq store
        BY BaseOf DEF MemoryOf, Backed, WorkIsBacked
      <4>3. id \in store
        BY <3>4, <4>2 DEF Reuses, ReadFails, Findable
      <4>. QED
        BY <4>1, <4>3 DEF Backed, WorkIsBacked
    <3>5. ASSUME NEW id \in Ids, DropChunk(p, id)
          PROVE  mem'[p].cur \subseteq store'
      <4>1. mem'[p].cur \subseteq mem[p].cur
        BY <3>5, DropChunkEffect DEF Base
      <4>. QED
        BY <1>1, <4>1, StoredStays
    <3>6. CASE mem'[p].pc # "backing_up"
      BY <1>1, <3>1, <3>6, CurShrinks
    <3>. QED
      BY <1>1, <3>2, <3>3, <3>4, <3>5, <3>6, WorkMoves
  <2>4. Unneeded(p)'
    BY <1>1, UnneededStep
  <2>. QED
    BY <2>1, <2>2, <2>3, <2>4 DEF Backed, WorkIsBacked
<1>2. CASE Rests
  BY <1>2 DEF Rests, data, Backed, NoDangling, WorkIsBacked, Unneeded, Left, Chunks
<1>. QED
  BY <1>1, <1>2, Kinds DEF Base

(* If every chunk that find finds is read, nothing of it is taken on trust.*)
LEMMA ReadIsFindable ==
  ASSUME Base, Chosen, "fatalist" \notin Modes
  PROVE  Findable
<1>1. \A p \in Procs : At(p, "backing_up") => mem[p].task = "backup"
  BY BaseOf DEF DisciplineOf, BackupSteps, At
<1>. QED
  BY <1>1, ModesAssumption DEF Chosen, Findable

OneClient == \A c, d \in Clients : c = d

LEMMA NobodyShares == OneClient /\ Base => SharedKnown
  BY TypesOf DEF OneClient, SharedKnown, Base, Types, TypeOK, Generations, At

LEMMA BackedInit == Init => Base /\ Backed /\ Chosen
<1>. SUFFICES ASSUME Init PROVE Base /\ Backed /\ Chosen
  OBVIOUS
<1>1. \A p \in Procs : mem[p] = Idle
  BY DEF Init
<1>2. Backed /\ Chosen
  BY <1>1 DEF Init, Backed, Chosen, NoDangling, WorkIsBacked, Unneeded, Chunks, Idle
<1>. QED
  BY <1>2, BaseInit

(* In a repository of one client that reads the chunks it finds, no        *)
(* generation ever lacks a chunk, nor does one that is being made;         *)
(* whatever is interrupted, and whenever a process or its connection dies. *)
THEOREM OneClientLosesNothing ==
  ASSUME OneClient, "fatalist" \notin Modes
  PROVE  Spec => [](NoDangling /\ WorkIsBacked)
<1>1. Base /\ Backed /\ Chosen /\ [Next]_vars => Base' /\ Backed' /\ Chosen'
  <2>1. Base /\ Chosen => Findable /\ SharedKnown
    BY ReadIsFindable, NobodyShares
  <2>. QED
    BY <2>1, BaseStep, BackedStep, ChosenStep
<1>2. Backed => NoDangling /\ WorkIsBacked
  BY DEF Backed
<1>. QED
  BY <1>1, <1>2, BackedInit, PTL DEF Spec

-----------------------------------------------------------------------------
(* What the trees of a session have to do with those on disk               *)

(* What a session has read, or has committed, is what is on disk.          *)
InSync ==
  \A p \in Procs :
    /\ mem[p].pc \in {"remove_generations", "remove_unused"} =>
         mem[p].list = chunklist /\ mem[p].sums = chunksums
    /\ mem[p].pc = "commit_chunksums" => mem[p].list = chunklist

LEMMA InSyncStep ==
  ASSUME Base, InSync, [Next]_vars
  PROVE  InSync'
<1>. USE DEF At, Fields
<1>1. ASSUME NEW p \in Procs, Step(p) PROVE InSync'
  <2>. DEFINE Synced == /\ mem'[p].pc \in {"remove_generations", "remove_unused"} =>
                             mem'[p].list = chunklist' /\ mem'[p].sums = chunksums'
                        /\ mem'[p].pc = "commit_chunksums" => mem'[p].list = chunklist'
  <2>1. ASSUME NEW q \in Procs, q # p
        PROVE  /\ mem'[q].pc \in {"remove_generations", "remove_unused"} =>
                    mem'[q].list = chunklist' /\ mem'[q].sums = chunksums'
               /\ mem'[q].pc = "commit_chunksums" => mem'[q].list = chunklist'
    BY <1>1, <2>1, OthersSessions DEF InSync, InSession, SessionSteps
  <2>2. ASSUME ~InSession(p)' PROVE Synced
    BY <2>2 DEF InSession, SessionSteps
  <2>3. ASSUME mem'[p].list = chunklist /\ mem'[p].sums = chunksums /\ UNCHANGED data PROVE Synced
    BY <2>3 DEF data
  <2>4. ASSUME mem[p].pc = "remove_unused" /\ Only(p, {"pc"}) /\ UNCHANGED data PROVE Synced
    BY <2>4 DEF InSync, Only, data
  <2>5. ASSUME CommitClient(p) \/ UnlockClient(p) PROVE Synced
    BY <2>5, CommitClientEffect, UnlockClientEffect DEF Base
  <2>6. ASSUME CommitChunklist(p) PROVE Synced
    BY <2>6, GotoEffect DEF Base, CommitChunklist, Steps, Only
  <2>7. ASSUME CommitChunksums(p) PROVE Synced
    <3>1. Only(p, {"pc"}) /\ mem'[p].pc \in {"remove_unused", "unlock_indexes"}
      BY <2>7, GotoEffect DEF Base, CommitChunksums, Steps
    <3>. QED
      BY <2>7, <3>1 DEF CommitChunksums, InSync, Only
  <2>8. ASSUME NEW nums \in SUBSET (1..MaxGens), Removes(p, nums) PROVE Synced
    BY <2>8, RemoveGenerationsEffect DEF Base, Removes
  <2>9. ASSUME NEW id \in Ids, RemoveUnused(p, id), id \in store PROVE Synced
    BY <2>9, RemoveUnusedEffect DEF Base, RemoveUnused, InSync, Only
  <2>10. Synced
    BY <1>1, <2>2, <2>3, <2>4, <2>5, <2>6, <2>7, <2>8, <2>9, SessionMoves
  <2>. QED
    BY <2>1, <2>10 DEF InSync
<1>2. CASE Rests
  BY <1>2 DEF Rests, data, InSync
<1>. QED
  BY <1>1, <1>2, Kinds DEF Base

(* How a session ends if nothing interrupts it.                            *)
LEMMA SessionLeaves ==
  ASSUME MaxFaults = 0, Base, NEW p \in Procs, Step(p), InSession(p), ~InSession(p)'
  PROVE  \/ mem[p].pc \in {"remove_generations", "remove_unused"} /\ UNCHANGED data
         \/ CommitChunksums(p)
<1>. USE DEF At, Fields, InSession, SessionSteps
<1>1. CASE Passes(p)
  BY <1>1 DEF Passes, Passages
<1>2. CASE Ends(p)
  BY <1>2 DEF Ends, CommitSteps
<1>3. CASE CommitClient(p) \/ UnlockClient(p)
  BY <1>3, CommitClientEffect, UnlockClientEffect DEF Base
<1>4. CASE CommitChunklist(p)
  BY <1>4, GotoEffect DEF Base, CommitChunklist, Steps
<1>5. ASSUME NEW nums \in SUBSET (1..MaxGens), Removes(p, nums) PROVE FALSE
  <2>1. mem'[p].pc = "commit_client"
    BY <1>5, RemoveGenerationsEffect DEF Base, Removes
  <2>. QED
    BY <2>1
<1>6. ASSUME NEW id \in Ids, RemoveUnused(p, id), id \in store PROVE FALSE
  <2>1. mem'[p].pc = mem[p].pc
    BY <1>6, RemoveUnusedEffect DEF Base, Only
  <2>. QED
    BY <2>1
<1>. QED
  BY <1>1, <1>2, <1>3, <1>4, <1>5, <1>6
     DEF Step, Starts, CreateGeneration, Puts, Reuses, DropChunk, StartCommit, Continues, LockEverything

(* The trees agree on the ids, and their chunks exist; so does what find   *)
(* saw of them.                                                            *)
Summed(sums) == {e[1] : e \in sums}

OpenSteps == {"backing_up", "commit_client", "unlock_client", "commit_chunklist",
              "commit_chunksums", "unlock_indexes"}

Found ==
  /\ (\A p \in Procs : ~InSession(p)) => chunklist = Summed(chunksums)
  /\ Summed(chunksums) \subseteq store
  /\ \A p \in Procs : InSession(p) =>
       /\ mem[p].list = Summed(mem[p].sums) /\ mem[p].list \subseteq store
       /\ mem[p].list \cap mem[p].unused = {}
  /\ \A p \in Procs : mem[p].opened =>
       /\ mem[p].pc \in OpenSteps /\ ~Holds(p, ClientList)
       /\ At(p, "backing_up") => mem[p].snap \subseteq store

LEMMA SummedOf ==
  /\ \A S, T : Summed(S \cup T) = Summed(S) \cup Summed(T)
  /\ \A c, ids : Summed(SumsOf(c, ids)) = ids
  /\ \A S, T : S \subseteq T => Summed(S) \subseteq Summed(T)
<1>1. ASSUME NEW c, NEW ids PROVE Summed(SumsOf(c, ids)) = ids
  <2>1. \A id \in ids : <<id, c>> \in SumsOf(c, ids) /\ <<id, c>>[1] = id
    BY DEF SumsOf
  <2>2. \A e \in SumsOf(c, ids) : e[1] \in ids
    BY DEF SumsOf
  <2>. QED
    BY <2>1, <2>2 DEF Summed
<1>2. \A S, T : Summed(S \cup T) = Summed(S) \cup Summed(T)
  BY DEF Summed
<1>. QED
  BY <1>1, <1>2 DEF Summed

(* Taking the uses of a chunk away takes it away, as nobody else uses it.  *)
LEMMA SummedWithout ==
  ASSUME OneClient, NEW c \in Clients, NEW sums \in SUBSET (Ids \X Clients), NEW ids
  PROVE  Summed(sums \ SumsOf(c, ids)) = Summed(sums) \ ids
<1>1. \A e \in sums : e = <<e[1], c>>
  BY DEF OneClient
<1>2. \A e \in sums : e \in SumsOf(c, ids) <=> e[1] \in ids
  BY <1>1 DEF SumsOf
<1>. QED
  BY <1>2 DEF Summed

LEMMA FoundSession ==
  ASSUME OneClient, Base, Backed, Found, InSync, NEW p \in Procs, Step(p), InSession(p)', Base'
  PROVE  /\ mem'[p].list = Summed(mem'[p].sums) /\ mem'[p].list \subseteq store'
         /\ mem'[p].list \cap mem'[p].unused = {}
<1>. USE DEF At, Fields
<1>. DEFINE Agree == /\ mem'[p].list = Summed(mem'[p].sums) /\ mem'[p].list \subseteq store'
                     /\ mem'[p].list \cap mem'[p].unused = {}
<1>1. MemoryOf(p) /\ DisciplineOf(p) /\ MemoryOf(p)'
  BY BaseOf DEF Base, Memories
<1>2. ASSUME ~InSession(p), Free(Indexes), mem'[p].list = chunklist, mem'[p].sums = chunksums,
             mem'[p].unused = mem[p].unused, UNCHANGED data
      PROVE  Agree
  <2>1. \A q \in Procs : ~InSession(q)
    BY <1>2, OneSession
  <2>2. mem[p].unused = {}
    BY <1>1, <1>2 DEF MemoryOf, Removing, InSession, SessionSteps
  <2>. QED
    BY <1>2, <2>1, <2>2 DEF Found, data
<1>3. ASSUME InSession(p), UNCHANGED store, mem'[p].list = mem[p].list, mem'[p].sums = mem[p].sums,
             mem'[p].unused \subseteq mem[p].unused
      PROVE  Agree
  BY <1>3 DEF Found
<1>4. ASSUME mem[p].pc = "remove_unused", Only(p, {"pc"}), UNCHANGED data PROVE Agree
  BY <1>3, <1>4 DEF Only, data, InSession, SessionSteps
<1>5. ASSUME CommitClient(p) PROVE Agree
  <2>1. /\ mem'[p].list = mem[p].list \cup mem[p].tokens
        /\ mem'[p].sums = mem[p].sums \cup NewUses(p)
        /\ mem'[p].unused = mem[p].unused /\ UNCHANGED store /\ InSession(p)
    BY <1>5, CommitClientEffect DEF Base, Only, CommitClient, InSession, SessionSteps
  <2>2. Summed(mem'[p].sums) = mem'[p].list
    BY <2>1, SummedOf DEF Found, NewUses
  <2>3. mem[p].tokens \subseteq store
    BY <1>1 DEF MemoryOf, Backed, WorkIsBacked
  <2>4. mem[p].tokens = {} \/ mem[p].unused = {}
    BY <1>1 DEF MemoryOf, Removing
  <2>. QED
    BY <2>1, <2>2, <2>3, <2>4 DEF Found
<1>6. ASSUME UnlockClient(p) PROVE Agree
  <2>1. Only(p, {"pc", "gen", "cur", "unused"}) /\ mem'[p].unused = {}
    BY <1>6, UnlockClientEffect DEF Base
  <2>. QED
    BY <1>3, <1>6, <2>1 DEF UnlockClient, Only, InSession, SessionSteps
<1>7. ASSUME CommitChunklist(p) \/ CommitChunksums(p) PROVE Agree
  <2>1. Only(p, {"pc"})
    BY <1>7, GotoEffect DEF Base, CommitChunklist, CommitChunksums, Steps
  <2>. QED
    BY <1>3, <1>7, <2>1 DEF CommitChunklist, CommitChunksums, Only, InSession, SessionSteps
<1>8. ASSUME NEW nums \in SUBSET (1..MaxGens), Removes(p, nums) PROVE Agree
  <2>. DEFINE c == mem[p].client
              gone == Gone(p, nums)
  <2>1. /\ mem'[p].list = mem[p].list \ gone
        /\ mem'[p].sums = mem[p].sums \ SumsOf(c, gone \cap mem[p].list)
        /\ mem'[p].unused \subseteq mem[p].unused \cup gone
    <3>1. /\ mem'[p].list = mem[p].list \ gone
          /\ mem'[p].sums = mem[p].sums \ SumsOf(c, gone \cap mem[p].list)
          /\ mem'[p].unused = mem[p].unused \cup (gone \ mem[p].list)
               \cup {id \in gone \cap mem[p].list \cap store : NobodyUses(id, mem'[p].sums)}
      BY <1>8, RemoveGenerationsEffect DEF Base, Removes
    <3>. HIDE DEF gone
    <3>. QED
      BY <3>1
  <2>2. InSession(p) /\ UNCHANGED store /\ c \in Clients /\ mem[p].unused = {}
    BY <1>1, <1>8, TypesOf DEF Base, Removes, data, InSession, SessionSteps, MemoryOf
  <2>3. mem[p].sums \in SUBSET (Ids \X Clients)
    BY DEF Base, Types, Memory
  <2>4. Summed(mem'[p].sums) = Summed(mem[p].sums) \ (gone \cap mem[p].list)
    BY <2>1, <2>2, <2>3, SummedWithout
  <2>. QED
    BY <2>1, <2>2, <2>4 DEF Found
<1>9. ASSUME NEW id \in Ids, RemoveUnused(p, id), id \in store PROVE Agree
  <2>1. Only(p, {"unused"}) /\ mem'[p].unused = mem[p].unused \ {id}
    BY <1>9, RemoveUnusedEffect DEF Base
  <2>2. id \in mem[p].unused /\ store' = store \ {id} /\ InSession(p)
    BY <1>9 DEF RemoveUnused, InSession, SessionSteps
  <2>3. mem'[p].list = mem[p].list /\ mem'[p].sums = mem[p].sums
    BY <2>1 DEF Only
  <2>. QED
    BY <2>1, <2>2, <2>3 DEF Found
<1>. QED
  BY <1>2, <1>4, <1>5, <1>6, <1>7, <1>8, <1>9, SessionMoves

(* When find opens the tree, and where that is forgotten.                  *)
LEMMA OpenedMoves ==
  ASSUME Base, Found, NEW p \in Procs, Step(p), mem'[p].opened
  PROVE  /\ mem'[p].pc \in OpenSteps
         /\ mem'[p].pc = "backing_up" =>
              /\ mem[p].pc = "backing_up"
              /\ (mem[p].opened /\ mem'[p].snap = mem[p].snap) \/ mem'[p].snap = Snapshot(p)
         /\ mem[p].opened \/ mem[p].pc = "backing_up"
         /\ mem'[p].pc = "backing_up" \/ owner'[ClientList] = owner[ClientList]
<1>. USE DEF At, Fields
<1>. DEFINE Opens ==
       /\ mem'[p].pc \in OpenSteps
       /\ mem'[p].pc = "backing_up" =>
            /\ mem[p].pc = "backing_up"
            /\ (mem[p].opened /\ mem'[p].snap = mem[p].snap) \/ mem'[p].snap = Snapshot(p)
       /\ mem[p].opened \/ mem[p].pc = "backing_up"
       /\ mem'[p].pc = "backing_up" \/ owner'[ClientList] = owner[ClientList]
<1>1. mem[p].opened => mem[p].pc \in OpenSteps /\ ~Holds(p, ClientList)
  BY DEF Found
<1>2. ASSUME Only(p, Fields \ {"opened", "snap"}),
             mem[p].opened => mem'[p].pc \in OpenSteps \ {"backing_up"} \/ mem'[p].pc = mem[p].pc,
             owner'[ClientList] = owner[ClientList]
      PROVE  Opens
  <2>1. mem'[p].opened = mem[p].opened /\ mem'[p].snap = mem[p].snap
    BY <1>2 DEF Only
  <2>. QED
    BY <1>1, <1>2, <2>1
<1>3. CASE Passes(p)
  <2>1. mem[p].pc \notin OpenSteps /\ mem'[p].opened = mem[p].opened
    BY <1>3 DEF Passes, Passages, OpenSteps, Only
  <2>. QED
    BY <1>1, <2>1
<1>4. CASE Ends(p) \/ Starts(p)
  BY <1>4 DEF Ends, Starts, Idle
<1>5. CASE Continues(p)
  BY <1>5 DEF Continues
<1>6. CASE CreateGeneration(p)
  <2>1. mem'[p].opened = mem[p].opened /\ mem[p].pc \notin OpenSteps
    BY <1>6, CreateGenerationEffect DEF Base, Only, CreateGeneration, OpenSteps
  <2>. QED
    BY <1>1, <2>1
<1>7. ASSUME NEW id \in Ids, NEW shared \in BOOLEAN, UseChunk(p, id, shared), mem[p].pc = "backing_up"
      PROVE  Opens
  <2>1. mem'[p].pc = "backing_up" /\ "backing_up" \in OpenSteps
    BY <1>7, UseChunkEffect DEF Base, Only, OpenSteps
  <2>2. CASE shared = TRUE
    <3>1. UseChunk(p, id, TRUE)
      BY <1>7, <2>2
    <3>2. mem'[p].snap = Snapshot(p)
      BY <3>1, UseChunkEffect DEF Base
    <3>. QED
      BY <1>7, <2>1, <3>2
  <2>3. CASE shared = FALSE
    <3>1. UseChunk(p, id, FALSE)
      BY <1>7, <2>3
    <3>2. mem'[p].snap = mem[p].snap /\ mem[p].opened
      BY <3>1, UseChunkEffect DEF Base
    <3>. QED
      BY <1>7, <2>1, <3>2
  <2>. QED
    BY <2>2, <2>3
<1>8. ASSUME NEW id \in Ids, DropChunk(p, id) PROVE Opens
  <2>1. Only(p, {"cur"}) /\ UNCHANGED owner
    BY <1>8, DropChunkEffect DEF Base, DropChunk, disk
  <2>. QED
    BY <1>2, <2>1 DEF Only
<1>9. ASSUME NEW final \in BOOLEAN, StartCommit(p, final) PROVE Opens
  <2>1. Only(p, {"pc", "final", "checkpoints", "list", "sums"}) /\ mem'[p].pc = "commit_client"
    BY <1>9, StartCommitEffect DEF Base
  <2>2. owner'[ClientList] = owner[ClientList]
    BY <1>9, LockNames DEF StartCommit, Base, Types, TypeOK
  <2>. QED
    BY <1>2, <2>1, <2>2 DEF Only, OpenSteps
<1>10. CASE CommitClient(p)
  <2>1. /\ Only(p, {"pc", "list", "sums", "tokens", "removed"})
        /\ mem'[p].pc \in {"commit_chunklist", "unlock_client"} /\ UNCHANGED owner
    BY <1>10, CommitClientEffect DEF Base, CommitClient
  <2>. QED
    BY <1>2, <2>1 DEF Only, OpenSteps
<1>11. CASE UnlockClient(p)
  <2>1. Only(p, {"pc", "gen", "cur", "unused"}) /\ mem'[p].pc = "commit_chunklist"
    BY <1>11, UnlockClientEffect DEF Base
  <2>2. owner'[ClientList] = owner[ClientList]
    BY <1>11, TypesOf, LockNames DEF UnlockClient, At, Base, Types, TypeOK
  <2>. QED
    BY <1>2, <2>1, <2>2 DEF Only, OpenSteps
<1>12. CASE CommitChunklist(p) \/ CommitChunksums(p)
  <2>1. /\ Only(p, {"pc"}) /\ UNCHANGED owner
        /\ mem'[p].pc \in {"commit_chunksums", "unlock_indexes"} \/ Holds(p, ClientList)
    BY <1>12, GotoEffect DEF Base, CommitChunklist, CommitChunksums, Steps
  <2>. QED
    BY <1>1, <1>2, <2>1 DEF Only, OpenSteps
<1>13. CASE LockEverything(p, Indexes)
  <2>1. mem'[p].opened = mem[p].opened /\ mem[p].pc = "lock_everything"
    BY <1>13, LockEverythingEffect, LockNames DEF Base, Only, LockEverything
  <2>. QED
    BY <1>1, <2>1 DEF OpenSteps
<1>14. ASSUME NEW nums \in SUBSET (1..MaxGens), Removes(p, nums) PROVE Opens
  <2>1. mem'[p].opened = mem[p].opened /\ mem[p].pc = "remove_generations"
    BY <1>14, RemoveGenerationsEffect DEF Base, Removes, Only
  <2>. QED
    BY <1>1, <2>1 DEF OpenSteps
<1>15. ASSUME NEW id \in Ids, RemoveUnused(p, id), id \in store PROVE Opens
  <2>1. mem'[p].opened = mem[p].opened /\ mem[p].pc = "remove_unused"
    BY <1>15, RemoveUnusedEffect DEF Base, Only, RemoveUnused
  <2>. QED
    BY <1>1, <2>1 DEF OpenSteps
<1>. QED
  BY <1>3, <1>4, <1>5, <1>6, <1>7, <1>8, <1>9, <1>10, <1>11, <1>12, <1>13, <1>14, <1>15
     DEF Step, Puts, Reuses

LEMMA FoundStep ==
  ASSUME OneClient, MaxFaults = 0, Base, Backed, Found, InSync, [Next]_vars, Base'
  PROVE  Found'
<1>. USE DEF At
<1>1. ASSUME NEW p \in Procs, Step(p), OthersKeep(p) PROVE Found'
  <2>1. Summed(chunksums') \subseteq store'
    <3>1. CASE CommitChunksums(p)
      BY <3>1 DEF CommitChunksums, Found, InSession, SessionSteps
    <3>2. ASSUME NEW id \in Ids, RemoveUnused(p, id), id \in store
          PROVE  Summed(chunksums') \subseteq store'
      <4>1. /\ id \in mem[p].unused /\ store' = store \ {id} /\ UNCHANGED chunksums
            /\ mem[p].pc = "remove_unused"
        BY <3>2 DEF RemoveUnused
      <4>2. Summed(chunksums) = mem[p].list /\ id \notin mem[p].list
        BY <4>1 DEF Found, InSync, InSession, SessionSteps
      <4>. QED
        BY <4>1, <4>2 DEF Found
    <3>. QED
      BY <1>1, <3>1, <3>2, Writes DEF Found, Puts
  <2>2. (\A q \in Procs : ~InSession(q)') => chunklist' = Summed(chunksums')
    <3>. SUFFICES ASSUME \A q \in Procs : ~InSession(q)' PROVE chunklist' = Summed(chunksums')
      OBVIOUS
    <3>1. \A q \in Procs : q # p => ~InSession(q)
      BY <1>1, OthersSessions DEF InSession
    <3>2. CASE ~InSession(p)
      BY <1>1, <3>1, <3>2, Writes DEF Found, InSession, SessionSteps, CommitChunklist, CommitChunksums
    <3>3. CASE InSession(p)
      <4>1. CASE mem[p].pc \in {"remove_generations", "remove_unused"} /\ UNCHANGED data
        BY <3>3, <4>1 DEF Found, InSync, data
      <4>2. CASE CommitChunksums(p)
        BY <3>3, <4>2 DEF Found, InSync, CommitChunksums
      <4>. QED
        BY <1>1, <3>3, <4>1, <4>2, SessionLeaves
    <3>. QED
      BY <3>2, <3>3
  <2>3. \A q \in Procs : mem[q].gen # 0 => store \subseteq store'
    BY <1>1, Writes, NobodyBuilds DEF Puts, RemoveUnused
  <2>4. ASSUME NEW q \in Procs, InSession(q)'
        PROVE  /\ mem'[q].list = Summed(mem'[q].sums) /\ mem'[q].list \subseteq store'
               /\ mem'[q].list \cap mem'[q].unused = {}
    <3>1. CASE q = p
      BY <1>1, <2>4, <3>1, FoundSession
    <3>2. CASE q # p
      <4>1. mem'[q] = mem[q] /\ InSession(q)
        BY <1>1, <2>4, <3>2, OthersSessions DEF InSession
      <4>2. store \subseteq store'
        BY <1>1, <3>2, <4>1, Writes, OneSession DEF Puts, RemoveUnused, InSession, SessionSteps
      <4>. QED
        BY <4>1, <4>2 DEF Found
    <3>. QED
      BY <3>1, <3>2
  <2>5. ASSUME NEW q \in Procs, mem'[q].opened
        PROVE  /\ mem'[q].pc \in OpenSteps /\ ~Holds(q, ClientList)'
               /\ At(q, "backing_up")' => mem'[q].snap \subseteq store'
    <3>1. CASE q # p
      <4>1. mem'[q] = mem[q] /\ (Holds(q, ClientList)' <=> Holds(q, ClientList))
        BY <1>1, <3>1, OthersSessions, LockNames DEF OthersKeep, Holds
      <4>2. mem[q].pc = "backing_up" => store \subseteq store'
        BY <2>3 DEF Base, Types
      <4>. QED
        BY <2>5, <4>1, <4>2 DEF Found
    <3>2. CASE q = p
      <4>1. mem'[p].pc = "backing_up" => store \subseteq store'
        BY <1>1, Writes, WorkMoves DEF CreateGeneration, Puts, Reuses, DropChunk, disk, data
      <4>2. mem[p].pc = "backing_up" => Snapshot(p) \subseteq store
        BY DEF Snapshot, Found, Summed
      <4>3. /\ mem'[p].pc \in OpenSteps
            /\ mem'[p].pc = "backing_up" => mem'[p].snap \subseteq store
        BY <1>1, <2>5, <3>2, <4>2, OpenedMoves DEF Found
      <4>4. ~Holds(p, ClientList)'
        <5>1. ~Holds(p, ClientList)
          BY <1>1, <2>5, <3>2, OpenedMoves, BaseOf DEF Found, DisciplineOf, RemovalSteps
        <5>2. mem'[p].pc = "backing_up" => ~Holds(p, ClientList)'
          BY DEF Base, Discipline, DisciplineOf, RemovalSteps
        <5>. QED
          BY <1>1, <2>5, <3>2, <5>1, <5>2, OpenedMoves DEF Holds
      <4>. QED
        BY <3>2, <4>1, <4>3, <4>4
    <3>. QED
      BY <3>1, <3>2
  <2>. QED
    BY <2>1, <2>2, <2>4, <2>5 DEF Found
<1>2. CASE Rests
  <2>1. \A q \in Procs : mem[q].opened => (Holds(q, ClientList)' <=> Holds(q, ClientList))
    BY <1>2, LockNames DEF Rests, SameLocks, Holds, Found, OpenSteps
  <2>. QED
    BY <1>2, <2>1 DEF Rests, data, Found, InSession
<1>. QED
  BY <1>1, <1>2, Kinds DEF Base

(* In a repository of one client where nothing is interrupted, nothing is  *)
(* lost either if it trusts what find finds, as it does by default.        *)
THEOREM OneClientMayTrust ==
  ASSUME OneClient, MaxFaults = 0
  PROVE  Spec => [](NoDangling /\ WorkIsBacked)
<1>1. Init => Found /\ InSync
  <2>1. Init => \A p \in Procs : mem[p] = Idle
    BY DEF Init
  <2>. QED
    BY <2>1 DEF Init, Found, InSync, Idle, InSession, SessionSteps, Summed
<1>2. Base /\ Backed /\ Found /\ InSync /\ [Next]_vars => Base' /\ Backed' /\ Found' /\ InSync'
  <2>1. Found => Findable
    BY DEF Found, Findable, Snapshot, Summed
  <2>2. Base => SharedKnown
    BY NobodyShares
  <2>. QED
    BY <2>1, <2>2, BaseStep, BackedStep, FoundStep, InSyncStep
<1>3. Backed => NoDangling /\ WorkIsBacked
  BY DEF Backed
<1>. QED
  BY <1>1, <1>2, <1>3, BackedInit, PTL DEF Spec

-----------------------------------------------------------------------------
(* Two clients that share chunks                                           *)

AtMostTwoClients == \A c, d, e \in Clients : c = d \/ d = e \/ c = e

(* The chunks that both clients' generations refer to are in the chunklist *)
(* that a session has, or is about to read; and what a new generation has  *)
(* taken over is still in one of its client's.                             *)
SharedIn(G, ids) == \A g, h \in G : g.client # h.client => g.chunks \cap h.chunks \subseteq ids

Listed ==
  /\ (\A p \in Procs : ~InSession(p)) => SharedIn(gens, chunklist)
  /\ \A p \in Procs : InSession(p) => SharedIn(Left(p), mem[p].list)
  /\ \A p \in Procs : mem[p].pc \in {"backing_up", "commit_client"} =>
       mem[p].cur \ mem[p].tokens \subseteq Chunks(Own(mem[p].client))

LEMMA ListedSession ==
  ASSUME AtMostTwoClients, Base, Listed, NEW p \in Procs, Step(p), InSession(p)'
  PROVE  SharedIn(Left(p)', mem'[p].list)
<1>. USE DEF At, Fields
<1>1. ASSUME ~InSession(p), Free(Indexes), mem'[p].list = chunklist, UNCHANGED data
      PROVE  SharedIn(Left(p)', mem'[p].list)
  <2>1. \A q \in Procs : ~InSession(q)
    BY <1>1, OneSession
  <2>. QED
    BY <1>1, <2>1 DEF Listed, SharedIn, Left, data
<1>2. ASSUME InSession(p), UNCHANGED gens, mem'[p].list = mem[p].list,
             mem'[p].client = mem[p].client, mem'[p].removed = mem[p].removed
      PROVE  SharedIn(Left(p)', mem'[p].list)
  BY <1>2 DEF Listed, Left
<1>3. CASE mem[p].pc = "remove_unused" /\ Only(p, {"pc"}) /\ UNCHANGED data
  BY <1>2, <1>3 DEF Only, data, InSession, SessionSteps
<1>4. CASE CommitClient(p)
  <2>. DEFINE c == mem[p].client
  <2>1. /\ mem'[p].list = mem[p].list \cup mem[p].tokens /\ mem'[p].removed = {}
        /\ InSession(p) /\ mem[p].pc = "commit_client"
    BY <1>4, CommitClientEffect DEF Base, CommitClient, InSession, SessionSteps
  <2>2. Left(p)' = gens'
    BY <2>1 DEF Left
  <2>3. \A g \in gens' : g \in Left(p) \/ (mem[p].gen # 0 /\ g.client = c /\ g.chunks = mem[p].cur)
    BY <1>4 DEF CommitClient, CommittedGens, Left
  <2>4. ASSUME NEW g \in Left(p), NEW h \in Left(p), g.client # h.client
        PROVE  g.chunks \cap h.chunks \subseteq mem'[p].list
    BY <2>1, <2>4 DEF Listed, SharedIn
  <2>5. ASSUME mem[p].gen # 0, NEW h \in Left(p), h.client # c, NEW id \in mem[p].cur \cap h.chunks
        PROVE  id \in mem'[p].list
    <3>1. CASE id \in mem[p].tokens
      BY <2>1, <3>1
    <3>2. CASE id \notin mem[p].tokens
      <4>1. PICK g \in Own(c) : id \in g.chunks
        BY <2>1, <2>5, <3>2 DEF Listed, Chunks
      <4>2. g \in Left(p) /\ g.client = c
        BY <2>1, <2>5, BaseOf DEF MemoryOf, Own, Left
      <4>. QED
        BY <2>1, <2>4, <2>5, <4>1, <4>2
    <3>. QED
      BY <3>1, <3>2
  <2>. QED
    BY <2>2, <2>3, <2>4, <2>5 DEF SharedIn
<1>5. CASE UnlockClient(p)
  <2>1. Only(p, {"pc", "gen", "cur", "unused"})
    BY <1>5, UnlockClientEffect DEF Base
  <2>. QED
    BY <1>2, <1>5, <2>1 DEF UnlockClient, Only, InSession, SessionSteps
<1>6. CASE CommitChunklist(p) \/ CommitChunksums(p)
  <2>1. Only(p, {"pc"})
    BY <1>6, GotoEffect DEF Base, CommitChunklist, CommitChunksums, Steps
  <2>. QED
    BY <1>2, <1>6, <2>1 DEF CommitChunklist, CommitChunksums, Only, InSession, SessionSteps
<1>7. ASSUME NEW nums \in SUBSET (1..MaxGens), Removes(p, nums)
      PROVE  SharedIn(Left(p)', mem'[p].list)
  <2>. DEFINE c == mem[p].client
  <2>1. /\ mem'[p].list = mem[p].list \ Gone(p, nums) /\ mem'[p].removed = nums
        /\ Only(p, {"pc", "removed", "list", "sums", "unused", "checkpoints"})
    BY <1>7, RemoveGenerationsEffect DEF Base, Removes
  <2>2. InSession(p) /\ UNCHANGED gens /\ c \in Clients /\ mem'[p].client = c /\ mem[p].removed = {}
    BY <1>7, <2>1, TypesOf, BaseOf DEF Base, Removes, data, InSession, SessionSteps, MemoryOf, Only
  <2>3. ASSUME NEW g \in Left(p)', NEW h \in Left(p)', g.client = c, h.client # c
        PROVE  g.chunks \cap h.chunks \subseteq mem'[p].list
    <3>1. g \in Kept(p, nums)
      BY <2>1, <2>2, <2>3 DEF Left, Kept, Own
    <3>2. g.chunks \cap Gone(p, nums) = {}
      BY <3>1 DEF Gone, Chunks
    <3>3. g.chunks \cap h.chunks \subseteq mem[p].list
      BY <2>2, <2>3 DEF Left, Listed, SharedIn
    <3>. QED
      BY <2>1, <3>2, <3>3
  <2>4. \A g \in Left(p)' : g.client \in Clients
    BY <2>2 DEF Left, Base, Types, TypeOK, Generations
  <2>. QED
    BY <2>2, <2>3, <2>4 DEF SharedIn, AtMostTwoClients
<1>8. ASSUME NEW id \in Ids, RemoveUnused(p, id), id \in store
      PROVE  SharedIn(Left(p)', mem'[p].list)
  <2>1. Only(p, {"unused"})
    BY <1>8, RemoveUnusedEffect DEF Base
  <2>. QED
    BY <1>2, <1>8, <2>1 DEF RemoveUnused, Only, InSession, SessionSteps
<1>. QED
  BY <1>1, <1>3, <1>4, <1>5, <1>6, <1>7, <1>8, SessionMoves


(* A commit of a generation comes from work on it; one of a removal has no *)
(* generation.                                                             *)
LEMMA ToCommit ==
  ASSUME Base, NEW p \in Procs, Step(p), mem'[p].pc = "commit_client"
  PROVE  \/ mem'[p].cur = {}
         \/ /\ mem[p].pc = "backing_up" /\ UNCHANGED gens
            /\ mem'[p].client = mem[p].client
            /\ mem'[p].cur = mem[p].cur /\ mem'[p].tokens = mem[p].tokens
<1>. USE DEF At, Fields
<1>1. CASE CommitClient(p) \/ UnlockClient(p)
  BY <1>1, CommitClientEffect, UnlockClientEffect DEF Base
<1>2. CASE CommitChunklist(p) \/ CommitChunksums(p)
  BY <1>2, GotoEffect DEF Base, CommitChunklist, CommitChunksums, Steps
<1>3. ASSUME NEW nums \in SUBSET (1..MaxGens), Removes(p, nums) PROVE mem'[p].cur = {}
  <2>1. mem[p].cur = {}
    BY <1>3, BaseOf DEF Removes, MemoryOf
  <2>. QED
    BY <1>3, <2>1, RemoveGenerationsEffect DEF Base, Removes, Only
<1>4. ASSUME NEW id \in Ids, RemoveUnused(p, id), id \in store PROVE FALSE
  <2>1. mem'[p].pc = mem[p].pc
    BY <1>4, RemoveUnusedEffect DEF Base, Only
  <2>. QED
    BY <1>4, <2>1 DEF RemoveUnused
<1>. QED
  BY <1>1, <1>2, <1>3, <1>4, SessionMoves DEF InSession, SessionSteps, data

LEMMA ListedWork ==
  ASSUME "never" \notin Modes, Base, Listed, NEW p \in Procs, Step(p), Base',
         NEW q \in Procs, mem'[q].pc \in {"backing_up", "commit_client"}
  PROVE  mem'[q].cur \ mem'[q].tokens \subseteq Chunks(Own(mem[q].client))'
<1>. USE DEF At, Fields
<1>1. CASE q # p
  <2>1. mem'[q] = mem[q]
    BY <1>1, OthersSessions
  <2>2. \A g \in gens : g.client = mem[q].client => g \in gens'
    <3>1. CASE UNCHANGED gens
      BY <3>1
    <3>2. CASE CommitClient(p)
      <4>1. Holds(p, mem[p].client) /\ Holds(q, mem[q].client)
        BY <2>1, <3>2, BaseOf DEF CommitClient, DisciplineOf, OwnSteps
      <4>2. mem[p].client # mem[q].client
        BY <1>1, <4>1, OneHolder
      <4>. QED
        BY <3>2, <4>2 DEF CommitClient, CommittedGens
    <3>. QED
      BY <3>1, <3>2, Writes
  <2>3. Chunks(Own(mem[q].client)) \subseteq Chunks(Own(mem[q].client))'
    BY <2>1, <2>2 DEF Chunks, Own
  <2>. QED
    BY <2>1, <2>3 DEF Listed
<1>2. CASE q = p
  <2>1. ASSUME mem[p].pc \in {"backing_up", "commit_client"}, UNCHANGED gens,
               mem'[p].client = mem[p].client,
               mem'[p].cur \ mem'[p].tokens \subseteq mem[p].cur \ mem[p].tokens
        PROVE  mem'[p].cur \ mem'[p].tokens \subseteq Chunks(Own(mem[p].client))'
    <3>1. Chunks(Own(mem[p].client))' = Chunks(Own(mem[p].client))
      BY <2>1 DEF Chunks, Own
    <3>. QED
      BY <2>1, <3>1 DEF Listed
  <2>2. CASE CreateGeneration(p)
    <3>1. mem'[p].cur = NewestTree(mem[p].client) /\ mem'[p].client = mem[p].client /\ UNCHANGED gens
      BY <2>2, CreateGenerationEffect DEF Base, Only, CreateGeneration, disk
    <3>. QED
      BY <1>2, <3>1 DEF NewestTree, Chunks, Own
  <2>3. ASSUME NEW id \in Ids, UseChunk(p, id, TRUE), mem[p].pc = "backing_up", UNCHANGED gens
        PROVE  mem'[p].cur \ mem'[p].tokens \subseteq Chunks(Own(mem[p].client))'
    <3>1. /\ mem'[p].cur = mem[p].cur \cup {id} /\ mem'[p].tokens = mem[p].tokens \cup {id}
          /\ mem'[p].client = mem[p].client
      <4>1. /\ Only(p, {"cur", "saved", "tokens", "snap", "opened"})
            /\ mem'[p].cur = mem[p].cur \cup {id} /\ mem'[p].tokens = mem[p].tokens \cup {id}
        BY <2>3, UseChunkEffect DEF Base
      <4>. QED
        BY <4>1 DEF Only
    <3>. QED
      BY <2>1, <2>3, <3>1
  <2>4. ASSUME NEW id \in Ids, NEW shared \in BOOLEAN, Puts(p, id, shared)
        PROVE  mem'[p].cur \ mem'[p].tokens \subseteq Chunks(Own(mem[p].client))'
    <3>1. mem[p].mode # "never"
      BY BoundsAssumption DEF Base, Types, Memory
    <3>. QED
      BY <2>3, <2>4, <3>1 DEF Puts
  <2>5. ASSUME NEW id \in Ids, Reuses(p, id)
        PROVE  mem'[p].cur \ mem'[p].tokens \subseteq Chunks(Own(mem[p].client))'
    BY <2>3, <2>5 DEF Reuses, data
  <2>6. ASSUME NEW id \in Ids, DropChunk(p, id)
        PROVE  mem'[p].cur \ mem'[p].tokens \subseteq Chunks(Own(mem[p].client))'
    <3>1. mem'[p].cur = mem[p].cur \ {id} /\ mem'[p].client = mem[p].client /\ mem'[p].tokens = mem[p].tokens
      BY <2>6, DropChunkEffect DEF Base, Only
    <3>. QED
      BY <2>1, <2>6, <3>1 DEF DropChunk, disk
  <2>7. CASE mem'[p].pc = "backing_up"
    BY <1>2, <2>2, <2>4, <2>5, <2>6, <2>7, WorkMoves
  <2>8. CASE mem'[p].pc = "commit_client"
    <3>1. mem[p].pc = "backing_up" \/ mem'[p].cur = {}
      BY <2>8, ToCommit
    <3>2. CASE mem'[p].cur = {}
      BY <1>2, <3>2
    <3>3. CASE mem[p].pc = "backing_up"
      BY <1>2, <2>1, <2>8, <3>3, ToCommit
    <3>. QED
      BY <3>1, <3>2, <3>3
  <2>. QED
    BY <1>2, <2>7, <2>8
<1>. QED
  BY <1>1, <1>2

LEMMA ListedStep ==
  ASSUME AtMostTwoClients, MaxFaults = 0, "never" \notin Modes,
         Base, Listed, InSync, [Next]_vars, Base'
  PROVE  Listed'
<1>. USE DEF At
<1>1. ASSUME NEW p \in Procs, Step(p) PROVE Listed'
  <2>1. (\A q \in Procs : ~InSession(q)') => SharedIn(gens', chunklist')
    <3>. SUFFICES ASSUME \A q \in Procs : ~InSession(q)' PROVE SharedIn(gens', chunklist')
      OBVIOUS
    <3>1. \A q \in Procs : q # p => ~InSession(q)
      BY <1>1, OthersSessions DEF InSession
    <3>2. CASE ~InSession(p)
      BY <1>1, <3>1, <3>2, Writes DEF Listed, InSession, SessionSteps, CommitChunklist, CommitClient
    <3>3. CASE InSession(p)
      <4>1. /\ mem[p].pc \in {"remove_generations", "remove_unused", "commit_chunksums"}
            /\ UNCHANGED <<gens, chunklist>>
        BY <1>1, <3>3, SessionLeaves DEF data, CommitChunksums
      <4>2. Left(p) = gens
        BY <4>1, BaseOf DEF MemoryOf, Left
      <4>. QED
        BY <3>3, <4>1, <4>2 DEF Listed, InSync
    <3>. QED
      BY <3>2, <3>3
  <2>2. ASSUME NEW q \in Procs, InSession(q)' PROVE SharedIn(Left(q)', mem'[q].list)
    <3>1. CASE q = p
      BY <1>1, <2>2, <3>1, ListedSession
    <3>2. CASE q # p
      <4>1. mem'[q] = mem[q] /\ InSession(q) /\ UNCHANGED gens
        BY <1>1, <2>2, <3>2, OthersSessions DEF InSession
      <4>. QED
        BY <4>1 DEF Listed, Left
    <3>. QED
      BY <3>1, <3>2
  <2>3. \A q \in Procs : mem'[q].pc \in {"backing_up", "commit_client"} =>
          mem'[q].cur \ mem'[q].tokens \subseteq Chunks(Own(mem[q].client))'
    BY <1>1, ListedWork
  <2>. QED
    BY <2>1, <2>2, <2>3 DEF Listed
<1>2. CASE Rests
  BY <1>2 DEF Rests, data, Listed, InSession, Left, Chunks, Own, SharedIn
<1>. QED
  BY <1>1, <1>2, Kinds DEF Base

(* In a repository of two clients that read the chunks they find, nothing  *)
(* is lost if nothing is interrupted, although a removal takes chunks out  *)
(* of the chunklist that the other client uses.                            *)
THEOREM TwoClientsLoseNothing ==
  ASSUME AtMostTwoClients, MaxFaults = 0, Modes \subseteq {"verify"}
  PROVE  Spec => [](NoDangling /\ WorkIsBacked)
<1>1. Init => Recorded /\ Listed /\ InSync
  <2>1. Init => \A p \in Procs : mem[p] = Idle
    BY DEF Init
  <2>2. Init => Recorded
    BY <2>1 DEF Init, Recorded, UsesAreRecorded, Idle, InSession, SessionSteps, At
  <2>3. Init => Listed /\ InSync
    BY <2>1 DEF Init, Listed, InSync, SharedIn, Idle, InSession, SessionSteps
  <2>. QED
    BY <2>2, <2>3
<1>2. Base /\ Recorded /\ Listed => SharedKnown
  <2>. SUFFICES ASSUME Base, Recorded, Listed,
                       NEW p \in Procs, At(p, "remove_generations"),
                       NEW g \in Own(mem[p].client), NEW h \in gens, h.client # mem[p].client,
                       NEW id \in g.chunks \cap h.chunks
                PROVE  id \in mem[p].list /\ <<id, h.client>> \in mem[p].sums
    BY DEF SharedKnown
  <2>1. InSession(p) /\ Left(p) = gens
    BY BaseOf DEF MemoryOf, Left, InSession, SessionSteps, At
  <2>2. g \in gens /\ g.client # h.client
    BY DEF Own
  <2>3. id \in mem[p].list
    BY <2>1, <2>2 DEF Listed, SharedIn
  <2>4. SumsOf(h.client, h.chunks) \subseteq mem[p].sums
    BY <2>1 DEF Recorded
  <2>. QED
    BY <2>3, <2>4 DEF SumsOf
<1>3. /\ Base /\ Backed /\ Chosen /\ Recorded /\ Listed /\ InSync /\ [Next]_vars
      => Base' /\ Backed' /\ Chosen' /\ Recorded' /\ Listed' /\ InSync'
  <2>1. "never" \notin Modes /\ "fatalist" \notin Modes
    OBVIOUS
  <2>2. Base /\ Chosen => Findable
    BY <2>1, ReadIsFindable
  <2>. QED
    BY <1>2, <2>1, <2>2, BaseStep, BackedStep, ChosenStep, RecordedStep, ListedStep, InSyncStep
<1>4. Backed => NoDangling /\ WorkIsBacked
  BY DEF Backed
<1>. QED
  BY <1>1, <1>3, <1>4, BackedInit, PTL DEF Spec
=============================================================================
