--------------------------- MODULE GreenAlbatross ---------------------------
(***************************************************************************)
(* The repository format Green Albatross (fmt_ga) with its delegator       *)
(* (delegator.py), bags and blobs (bag_store.py, blob_store.py), used by   *)
(* several processes at once.  A process runs obnam commands: a backup     *)
(* (plugins/backup_plugin.py), forget (plugins/forget_plugin.py),          *)
(* remove-client (plugins/encryption_plugin.py) or force-lock.  Every call *)
(* of the repository interface is one step; a process can die between any  *)
(* two of them.                                                            *)
(*                                                                         *)
(* Each part of the repository has a root on disk, one file that is        *)
(* replaced as a whole, and a copy in the memory of each process that has  *)
(* loaded it, with or without a lock.  The data of a client is abstracted  *)
(* to the chunks of its generations; how files make up a generation is the *)
(* subject of GAClient.                                                    *)
(***************************************************************************)
EXTENDS CowTree

CONSTANTS
  Procs,       \* processes
  Names,       \* names of clients
  Dirs,        \* numbers of client directories
  Contents,    \* contents of chunks, which are their own checksums
  Bags,        \* identifiers of bags in the chunk store
  BagSize,     \* chunks that fill a bag
  MaxGens,     \* bound: generations of a client
  MaxRuns,     \* bound: commands run
  MaxFaults    \* bound: processes that die

CONSTANTS Nobody, Dead, None, NotLoaded

ListPart == "client-list"
IndexPart == "chunk-indexes"
Parts == {ListPart, IndexPart} \cup Dirs

ASSUME GreenAlbatrossAssumption ==
  /\ Contents \subseteq Nat /\ Bags \subseteq Nat /\ BagSize \in Nat \ {0}
  /\ ListPart \notin Dirs /\ IndexPart \notin Dirs

(* A chunk is named by its bag and its place in the bag.                   *)
(* Faulty variant: the place is not counted from zero.                     *)
CountedFromOne(b, i) == b * BagSize + i
make_object_id(b, i) == b * BagSize + (i - 1)
ChunkIds == {make_object_id(b, i) : b \in Bags, i \in 1 .. BagSize}
BagOf(chunk) == chunk \div BagSize
PlaceOf(chunk) == (chunk % BagSize) + 1

(* None is no directory, no bag and no list of contents, chunks or names;  *)
(* NotLoaded is no data of a client, and no client list; nobody and a dead *)
(* process are none of the processes.                                      *)
ASSUME NoneAssumption ==
  /\ None \notin Dirs
  /\ None \notin Seq(Contents) \cup Seq(ChunkIds) \cup Seq(Names)
  /\ None \notin [id : Bags, blobs : Seq(Contents)]
  /\ NotLoaded \notin Seq(SUBSET ChunkIds) \cup UNION {[S -> Dirs] : S \in SUBSET Names}

ASSUME HolderAssumption == Nobody \notin Procs /\ Dead \notin Procs

VARIABLES
  locks,      \* on disk: the parts with a lock file
  made,       \* on disk: the client directories
  listRoot,   \* on disk: the client list, name -> directory
  clientRoot, \* on disk: for each client, the chunks of each generation
  indexRoot,  \* on disk: the three trees of the chunk indexes
  bags,       \* on disk: the chunk store, identifier -> contents of a bag
  mem,        \* the memory of each process
  promised,   \* the uses committed to the indexes, for the properties
  runs, faults

disk == <<locks, made, listRoot, clientRoot, indexRoot, bags>>
vars == <<disk, mem, promised, runs, faults>>

(* Trees that are empty, and that have not been read.                      *)
Unread == << >>
NoTrees == [by_chunk_id |-> EmptyTree, by_checksum |-> EmptyTree, used_by |-> EmptyTree]

(* The memory of a process: where it is in its command, the client it is   *)
(* run for, the parts it has locked, what it has loaded, the bag that is   *)
(* being filled, the backup's map of chunks and tokens, the chunks no      *)
(* remaining generation uses, and the uses put into the indexes.           *)
Idle == [pc |-> "idle", command |-> None, client |-> None, held |-> {},
         names |-> NotLoaded, finder |-> None, data |-> NotLoaded, trees |-> Unread,
         bag |-> None, tokens |-> {}, unused |-> {}, promising |-> {}]

Init ==
  /\ locks = {} /\ made = {}
  /\ listRoot = << >>
  /\ clientRoot = [d \in Dirs |-> << >>]
  /\ indexRoot = NoTrees
  /\ bags = [b \in Bags |-> None]
  /\ mem = [p \in Procs |-> Idle]
  /\ promised = {}
  /\ runs = 0 /\ faults = 0

At(p, pc) == mem[p].pc = pc

(* A lock file can be made only where there is none.                       *)
(* Faulty variant: it is made over the one that is there.                  *)
Overwritten(part) == TRUE
Free(part) == part \notin locks

(* What is in memory, loaded when it is first needed.                      *)
Listed(p) == IF mem[p].names = NotLoaded THEN listRoot ELSE mem[p].names
Data(p)   == IF mem[p].data = NotLoaded THEN clientRoot[mem[p].finder] ELSE mem[p].data
Trees(p)  == IF mem[p].trees = Unread THEN indexRoot ELSE mem[p].trees

-----------------------------------------------------------------------------
(* The client list.  Locking and unlocking a part clears what is in memory *)
(* of it.                                                                  *)

lock_client_list(p, n, command) ==
  /\ At(p, "idle") /\ runs < MaxRuns
  /\ Free(ListPart)
  /\ locks' = locks \cup {ListPart}
  /\ mem' = [mem EXCEPT ![p] = [Idle EXCEPT !.pc = command, !.command = command, !.client = n,
                                            !.held = {ListPart}]]
  /\ runs' = runs + 1
  /\ UNCHANGED <<made, listRoot, clientRoot, indexRoot, bags, promised, faults>>

(* The list with one more name.                                            *)
WithName(list, n, d) == [x \in DOMAIN list \cup {n} |-> IF x = n THEN d ELSE list[x]]

(* The number of a new client's directory is drawn at random from so many  *)
(* that it is taken to be new.                                             *)
add_client(p) ==
  /\ At(p, "backup")
  /\ IF mem[p].client \in DOMAIN Listed(p)
     THEN /\ mem' = [mem EXCEPT ![p].pc = "list changed", ![p].names = Listed(p)]
          /\ UNCHANGED made
     ELSE \E d \in Dirs \ made :
            /\ made' = made \cup {d}
            /\ mem' = [mem EXCEPT ![p].pc = "list changed",
                                  ![p].names = WithName(Listed(p), mem[p].client, d)]
  /\ UNCHANGED <<locks, listRoot, clientRoot, indexRoot, bags, promised, runs, faults>>

(* The rest of the list.  Faulty variant: the name stays in it.            *)
AllNames(p) == Listed(p)
Others(p) == Restricted(Listed(p), DOMAIN Listed(p) \ {mem[p].client})

remove_client(p) ==
  /\ At(p, "remove-client")
  /\ mem[p].client \in DOMAIN Listed(p)
  /\ mem' = [mem EXCEPT ![p].pc = "list changed", ![p].names = Others(p)]
  /\ UNCHANGED <<disk, promised, runs, faults>>

rename_client(p, new) ==
  /\ At(p, "remove-client")
  /\ mem[p].client \in DOMAIN Listed(p) /\ new \notin DOMAIN Listed(p)
  /\ mem' = [mem EXCEPT ![p].pc = "list changed",
                        ![p].names = WithName(Others(p), new, Listed(p)[mem[p].client])]
  /\ UNCHANGED <<disk, promised, runs, faults>>

commit_client_list(p) ==
  /\ At(p, "list changed")
  /\ listRoot' = Listed(p)
  /\ mem' = [mem EXCEPT ![p].pc = "list committed"]
  /\ UNCHANGED <<locks, made, clientRoot, indexRoot, bags, promised, runs, faults>>

unlock_client_list(p) ==
  /\ At(p, "list committed")
  /\ locks' = locks \ {ListPart}
  /\ mem' = [mem EXCEPT ![p].pc = IF mem[p].command = "backup" THEN "find" ELSE "exit",
                        ![p].held = {}, ![p].names = NotLoaded]
  /\ UNCHANGED <<made, listRoot, clientRoot, indexRoot, bags, promised, runs, faults>>

-----------------------------------------------------------------------------
(* A client.                                                               *)

(* The client's directory is found in the list as it is now; the list is   *)
(* not locked, and another process can change it before the client is.     *)
(* After a checkpoint this is in a repository that has been opened anew,   *)
(* which reads the indexes as they are.                                    *)
find_client(p) ==
  /\ At(p, "find")
  /\ mem' = [mem EXCEPT
               ![p].names = Listed(p),
               ![p].trees = IF mem[p].command = "continue" THEN indexRoot ELSE @,
               ![p].pc = IF mem[p].client \in DOMAIN Listed(p) THEN "found" ELSE "exit",
               ![p].finder = IF mem[p].client \in DOMAIN Listed(p)
                             THEN Listed(p)[mem[p].client] ELSE None]
  /\ UNCHANGED <<disk, promised, runs, faults>>

lock_client(p) ==
  /\ At(p, "found")
  /\ Free(mem[p].finder)
  /\ locks' = locks \cup {mem[p].finder}
  /\ mem' = [mem EXCEPT ![p].pc = IF mem[p].command = "backup" THEN "initialise" ELSE "create",
                        ![p].held = {mem[p].finder}, ![p].data = NotLoaded]
  /\ UNCHANGED <<made, listRoot, clientRoot, indexRoot, bags, promised, runs, faults>>

create_generation(p) ==
  LET old == Data(p)
  IN  /\ At(p, "create")
      /\ Len(old) < MaxGens
      /\ mem' = [mem EXCEPT ![p].pc = "walk",
                            ![p].data = Append(old, IF old = << >> THEN {} ELSE Last(old))]
      /\ UNCHANGED <<disk, promised, runs, faults>>

find_chunk_ids_by_token(trees, token) ==
  LET found == lookup(trees.by_checksum, token, None)
  IN  IF found = None THEN {} ELSE ToSet(found)

FoundChunks(p, token) ==
  find_chunk_ids_by_token(Trees(p), token) \cup {t[1] : t \in {u \in mem[p].tokens : u[2] = token}}

(* A chunk of the file being backed up, in memory.                         *)
append_file_chunk_id(m, chunk, token) ==
  [m EXCEPT !.data[Len(m.data)] = @ \cup {chunk}, !.tokens = @ \cup {<<chunk, token>>}]

use_chunk(p, chunk, token) ==
  /\ At(p, "walk")
  /\ chunk \in FoundChunks(p, token)
  /\ mem' = [mem EXCEPT ![p] = append_file_chunk_id([@ EXCEPT !.trees = Trees(p)], chunk, token)]
  /\ UNCHANGED <<disk, promised, runs, faults>>

(* A new chunk goes into the bag that is being filled, or into a new one.  *)
(* The identifier of a new bag is reserved by creating its file, empty;    *)
(* where a file exists another identifier is tried.  A full bag is written.*)
(* Faulty variant: it may be the identifier of a bag.                      *)
AnyBag(b) == TRUE
reserve_succeeds(b) == bags[b] = None

put_chunk_content(p, content) ==
  /\ At(p, "walk")
  /\ FoundChunks(p, content) = {}
  /\ \E b \in Bags :
       /\ IF mem[p].bag = None THEN reserve_succeeds(b) ELSE b = mem[p].bag.id
       /\ LET blobs == Append(IF mem[p].bag = None THEN << >> ELSE mem[p].bag.blobs, content)
              full == Len(blobs) >= BagSize
          IN  /\ bags' = [bags EXCEPT ![b] = IF full THEN blobs ELSE << >>]
              /\ mem' = [mem EXCEPT ![p] =
                           append_file_chunk_id(
                             [@ EXCEPT !.trees = Trees(p),
                                       !.bag = IF full THEN None ELSE [id |-> b, blobs |-> blobs]],
                             make_object_id(b, Len(blobs)), content)]
  /\ UNCHANGED <<locks, made, listRoot, clientRoot, indexRoot, promised, runs, faults>>

(* Faulty variant: the bag is dropped.                                     *)
NotFlushed(p) ==
  /\ At(p, "share") /\ mem[p].tokens = {}
  /\ mem' = [mem EXCEPT ![p].pc = "commit", ![p].bag = None]
  /\ UNCHANGED <<disk, promised, runs, faults>>

flush_chunks(p) ==
  /\ At(p, "share") /\ mem[p].tokens = {}
  /\ bags' = IF mem[p].bag = None THEN bags
             ELSE [bags EXCEPT ![mem[p].bag.id] = mem[p].bag.blobs]
  /\ mem' = [mem EXCEPT ![p].pc = "commit", ![p].bag = None]
  /\ UNCHANGED <<locks, made, listRoot, clientRoot, indexRoot, promised, runs, faults>>

(* The client's root is replaced.  A backup then unlocks the client before *)
(* it commits the indexes.                                                 *)
commit_client(p) ==
  /\ At(p, "commit") /\ mem[p].unused = {}
  /\ clientRoot' = [clientRoot EXCEPT ![mem[p].finder] = Data(p)]
  /\ mem' = [mem EXCEPT ![p].data = Data(p),
                        ![p].pc = IF mem[p].command = "forget" THEN "commit indexes"
                                  ELSE "unlock client"]
  /\ UNCHANGED <<locks, made, listRoot, indexRoot, bags, promised, runs, faults>>

unlock_client(p) ==
  /\ At(p, "unlock client")
  /\ locks' = locks \ {mem[p].finder}
  /\ mem' = [mem EXCEPT ![p].pc = "commit indexes", ![p].held = @ \ {mem[p].finder},
                        ![p].data = NotLoaded]
  /\ UNCHANGED <<made, listRoot, clientRoot, indexRoot, bags, promised, runs, faults>>

-----------------------------------------------------------------------------
(* The chunk indexes.                                                      *)

(* At the end of the walk, and once before it, to initialise the indexes.  *)
lock_chunk_indexes(p) ==
  /\ mem[p].pc \in {"initialise", "walk"}
  /\ Free(IndexPart)
  /\ locks' = locks \cup {IndexPart}
  /\ mem' = [mem EXCEPT ![p].pc = IF @ = "walk" THEN "share" ELSE "initialised",
                        ![p].held = @ \cup {IndexPart},
                        ![p].trees = Unread, ![p].promising = promised]
  /\ UNCHANGED <<made, listRoot, clientRoot, indexRoot, bags, promised, runs, faults>>

(* A list that is found in a tree is extended where it is.                 *)
WithElement(list, x) ==
  IF list = None THEN << x >> ELSE IF x \in ToSet(list) THEN list ELSE Append(list, x)

IndexesWith(trees, chunk, token, n) ==
  [by_chunk_id |-> insert(trees.by_chunk_id, chunk, token),
   by_checksum |-> insert(trees.by_checksum, token,
                          WithElement(lookup(trees.by_checksum, token, None), chunk)),
   used_by     |-> insert(trees.used_by, chunk,
                          WithElement(lookup(trees.used_by, chunk, None), n))]

put_chunk_into_indexes(p, chunk, token) ==
  /\ At(p, "share")
  /\ <<chunk, token>> \in mem[p].tokens
  /\ mem' = [mem EXCEPT ![p].trees = IndexesWith(Trees(p), chunk, token, mem[p].client),
                        ![p].tokens = @ \ {<<chunk, token>>},
                        ![p].promising = @ \cup {<<chunk, token, mem[p].client>>}]
  /\ UNCHANGED <<disk, promised, runs, faults>>

(* A chunk stays in the indexes while some client is listed as its user; a *)
(* client that is not listed counts as the last one.                       *)
WithoutElement(list, x) == RemoveAt(list, CHOOSE i \in DOMAIN list : list[i] = x)

IndexesWithout(trees, chunk, n) ==
  LET users == lookup(trees.used_by, chunk, None)
      listed == users # None /\ n \in ToSet(users)
      token == lookup(trees.by_chunk_id, chunk, None)
      chunks == IF token = None THEN None ELSE lookup(trees.by_checksum, token, None)
      others == IF listed THEN WithoutElement(users, n) ELSE << >>
      unlisted == IF listed THEN insert(trees.used_by, chunk, others) ELSE trees.used_by
  IN  [trees EXCEPT
         !.used_by = unlisted,
         !.by_chunk_id = IF others # << >> \/ token = None THEN @ ELSE insert(@, chunk, None),
         !.by_checksum = IF others # << >> \/ chunks = None \/ chunk \notin ToSet(chunks) THEN @
                         ELSE insert(@, token, WithoutElement(chunks, chunk))]

remove_chunk_from_indexes(p, chunk) ==
  /\ At(p, "commit")
  /\ chunk \in mem[p].unused
  /\ mem' = [mem EXCEPT ![p].trees = IndexesWithout(Trees(p), chunk, mem[p].client),
                        ![p].unused = @ \ {chunk},
                        ![p].promising = {u \in @ : u[1] # chunk \/ u[3] # mem[p].client}]
  /\ UNCHANGED <<disk, promised, runs, faults>>

commit_chunk_indexes(p) ==
  /\ At(p, "commit indexes")
  /\ indexRoot' = [t \in DOMAIN indexRoot |-> commit(Trees(p)[t])]
  /\ promised' = mem[p].promising
  /\ mem' = [mem EXCEPT ![p].trees = Trees(p),
                        ![p].pc = IF mem[p].command = "forget" THEN "choose" ELSE "unlock indexes"]
  /\ UNCHANGED <<locks, made, listRoot, clientRoot, bags, runs, faults>>

unlock_initialised_indexes(p) ==
  /\ At(p, "initialised")
  /\ locks' = locks \ {IndexPart}
  /\ mem' = [mem EXCEPT ![p].pc = "create", ![p].held = @ \ {IndexPart},
                        ![p].trees = Unread, ![p].promising = {}]
  /\ UNCHANGED <<made, listRoot, clientRoot, indexRoot, bags, promised, runs, faults>>

(* The backup is finished, or this was a checkpoint: then the repository   *)
(* is opened anew and the client is locked again for the next generation.  *)
unlock_chunk_indexes(p) ==
  /\ At(p, "unlock indexes")
  /\ locks' = locks \ {IndexPart}
  /\ \E continues \in BOOLEAN :
       mem' = [mem EXCEPT ![p] =
                 [Idle EXCEPT !.pc = IF continues THEN "find" ELSE "exit",
                              !.command = "continue", !.client = mem[p].client]]
  /\ UNCHANGED <<made, listRoot, clientRoot, indexRoot, bags, promised, runs, faults>>

-----------------------------------------------------------------------------
(* forget locks everything, removes generations of its client one by one   *)
(* and commits after each, and unlocks everything.                         *)

ListedDirs(p) == {Listed(p)[n] : n \in DOMAIN Listed(p)}

(* The part lock_everything locks next, after the client list: the clients *)
(* in any order, then the indexes.                                         *)
NextParts(p) ==
  IF ListedDirs(p) \subseteq mem[p].held THEN {IndexPart} ELSE ListedDirs(p) \ mem[p].held

lock_next(p) ==
  /\ At(p, "forget")
  /\ \E part \in NextParts(p) :
       /\ Free(part)
       /\ locks' = locks \cup {part}
       /\ mem' = [mem EXCEPT ![p].names = Listed(p), ![p].held = @ \cup {part},
                             ![p].pc = IF part = IndexPart THEN "choose" ELSE "forget",
                             ![p].promising = IF part = IndexPart THEN promised ELSE {},
                             ![p].finder = IF mem[p].client \in DOMAIN Listed(p)
                                           THEN Listed(p)[mem[p].client] ELSE None]
  /\ UNCHANGED <<made, listRoot, clientRoot, indexRoot, bags, promised, runs, faults>>

AllChunks(generations) == UNION ToSet(generations)

remove_generation(p) ==
  /\ At(p, "choose") /\ mem[p].finder # None
  /\ \E i \in DOMAIN Data(p) :
       LET remaining == RemoveAt(Data(p), i)
       IN  mem' = [mem EXCEPT ![p].pc = "commit", ![p].data = remaining,
                              ![p].unused = Data(p)[i] \ AllChunks(remaining)]
  /\ UNCHANGED <<disk, promised, runs, faults>>

(* unlock_everything: the client list first, which is then read again for  *)
(* the names of the clients to unlock, then those, then the indexes.       *)
unlock_everything(p) ==
  /\ At(p, "choose") /\ mem[p].finder # None
  /\ locks' = locks \ {ListPart}
  /\ mem' = [mem EXCEPT ![p].pc = "unlock clients", ![p].held = @ \ {ListPart},
                        ![p].names = NotLoaded]
  /\ UNCHANGED <<made, listRoot, clientRoot, indexRoot, bags, promised, runs, faults>>

unlock_next(p) ==
  /\ At(p, "unlock clients")
  /\ LET mine == ListedDirs(p) \cap mem[p].held
     IN  \E part \in IF mine = {} THEN {IndexPart} ELSE mine :
           /\ locks' = locks \ {part}
           /\ mem' = [mem EXCEPT ![p].names = Listed(p), ![p].held = @ \ {part},
                                 ![p].pc = IF part = IndexPart THEN "exit" ELSE @]
  /\ UNCHANGED <<made, listRoot, clientRoot, indexRoot, bags, promised, runs, faults>>

-----------------------------------------------------------------------------
(* Errors.                                                                 *)

(* Where a command meets a lock it cannot get, or a client that is not     *)
(* there: the start of a backup, remove-client, and forget once it has     *)
(* locked everything, have no handler and end with the locks they have;    *)
(* the walk of a backup and lock_everything unlock what they have locked.  *)
call_fails(p) ==
  /\ \/ At(p, "found") /\ mem[p].finder \in locks
     \/ At(p, "initialise") /\ IndexPart \in locks
     \/ At(p, "remove-client") /\ mem[p].client \notin DOMAIN Listed(p)
     \/ At(p, "choose") /\ mem[p].finder = None
     \/ At(p, "walk") /\ IndexPart \in locks
     \/ At(p, "forget") /\ NextParts(p) \cap locks # {}
  /\ mem' = [mem EXCEPT ![p].pc = IF mem[p].pc \in {"walk", "forget"} THEN "give up" ELSE "exit"]
  /\ UNCHANGED <<disk, promised, runs, faults>>

(* Any other error during the walk of a backup.                            *)
walk_fails(p) ==
  /\ At(p, "walk") /\ faults < MaxFaults
  /\ faults' = faults + 1
  /\ mem' = [mem EXCEPT ![p].pc = "give up"]
  /\ UNCHANGED <<disk, promised, runs>>

give_up(p) ==
  /\ At(p, "give up")
  /\ IF mem[p].held = {}
     THEN /\ mem' = [mem EXCEPT ![p].pc = "exit"]
          /\ UNCHANGED locks
     ELSE \E part \in IF ListPart \in mem[p].held THEN {ListPart} ELSE mem[p].held :
            /\ locks' = locks \ {part}
            /\ mem' = [mem EXCEPT ![p].held = @ \ {part}]
  /\ UNCHANGED <<made, listRoot, clientRoot, indexRoot, bags, promised, runs, faults>>

(* The process ends; lock files it has not removed stay.                   *)
exit(p) ==
  /\ At(p, "exit")
  /\ mem' = [mem EXCEPT ![p] = Idle]
  /\ UNCHANGED <<disk, promised, runs, faults>>

crash(p) ==
  /\ mem[p].pc \notin {"idle", "exit"} /\ faults < MaxFaults
  /\ faults' = faults + 1
  /\ mem' = [mem EXCEPT ![p] = Idle]
  /\ UNCHANGED <<disk, promised, runs>>

(* force-lock, which is for locks whose process is dead.                   *)
Abandoned(part) == part \in locks /\ \A p \in Procs : part \notin mem[p].held

force_lock(part) ==
  /\ Abandoned(part)
  /\ part \in {ListPart, IndexPart} \cup {listRoot[n] : n \in DOMAIN listRoot}
  /\ locks' = locks \ {part}
  /\ UNCHANGED <<made, listRoot, clientRoot, indexRoot, bags, mem, promised, runs, faults>>

-----------------------------------------------------------------------------
Backup(p) ==
  \/ add_client(p)
  \/ find_client(p) \/ lock_client(p) \/ unlock_initialised_indexes(p) \/ create_generation(p)
  \/ \E c \in Contents : put_chunk_content(p, c) \/ \E chunk \in ChunkIds : use_chunk(p, chunk, c)
  \/ lock_chunk_indexes(p)
  \/ \E t \in mem[p].tokens : put_chunk_into_indexes(p, t[1], t[2])
  \/ flush_chunks(p) \/ unlock_client(p) \/ unlock_chunk_indexes(p)
  \/ walk_fails(p)

Forget(p) ==
  \/ lock_next(p) \/ remove_generation(p)
  \/ \E chunk \in mem[p].unused : remove_chunk_from_indexes(p, chunk)
  \/ unlock_everything(p) \/ unlock_next(p)

ChangeList(p) == remove_client(p) \/ \E n \in Names : rename_client(p, n)

Next ==
  \/ \E p \in Procs, n \in Names, command \in {"backup", "forget", "remove-client"} :
       lock_client_list(p, n, command)
  \/ \E p \in Procs :
       \/ Backup(p) \/ Forget(p) \/ ChangeList(p)
       \/ commit_client_list(p) \/ unlock_client_list(p)
       \/ commit_client(p) \/ commit_chunk_indexes(p)
       \/ call_fails(p) \/ give_up(p) \/ exit(p) \/ crash(p)
  \/ \E part \in Parts : force_lock(part)

Spec == Init /\ [][Next]_vars

-----------------------------------------------------------------------------
(* The repository interface, as this format implements it.                 *)

Holder(part) ==
  IF part \notin locks THEN Nobody
  ELSE IF Abandoned(part) THEN Dead ELSE CHOOSE p \in Procs : part \in mem[p].held

Copy(p, part) ==
  CASE part = ListPart  -> Listed(p)
    [] part = IndexPart -> mem[p].promising
    [] part \in Dirs    -> IF part = mem[p].finder THEN Data(p) ELSE clientRoot[part]

Interface ==
  INSTANCE RepositoryInterface WITH
    Ids <- Dirs, Chunks <- ChunkIds, Tokens <- Contents,
    list <- listRoot, used <- made, gens <- clientRoot, index <- promised,
    holder <- [part \in Parts |-> Holder(part)],
    copies <- [p \in Procs |-> [part \in mem[p].held |-> Copy(p, part)]]

(* The format implements the interface: whoever locks a part works on what *)
(* was committed last, however old the copies are that processes had read  *)
(* before; only the holder of a lock changes a part; what is committed is  *)
(* what the holder has worked on, and an unlock or a crash forgets the     *)
(* rest.  (Of the indexes this says what is promised; see below for what   *)
(* they keep.)                                                             *)
ImplementsInterface == Interface!Spec

TypeOK ==
  /\ locks \subseteq Parts /\ made \subseteq Dirs
  /\ DOMAIN listRoot \subseteq Names /\ \A n \in DOMAIN listRoot : listRoot[n] \in made
  /\ \A d \in Dirs : ToSet(clientRoot[d]) \subseteq SUBSET ChunkIds
  /\ \A b \in Bags : bags[b] = None \/ ToSet(bags[b]) \subseteq Contents
  /\ \A p \in Procs : mem[p].held \subseteq locks
  /\ \A p, q \in Procs : p # q => mem[p].held \cap mem[q].held = {}

Stored(chunk) ==
  LET b == bags[BagOf(chunk)] IN b # None /\ PlaceOf(chunk) \in DOMAIN b

(* Chunks are written before anything that refers to them is committed, so *)
(* that a process that dies leaves no generation and no index entry whose  *)
(* chunk is lost with the bag it was filling.                              *)
CommittedIsStored ==
  /\ \A d \in Dirs : \A chunk \in AllChunks(clientRoot[d]) : Stored(chunk)
  /\ \A t \in Contents : \A chunk \in find_chunk_ids_by_token(indexRoot, t) : Stored(chunk)

(* What the indexes on disk answer for a token is a chunk with that        *)
(* content: a backup that trusts the answer ("fatalist") does not put      *)
(* another file's data into a generation.                                  *)
IndexIsSound ==
  \A t \in Contents : \A chunk \in find_chunk_ids_by_token(indexRoot, t) :
    Stored(chunk) /\ bags[BagOf(chunk)][PlaceOf(chunk)] = t

(* While it has the indexes locked, a process finds in each of the three   *)
(* trees what it has put there, whichever leaves have been split since.    *)
SessionFindsWhatItPut ==
  \A p \in Procs : IndexPart \in mem[p].held =>
    /\ \A u \in mem[p].promising \ promised :
         /\ u[1] \in find_chunk_ids_by_token(Trees(p), u[2])
         /\ lookup(Trees(p).by_chunk_id, u[1], None) = u[2]
         /\ u[3] \in ToSet(lookup(Trees(p).used_by, u[1], None))
    /\ \A t \in DOMAIN NoTrees : LeavesAreOrdered(Trees(p)[t])

(* A bag is written once: no process reuses the identifier of another, and *)
(* none replaces a bag that has chunks.                                    *)
BagsAreWrittenOnce ==
  [][\A b \in Bags : bags[b] # None /\ bags[b] # << >> => bags'[b] = bags[b]]_vars

(* repo_interface.py:898-922: commit_chunk_indexes commits changes to the  *)
(* chunk indexes, and only changes after the latest commit are forgotten.  *)
(* So the indexes on disk find every chunk whose use has been committed.   *)
CommittedIsFound ==
  \A u \in promised : u[1] \in find_chunk_ids_by_token(indexRoot, u[2])
=============================================================================
