# Obnam in TLA+

Obnam makes backups into a repository that several client machines share. There
is no server: a repository is a directory tree, reached as a local file system or
over SFTP, and every obnam process reads and writes its files directly. What the
processes owe each other they owe through lock files, through the order in which
they commit files, and through two shared indexes that say which client uses which
chunk of data. These modules model that, with TLC runs that check it on small
instances and TLAPS proofs that hold for every size.

Paths below are relative to `src/obnamlib/`.

## The system

| Component | State | Operations | What makes it correct |
|---|---|---|---|
| Lock manager (`lockmgr.py`) | lock files on disk, `_got_locks` in each process | `lock` a list of directories with retry and timeout, `unlock`, `force` | one owner per directory; all directories or none; no circular wait; every call returns |
| File system layer (`vfs_local.py`, `plugins/sftp_plugin.py`) | files, temporary files | create exclusively, replace, lock, remove | creation fails if the file exists; what was written is found whole |
| Repository interface (`repo_interface.py`) | none | `lock_everything`, `unlock_everything`, and the contract of the formats | a fixed order of locks, undone on failure |
| Format 6 (`fmt_6/`) | client list, a larch forest per client, chunk files, `chunklist` and `chunksums` trees; open trees in memory | lock, commit, unlock of each; generations; put and remove chunks; find by checksum | no generation refers to a chunk that is gone; one writer per forest; no update of an index is lost |
| Format Green Albatross (`fmt_ga/`, `delegator.py`) | client list, per-client data with generations and directory objects, bags of chunks, three index trees | the same interface | the same, and copy-on-write: a committed generation never changes |
| Copy-on-write tree (`fmt_ga/cowtree.py`) | leaf list, leaves in a leaf store | insert, lookup, split, commit | what was inserted is found, now and after a load |
| Bags and blobs (`bag.py`, `bag_store.py`, `blob_store.py`) | files of blobs, the bag being filled, a cache | put, get, reserve an identifier, flush | a blob that was put is found; identifiers are unique between processes |
| Backup (`plugins/backup_plugin.py`) | the new generation, checkpoints, chunk tokens | walk the live data, de-duplicate, checkpoint, finish, remove checkpoints | all that was backed up is in the final generation and can be restored |
| Forget (`plugins/forget_plugin.py`, `forget_policy.py`) | none | choose generations, remove them, remove unused chunks | removes no chunk that anyone uses; runs alone |
| force-lock (`plugins/force_lock_plugin.py`) | none | remove every lock file | used when no obnam runs |
| fsck (`plugins/fsck_plugin.py`) | chunks and clients seen | check the repository, remove extra chunks from the indexes | reports what is dangling |
| Restore (`plugins/restore_plugin.py`) | inodes with links still to be made | write files, link hard links | two restored names share an inode just if the originals did |
| Hooks and filters (`hooks.py`, `plugins/compression_plugin.py`) | registered filters | tag and untag data | reading undoes writing, whatever the settings of writer and reader |
| Encryption (`encryption.py`, `plugins/encryption_plugin.py`) | a user key file and a symmetric key per top-level directory | init, add and remove keys | whoever has a key can read |
| FUSE and verify (`plugins/fuse_plugin.py`, `plugins/verify_plugin.py`) | an open repository, open files, sizes of chunks | mount, refresh, read; compare with live data | a read is a part of the file of the generation that was opened; verify fails just if something differs |
| Show (`plugins/show_plugin.py`) | | list and print, without a lock | |
| Serialisation, metadata, settings, progress | | | |

Interactions. Commands call the repository interface; a format calls the lock
manager, its own trees and the file system, and the file system runs the filters of
the plugins around each file. Processes never talk to each other: they meet in the
lock files, the trees and the chunk files. Nothing is transactional beyond one
file: `commit_client` and `commit_chunk_indexes` are two steps (the second of two
trees), and a process may die between any two calls.

What is hard here: the interleaving of commands on different machines (a lock taken
one file at a time, indexes read without a lock, a checkpoint that releases
everything in the middle of a backup), crashes between two commits, timeouts that
leave half of a set of locks, and the rule for when a chunk is unused, which must
look at all clients but is driven by one.

## Modules

    AtomicLocks              what locking promises (abstract)
      ^ implemented by
    LockManager              lockmgr.py and the lock files, one file at a time
      LockManagerProofs      its invariants and the refinement, proved
      MCLockManager          instance for TLC

    RepoFormat6              backup, forget and checkpoints on a shared format 6 repository
      RepoFormat6Proofs      types, lock discipline, generations, uses, and that no
                             chunk is lost, and when, proved
      MCRepoFormat6          instances for TLC
    ClientFiles              what a format promises of a client's files (abstract)
      ^ implemented by
    ClientTree6              the files of a client in format 6: file ids, trees, caches

    TreeBackup               the walk of one backup, and what it leaves in the generation
      TreeBackupProofs       its types, what a skipped file rests on, and that a
                             finished backup is complete, proved
      MCTreeBackup           instances for TLC
      ^ implemented by
    GAClient                 a client's directory objects in Green Albatross
      GAClientProofs         its types, that nothing saved dangles, that the cache hangs
                             together, and that it implements TreeBackup, proved
      MCGAClient             instances for TLC

    RepositoryInterface      what a repository promises to commands (abstract)
      ^ implemented by
    GreenAlbatross           clients, locks, generations, bags and indexes in Green Albatross
      GreenAlbatrossProofs   types, bags, stored chunks, sound indexes, sessions, and
                             that it implements the interface, proved
      CowTree                the trees of its indexes
      CowTreeProofs          that such a tree is a map, proved
      MCGreenAlbatross       instances for TLC

    AtRest                   a repository nobody writes to, which may be damaged
      Fsck, Restore          what fsck, restore and verify make of it
      RestCommands           one of these commands runs, and the device does damage
    FuseMount                a mounted repository that changes
    ForgetPolicy             what forget --keep chooses
      CommandsProofs         that fsck and verify tell the truth, what restore writes, what a
                             read of a mounted file answers and what forget keeps, proved
    RepoFiles                filters and keys
    VirtualFiles             how files are made and replaced, locally and over SFTP
      FilesProofs            of RepoFiles, that what is written is read and who has access,
                             and of VirtualFiles, that what is written stays, proved
    MCCommands               instance for TLC of these six and of ClientTree6, one of
                             them in each behaviour

### AtomicLocks and LockManager

`AtomicLocks` is the specification a user of locks has in mind: a process asks for a
set of directories, and at some instant gets all of them or is refused and gets none.
A process may die and leave its locks `stale`; force-lock removes stale ones.

`LockManager` is the code. `lock` handles the sorted directories one after the
other (`LockOne`); on a directory with a lock file it sleeps and tries again until
the timeout (`Sleep`), then unlocks what this call has locked and raises LockFail
(`GiveUp`, `UnlockOne`). `locks` is what is on disk and `gotLocks[p]` what the
process remembers; a lock file does not say whose it is, so only an invariant makes
the two agree. `Crash` forgets the memory and leaves the files. `ForceOne` removes any
lock file; it starts only when no process holds or wants a lock, the condition the
manual puts on using the command (`manual/en/060-backing-up.mdwn`, lines 438-463). What force-lock does to a process
that is still running is therefore outside MutualExclusion and HeldOnDisk: it takes the lock away.

The clock of `_lock_one` is `waited`: a sleep takes one second or longer. Directories
are numbered by their place in the sort order. `MayAsk` states what the callers do: no
caller asks for what it holds, and a caller that holds some asks only for later ones.

### RepoFormat6

One step is one call of the repository interface, as `backup_plugin.py` and
`forget_plugin.py` make them; between two calls other processes run. `lock` is
one step here, which the refinement proved in `LockManagerProofs` justifies, and a
command that waits for a lock may always give up instead (`LockFails`,
`LockEverythingFails`).

The disk is `owner` (lock files), `clientList`, `gens` and `lastGen` (the clients'
forests), `store` (chunk files), `chunklist` and `chunksums`. `mem[p]` is the memory of
a process: the next call, the generation under construction, the tokens of chunks
not yet added to the indexes, the trees as they were when they were opened, the set of
unused chunks. A backup goes

    lock client list, add client, unlock; lock client; lock and unlock indexes;
    create generation; back up chunks (find, reuse or put; drop);
    lock indexes, add the uses, commit client, unlock client,
        commit chunklist, commit chunksums, unlock indexes;
    after a checkpoint: lock client, create generation, go on;
    at the end: lock everything, remove the checkpoints, commit, remove unused chunks

and a forget locks everything and then, for each generation, removes it, commits and
removes the unused chunks. `Fail` is an exception: `backup` has a handler
that unlocks its client and the indexes, except while it starts; forget has none.
`Interrupt` and `Crash` may happen at every call.

A generation is the set of chunks its files refer to: the properties compare sets of
chunks, and names, modes and times do not matter to them. A chunk id is its content and
a copy number, because two chunks with one content arise when de-duplication is
off or misses. The checksum is taken to be free of collisions. `BackupChunk` has the
three de-duplication modes; reading the index without a lock may miss a chunk when the
tree has been rewritten since (`InTree`), as the code catches the missing node.
`DropChunk` is what deleted and changed files do to the cloned tree.

### TreeBackup

The other half of a backup: not which chunks are in use but which files are in the
generation. One client, any repository format: a generation is a map from path names to
entries (kind, version, chunks). `version[p]` of the live data stands for what
`metadata_has_changed` compares, and for the contents; writing a file gives it a new version,
as it gives it a new modification time. A chunk is the version it was read at and its place in the file.

Each action is the conjunction of its part in the walk (`WalkStarts`, `WalkDir`, ...) and its
part in the map (`StartBackup`, `BackupDirectory`, ...). `StartBackup` copies the latest
generation less the old backup roots. The walk takes what is in a directory before the
directory (`NextOf`). `BackupDirectory` removes the names that have gone. The metadata of a file
are those of some moment between the start and the opening of the file (`Listed`); if
they are what the generation has the file is skipped (`SkipFile`), else `StartFile`,
`ReadChunk` and `EndFile`, or `ReadError`. `BackupParents` and `Commit` are a
checkpoint, or the end of the walk; `RemoveCheckpoints` and `LeaveCheckpoints` the end of the
backup. `Crash` may happen anywhere, `Edit` too; names come and go between backups only.
`MidFile` says whether a checkpoint may fall inside a file (the files are larger than what is
written between two checkpoints) and `OldErrors` whether a file of the last generation may fail
to be read; finding 4 is what happens if they do.

### GAClient

The same backup, on what `fmt_ga/` really stores. A directory object has the entries of the files in
the directory, one for the directory itself, and the identifiers of the objects of its subdirectories; a
generation is the identifier of a root object. `mem` is the GATree of the new generation: a root and
a cache of changed copies. `SetDirectories` changes objects and everything above them, `FlushTree` stores the
cache from the leaves up and puts identifiers where the references to the cache were. `Holder` is
`_get_dir_obj`, which decides whether a path is a directory with an object of its own or an
entry in the object above. `put` is the bag that has not been written: a commit is `FlushClient`
(or `BackupDirectory` with a flush, after so many directories), `FlushBag`, `SaveClientData`, and the process may
die between any two of them.

Its actions are those of TreeBackup with the same parts of the walk (`Walk!WalkStarts`, ...) and
parts of their own for the data. `Walk` is TreeBackup with `gens` the files found in the saved
generations and `cur` those found in `mem`; `ImplementsMaps` says that every step is one of TreeBackup's, or
changes nothing that TreeBackup knows of.

Objects that nobody refers to stay in the code's bags for ever; the model drops them. Objects that
are only read are not put into the cache here: in a backup of one root no path is looked up after it has
been removed, so an entry left in the cache cannot be seen. A commit also flushes the older generations,
which writes copies of objects that have not changed; this is left out.

### RepositoryInterface, GreenAlbatross and CowTree

`RepositoryInterface` is what `repo_interface.py` and its tests ask of every format, in a few lines: a repository has
parts (the client list, each client, the chunk indexes); who locks a part works on a copy of what was
committed last, a commit replaces what is committed by the copy, an unlock forgets the rest.

`GreenAlbatross` is the format, with the delegator that locks its parts: `listRoot`, `clientRoot` and `indexRoot` are the root
files on disk, `bags` the chunk store, and `mem[p]` what a process has loaded, which the code does
not load again while it believes that it has it. Commands are the sequences of calls of
`backup_plugin.py`, `forget_plugin.py` and `encryption_plugin.py` (remove-client); a rename is a call no command makes but the
interface has. Chunks go into a bag in memory whose identifier was reserved by an empty file; the
bag is written when it is full or before a commit. A process can fail (the handler of `backup`
runs) or die between any two calls. `promised` records the uses that have been committed, for
the properties.

`CowTree` is one index tree: a list of leaves with their ranges, each leaf with what is stored (`stored`) and what the
process that has changed it sees (`cached`), which are not the same (finding 3). Leaves of
two keys are split as the code's are at 1024. The blob cache of a session is taken as unlimited. The code empties
it when the keys of the leaves in it would add up to more than 2^24 (`blob_store.py`, lines 28-29 and 99-103), and the changes to
leaves that were not split are then lost even within the session; that takes millions of keys in one session, and
SessionFindsWhatItPut holds only below it.

### ClientFiles and ClientTree6

`ClientFiles` is what a command may believe: a client is a sequence of generations, each a map from names to
metadata and chunks; the process with the lock sees its own changes, a commit makes them
the saved ones. `ClientTree6` is what `clientmetadatatree.py` and `repo_fmt_6.py` do instead: file
ids that are random and found by a hash which two names may share, one map for each kind of key, a list of
generations and file ids that are remembered, and the keys of one file that are written back later.
`ImplementsClientFiles` maps everything the methods answer to the abstract variables. Draws of random ids
that give a number which a name with another hash has are left out.

### AtRest, Fsck and Restore

`AtRest` has generations of files with chunks, in a repository in which one chunk may be lost, changed or
made unreadable, before a command or while it runs. `Fsck` is the list of work items of `fsck_plugin.py`: each
action is one kind of item, `Done` puts what it yields in front of the others and at the end the items that are
final. `Restore` walks a generation and writes an empty target: inodes with contents and
modification times, the table of hard links that counts down, holes where a chunk is zeroes. Verify
takes the same walk and compares with live data that may have been changed in any of `Changes`; a file is read in one step, so of a chunk that is
damaged while it runs each file has seen what was there before or what is there now. `RestCommands` puts them together:
one command runs (`AtRestSpec`), with `Damage` before it or between any two of its steps.

What the repositories are when a command begins is assumed, not derived from the backup: the directory of each file is in the
generation, the chunks of a file are in the store, and the checksum of a finished file is that of its contents
(`RepositoriesAssumption`); a file has at least one link. `PathsAssumption` says of the names that whoever goes from a path to its directory, and so
on, comes to the root, and `ClientsAssumption` that there are finitely many clients.

### RepoFiles

A file of a repository goes through the filters: `run_filter_write` and `run_filter_read` are folds over the callbacks,
compression first. Toplevels are made in steps (`create_and_init_toplevel`, `write_key`, `write_userkeys`),
and a key command changes `userkeys` and then `key`, toplevel after toplevel; nothing is locked, and a
process may end anywhere. `granted` and `denied` say, for the properties, who has been given access
and who has lost it. Key commands run one at a time: two at once can lose one of the changes, as there is no lock.

### ForgetPolicy, FuseMount and VirtualFiles

`ForgetPolicy` is `last_in_each_period` and `match`, over backups and forgets that follow each other and may die after
removing some of what they chose. `FuseMount` is a mounted process with the repository as it was opened (`opened`), one open file
and the sizes of chunks it remembers, while backups and forgets go on; `read_data` is the loop over chunks.

`VirtualFiles` is what the steps of all the other modules rest on: that a file is created by one process only, and replaced
at once. LocalFS links a temporary file, or creates the name exclusively and renames where there are no links;
SftpFS opens exclusively and writes piece by piece, and replaces a file by removing it first. Several processes do
this at once and may die anywhere. `MayBegin` and `MayRemove` are what the callers keep to. Lock files are made and
removed as `LockManager` takes for granted, in all three kinds; of replacing, SFTP gives less than
the modules of the formats assume, and `WrittenStays` says how much less.

## Runs

| Run | Question | Instance | Shows |
|---|---|---|---|
| `locks` | Does one-file-at-a-time locking give atomic locks? | 3 processes, 3 directories, timeout 1, crashes and force-lock without limit | TypeOK, MutualExclusion, HeldOnDisk, NoCircularWait; implements AtomicLocks (LocksAreAtomic); every call returns (CallsReturn) |
| `fmt6_sharing` | Do two clients that share chunks, and forgets of either, keep each other's data? | 2 machines, one client each, 1 content with 2 copies, 2 generations each, 4 commands, mode verify, a forget may take the newest generation | TypeOK, NoDangling, WorkIsBacked, UsesAreRecorded, UsesOfOthersStay |
| `fmt6_faults` | Does committed data survive crashes at any point? | 1 client, a backup and a forget process, 3 generations, 5 commands, 2 faults, modes verify and never; no forget of the newest generation | NoDangling, WorkIsBacked, SavedIsKept, GenerationsAreFinal |
| `fmt6_three_clients` | The same as `fmt6_sharing` with three clients | 3 clients, 1 process, one generation each | **violated**: see finding 1 |
| `fmt6_checkpoint_window` | Is a forget alone, as its comment says? | 2 clients, 2 processes | **violated**: finding 2 |
| `backup_walk` | Is a finished backup complete, and is what the next one skips really there? | `/`, `/d`, `/d/x`, `/f`; d may become a file; roots `/` and `/d`; 2 chunks, 2 versions, 2 generations, 2 backups, 1 fault | TypeOK, SkippedIsSame, FinishedIsComplete |
| `backup_resumed` | The same with checkpoints inside a file | d stays a directory; MidFile | **violated**: finding 4 |
| `ga_client` | Do the directory objects of Green Albatross hold what the backup put into them? | the tree of `backup_walk`, d stays a directory; 1 chunk, 2 generations, 2 backups, 1 fault; MidFile and OldErrors | TypeOK, NoDanglingDirectories, CacheHangsTogether; implements TreeBackup (ImplementsMaps) |
| `ga_replaced` | The same if d may become a file | no fault | **violated**: finding 5 |
| `ga_repository` | Does Green Albatross keep the promises of the interface, for clients that share chunks? | 2 processes, 2 names, 2 directories, 2 contents, 2 bags of 2 chunks, leaves of 2 keys, 2 generations, 2 commands, 1 fault | TypeOK, CommittedIsStored, IndexIsSound, SessionFindsWhatItPut, BagsAreWrittenOnce; implements RepositoryInterface (ImplementsInterface) |
| `ga_index_lost` | Do the indexes find what has been committed? | one backup of 2 chunks | **violated**: finding 3 |
| `commands` | Seven questions that share no state, one in each behaviour (`part`) | see below | TypesOK and one or more properties of each part |

The parts of `commands`: the files of one client in format 6 (ImplementsClientFiles); fsck (CleanFsckMeansWhole,
AlarmsAreReal, UsedStayIndexed), restore and verify (RestoreIsRight, VerifyIsRight); filters and keys (WrittenIsRead,
KeysAreKept); the forget policy (PolicyIsKept); a mount (ReadIsSlice); and the file system layer (WrittenStays).

Bounds. Three processes are what it takes for one to wait for a second that waits for a
third, and three directories for a rollback that has one lock before and one after the
failure. A timeout of one second separates the first attempt, a retry and the last.
In `RepoFormat6` one content with two copies gives a shared chunk, a duplicate and a
chunk that comes back after it was removed; two generations give one that keeps and one
that is removed, three one that is made again after both; four commands are a backup of
each client and a forget of each, five a backup more after two removals. Every bound
(MaxCopies, MaxGens, MaxRuns, MaxFaults) is in a guard and the model just stops there,
which is why these configurations say CHECK_DEADLOCK FALSE (as do those of `TreeBackup`); `locks` has no such bound and
is checked for deadlock. Symmetry is used only in runs without liveness.

In `TreeBackup` the tree has a file two levels down, a file next to a directory, and a root that
is not `/`. Two versions are a file that was written while it was read, or between two backups, or a
name that came back; two chunks have a middle; two backups are one that dies and one that resumes it, or
one after which something has gone; two generations are a checkpoint and a final generation. `ga_client` has a constraint, `FewChanges`: below `d` there is
x, which is written twice, or deleted and created again; or next to `d` there is f, which a backup of the root `/d` removes
from the generation. Nothing is written during a backup or after the last one. What TreeBackup allows beside that concerns
versions, which directory objects do not look at.

In `GreenAlbatross` two commands are two backups that race, or a backup and a forget, removal or rename;
two bags of two chunks fill up within a backup and meet the other process's; one fault is
a process that dies with a bag reserved, filled or written. Names, contents and processes
are symmetric. In `commands`, ClientTree6 has three names of which `/d` and `/d/f` share a hash, and two trees: one that is committed and
one that grows from it; only the keys of `/d/f` are asked for. The repositories `at rest` have three chunks, one of
zeroes, three generations of two clients, and one command runs. RepoFiles has two users (symmetric) and two toplevels, in one of which data is
written; by a constraint, `KeysMatter`, a key command runs when that data is encrypted, and next to processes that encrypt
(without a key command there is no such bound, and data may be written anew after it). ForgetPolicy has six moments, in days, weeks and months that do not nest, four generations and counts to 2.
FuseMount has two generations, and reads to three bytes in files of chunks of one and two bytes. VirtualFiles
has two processes, a lock file and a root, and three calls: one that dies, and two that race for what it left.

`ForgetNewest` is FALSE in `fmt6_faults`: what a forget may do to the newest generation
of a backup that is still going on is finding 2, and SavedIsKept does not hold with it. In
`fmt6_sharing`, which does not check SavedIsKept, it is TRUE.

Both have no mode `fatalist`, the default, which trusts the index: with it WorkIsBacked fails in both. In
`fmt6_faults` a forget that dies between the commits of the two index trees leaves a checksum for a
chunk that a later forget then removes, and the next backup trusts it; two clients
come to the same without any fault (the end of finding 1). The `verify` mode reads the chunk and raises an error, and this
is what the two runs check. What can be said for the default mode is proved: `OneClientMayTrust` below.

Fairness. Only CallsReturn needs it: weak fairness of `Step(p)`, the loop of a call that is
being executed. `_lock_one` never blocks: it tries, sleeps for a second and looks at the
clock, so a process that keeps running takes its steps. Nothing is assumed of other
processes: not that they release a lock, not that they do not die.

## Findings

1. `fmt_6/repo_fmt_6.py:797-799` removes a chunk from the chunklist even if other clients
   use it. When the next client removes its last use, line 360 takes the
   missing checksum to mean that the chunk cannot be shared and removes the file. With
   three clients the third has then lost the chunk. NEWS says that chunks that
   are shared between clients are not removed. With two clients no chunk is lost that way, but the second removal leaves
   the chunk in chunksums, for `remove_chunk_from_indexes_for_all_clients` (lines 801-815) finds no checksum in the chunklist either,
   and its comment (810-812) takes that to mean that chunksums has none. In the default mode a backup of the second client that comes
   across the same contents then trusts what it finds, and its generation refers to a chunk that is gone. (Seen with
   TLC with one process, two clients, 2 generations each and 5 commands, mode `fatalist`.)
2. `make_checkpoint` (`plugins/backup_plugin.py:547-560`) releases all its locks before it
   takes the client's again. A forget may run there, although the comment at
   `plugins/forget_plugin.py:69` says that nobody can be running a backup while anyone is
   running a forget.
3. `_insert_into_leaf` (`fmt_ga/cowtree.py:64`) changes a leaf and puts it back into the store only if it has to be split.
   What the process has inserted is in its own cache; after a commit the index trees of Green Albatross on disk have the first
   key of each leaf only, although the interface says that a commit commits the changes. De-duplication then misses
   chunks, and whoever uses them is not recorded.

4. `backup_non_directory` (`plugins/backup_plugin.py:458`) puts a file's metadata into the
   generation before its contents. After a checkpoint inside the file and a crash, the next backup,
   which resumes from that checkpoint, takes the file for unchanged; the finished generation
   has part of the file. The manual page says the next backup can continue from a checkpoint.
   A read error in a file that was there before (`plugins/backup_plugin.py:410`) leaves
   the same kind of entry; `backup_walk` excludes both (MidFile, OldErrors).

5. In Green Albatross, when a directory has been replaced by a regular file, the directory's object is
   still there when the file is backed up: the walk removes names that have gone, not names that
   have become something else. `clear_file_chunk_ids` (`fmt_ga/client.py:739`) then finds
   the directory and its assertion fails, in this backup and in all later ones.

Smaller things that came up in modelling, and which the models have as the code does them:

- `start_backup` (`plugins/backup_plugin.py:162`) is outside the `try`: when the chunk indexes cannot be locked, the client
  stays locked. Forget has no handler at all.
- The cache of file keys in format 6 is not flushed when a generation is removed, although the comment at
  `fmt_6/repo_fmt_6.py:913-917` says that it is; keys of the removed generation would go into the next tree.
- fsck dies, with everything locked, on a chunk the filters cannot read, and calls the checksum of a file wrong
  that a checkpoint was made in the middle of.
- `metadata_has_changed` does not compare inode numbers. A generation can have one number for two files with different contents
  (`Mistaken`), which restore then makes links of one file. Names of one file that were backed up at different times can also
  differ in modification time or number of links; restore gives them the time of the first, and the number decides which it links.
- add-key and remove-key take no lock. Removing the last key fails in gpg, after `userkeys` was emptied.
- A mount that is refreshed when only checkpoints are left fails an assertion and shows nothing from then on.
- Green Albatross gives the number of a removed generation to the next one, and has no whole-file checksums for fsck and
  restore to compare with.
- The forget policy merges only generations that are next to each other: if the clock goes back between two backups, one
  period can be kept twice.
- Over SFTP a file that is replaced is gone for a moment (`plugins/sftp_plugin.py:500`), and stays gone if the process dies there;
  two processes that make the same directory make one of their calls fail; and that a name is taken is told without an errno
  (`repo_factory.py:123-125`), while the loops that draw another identifier (`bag_store.py:136`, `fmt_6/repo_fmt_6.py:629`) look for EEXIST.

## Proofs

`LockManagerProofs` proves, for any set of processes, any number of directories and any
timeout:

- `Typing`: SafeSpec => []TypeOK.
- `Invariance`: SafeSpec => []LockInv. MutualExclusion and HeldOnDisk are not
  inductive alone. LockInv adds `CallInv` (what a call has locked so far, `weLocked`, is
  held by the process and disjoint from what it has still to do; a rollback undoes only
  that; an idle process has nothing left over) and `ForceInv` (while an operator forces locks open
  nobody holds any). `HeldOnDisk` is what makes `LockOne` exclusive: the file does not exist, so
  nobody holds the directory; `MutualExclusion` is what makes `UnlockOne` keep HeldOnDisk: the
  file that goes is not another's.
- `Exclusion`: MutualExclusion and HeldOnDisk, always.
- `Refinement`: SafeSpec => LocksAreAtomic. The mapping takes the locks of a call in
  progress for not granted yet (`Granted`), so that the step in which `lock` returns grants
  all at once, and files without an owner for stale. There is one lemma per action
  (`StartLockAsks`, `LockOneGrants`, `GiveUpRefuses`, ...), each showing that it is a step of AtomicLocks or none.

- `NoDeadlock`: SafeSpec => []NoCircularWait. Whoever waits for a directory in its call holds only directories before it in the
  sort order (`MayAsk` and `CallInv`), so along a chain of processes that wait for each other the
  directories get later and later, and a circle has none that is latest.

The assumptions are those of the modules (NumDirs and Timeout are natural numbers).

`RepoFormat6Proofs` proves, for any number of clients, processes, chunks and
commands, and with no bound on generations:

- `Typing`: Spec => []TypeOK.
- `Base` is what everything rests on: types, `Discipline` (which locks a process holds at each step: its client
  while it works on a generation, the indexes in a session on them, the client list and every client while it removes anything) and
  `Memories` (what a process remembers at each step, such as that tokens are chunks of the generation that it is making). All actions
  are then sorted into a few kinds (`Passes`, `Ends`, `Starts`, `Puts`, `Reuses`, `Continues`, `Removes`; lemma `Kinds`), of which
  the later proofs need only look at those that touch what they are about.
- `Finality`: Spec => GenerationsAreFinal. `Numbers` says that no generation has a number beyond its client's `lastGen`, that a number is
  used once, and that the generation in the making has the next one; this holds as nobody but the holder of the client's
  lock commits it.
- `UsesStay`: Spec => UsesOfOthersStay. A session commits its own copy of chunksums. `Uses` says that the copy lacks nothing that is
  on disk but uses of the session's own client, which it is removing; the lock of the indexes is why.
- `UsesRecorded`: UsesAreRecorded, if nothing is interrupted (MaxFaults = 0) and no command has the mode `never`. `Recorded` adds what each
  session knows, and that what a new generation has taken over from the last one is recorded already. Between the commits of
  a client and of the indexes a crash does lose the uses, and with `never`
  chunks are stored without being put into the indexes at all; TLC has both counterexamples.
- `SavedStays`: SavedIsKept, whatever is interrupted, if the newest generation is never forgotten and each client is backed up
  from one place (`OneBackupEach`). `Saved` says where the chunks are between two generations of a backup: in the newest one.
  Without the first assumption it is finding 2.
- `OneClientLosesNothing`: NoDangling and WorkIsBacked for one client, crashes and interrupts at any
  call included, with the modes that read or never look. `Backed` adds that what a command means to remove no generation refers to. Its step (`BackedStep`) is
  proved from two assumptions, `Findable` (what is trusted without being read is there) and `SharedKnown` (who removes generations
  knows of the uses of others), and each of the three theorems shows how it comes by them; here there is nothing to show.
- `OneClientMayTrust`: the same in the default mode, if nothing is interrupted. `InSync` says that the trees in
  memory are those on disk where it matters and `Found` that the two trees name the same chunks, all of which exist.
- `TwoClientsLoseNothing`: the same for two clients that read what they find, uninterrupted. A removal takes
  chunks out of the chunklist that the other client uses (finding 1), but if both use a chunk it is still there (`Listed`): the
  first removal finds it. A third client, the default mode or a fault makes it false.

`TreeBackupProofs` proves, for any tree of names, any number of chunks and any bounds:

- `Typing`: Spec => []TypeOK. TypeOK alone is not inductive: that a backup counts no more
  checkpoints than there are generations (`MadeFits`) bounds `made`, and that the file being read is in the
  map (`FileFits`) makes `cur[file]` an entry.
- `Skipping`: if neither MidFile nor OldErrors, Spec => []SkippedIsSame. The latest generation is made
  of `cur`, and after a forget it may be any of the others, so `SoundInv` says of every generation and of `cur` that
  each file whose version is still the present one has its contents, and of a file that is being
  read that what has been read is the beginning of it. Versions only grow (`VersionsGrow`), so an entry
  that is out of date stays so (`StaysSound`); a file read to its end is whole (`CompleteIsSound`);
  and the two assumptions are used where a part of a file could get into a generation (`BackupParents`, `ReadError`).
- `Completeness`: under the same assumptions, Spec => []FinishedIsComplete. `SnapInv` adds to `SoundInv` that what exists is in a
  directory (`LiveTree`); that what the walk is past is in the map as it is in the live data, and what a directory
  lacks there is gone from the map (`WalkRight`, `DoneIn`); that a directory comes after what is in it
  (`TodoFits`), so that it removes the names that have gone after everything under them is done; that the directories above the
  root are there at the end (`EndRight`) and that the last commit was of this map (`LastRight`). That a missing name
  has a missing ancestor whose parent is there (`TopmostMissing`) is where the tree's shape is used: `TreeAssumption` says that
  every set of names has one whose parent is not in it, which is what "a path ends at the root" comes to without
  an induction.

`GAClientProofs` proves, for any tree of names, any number of chunks and any bounds:

- `Invariance`: Spec => []Inv. `Inv` says of what is stored that it is closed under references (`IsStore`: an object is stored under its
  path, has entries for nothing but the files in it, and refers to stored objects of the paths below it), of the bag that is not
  on disk yet that it is there only while the cache is empty (`PutInv`), of the client's data that they are roots of such objects
  (`DataInv`), and of the tree in memory that its cache is a tree from the root, each object referring to
  those below it and only to them as being in the cache (`Hangs`). That a change keeps this needs what the walk knows:
  what is in the cache is a directory in the live data, and a file that is being read is none in the new generation
  (`DirsOnly`, `ReadingFits`); that is where the assumption that Root is a directory comes in.
- What the operators do is said by lemmas about a tree `t` and any store `o` (`PlacesOf`, `HasOf`, `EntryOf` are the lookups
  with the store as a parameter): `EntryStays` and `HangsStill` for a change, `StoredSame` and `StoredHangs` for a flush, `PartSame` for what is
  left when objects are dropped. They rest on `TreeInduction`, which is `TreeAssumption` applied to the set of names for which a statement
  fails.
- `Typing`: Spec => []TypeOK. That the entries a lookup finds have their types is a property of the objects, not of the
  variables of TreeBackup, so `Walk!TypeOK` follows from `IsStore` and `Hangs` (`FilesFit`).
- `NothingDangles`: Spec => []NoDanglingDirectories. The identifiers that a lookup passes from a saved root are stored (`ReachIs`), on disk
  and not only in the bag (`PartSame`).
- `CacheIsWhole`: Spec => []CacheHangsTogether, which is what `_fixup_subdir_refs` asserts.
- `Implementation`: if each path is only ever a file or only ever a directory (`OneKind`), Spec => ImplementsMaps. `MapInv` adds to
  `Inv` that directories have objects and no chunks, and files neither an object nor the metadata of a directory, in the tree in memory
  (`TreeKinds`), in each generation (`GenKinds`), and alike in the live data (`LiveKinds`). `Changes` says which entries a change of some
  objects replaces and `EntriesAfter` that it is those; `GoneBelow` that a removed directory takes everything
  below it with it, as TreeBackup's removal does. From these, `FilesWithout` and `FilesWith` turn a change of objects into one of
  TreeBackup's map. One lemma per action (`...Maps`) shows which step of TreeBackup it is: `FlushClient` and `FlushBag` are none,
  as a lookup finds the same before and after (`StoredSame`), and `SaveClientData` is TreeBackup's commit.

The assumptions are those of the module: names are finitely many and form a tree, and the root is a directory. `OneKind` is a
hypothesis of `Implementation` alone. The code does not see to it, and without it the implication is false: a directory that has
become a file keeps its object, as `ga_replaced` shows (finding 5). It holds of the names of `ga_client`.

`FilesProofs` proves of RepoFiles, for any users and toplevels:

- `Invariance`: FilesSpec => []FilesInv. KeysAreKept is not inductive: a key command rewrites `key` from `userkeys`, so `RingInv` says
  that `userkeys` lists all who have access and nobody who has been removed; `TaskInv` how far the command has come (`userkeys` has the
  change, `key` does not yet); `MakingInv` that a toplevel is made by one process, nobody else has access to it meanwhile, and if
  the process dies no command will touch it, as it has no `userkeys`.
- `Keeping`: KeysAreKept, always.
- `Reading`: FilesSpec => []WrittenIsRead. A file goes through at most two filters, each of which may or may not be there for the
  writer, so it has one of the four forms `Forms(content)`, which is all that `FormsInv` says of `stored`; the folds over the filters are
  unrolled and each form is read with and without the key.

The assumption is that the empty string is no user and no toplevel, and the mark of a missing file no user.

It proves of VirtualFiles, for any processes and files, any data and all three kinds of file systems:

- `WrittenIsKept`: VirtualSpec => []WrittenStays. `VirtualInv` adds that a process which has created a file for itself, with no links or over
  SFTP, is the only one between creating and filling it, and what it has written together with what is left is its
  data (`WritersAlone`, `HasWritten`); that one which replaces a file it has made still owns it (`ReplacersAlone`); that a file has
  one maker while it exists (`OneMaker`); that temporary files are told apart by their names (`TempsFit`); and that over SFTP, after the old file has
  been removed, its replacement is in a temporary file that only the call that is about to rename it can touch (`Rescued`).

The assumption is that what is written is a sequence of the pieces it consists of.

`CowTreeProofs` proves, for keys and values of any kind and leaves of any size:

- `InsertIs`: an insert makes a tree out of a tree. `IsTree` says that the leaves are in order and do not overlap, that a
  leaf's keys are in its range, and that the store has no more keys of a leaf than the cache. As a new leaf comes between
  the neighbours of the one that is split, sorting the leaf list by first keys, which `_LeafList.insert_leaf` does, puts it
  where `insert_into_leaf` does. That a leaf has a first and a last key, and that a split makes two leaves with keys, is where
  finiteness is used.
- `InsertedIsFound`: a lookup is the map's. `FindIs` says that the leaf `find_leaf_for_key` chooses is the one the key is in, if any is.

`GreenAlbatrossProofs` proves, for any processes, clients, contents and bags, with no bound on generations, commands or crashes:

- `Types` says what the memory of a process can be at each step of its command; there are lemmas of what each action does to
  the memory (`..._effect`), so that later proofs need not unfold it.
- `WritesOnce`: Spec => BagsAreWrittenOnce. `BagsFit` adds that a process which fills a bag has its identifier reserved by an empty file, and its
  own chunks fit; two processes never fill the same bag, as the identifier is reserved only where there is no file.
- `StoresBeforeCommit`: Spec => []CommittedIsStored, and `IndexTellsTruth`: Spec => []IndexIsSound. `Known(p)` is the set of pairs of a
  chunk and its content that are in the store or in the bag that p is filling. `AllKnown` says that the generations, the indexes
  and the backup's map in the memory of p name only what p knows, and those on disk only what is stored; from `flush_chunks` to the commits
  p has no bag, so what it knows is what is stored (`Knows`). Nothing is ever unknown again, which is `WritesOnce`.
- `Typing`: Spec => []TypeOK. `Holding` says which locks a process has at each step, and that what it has locked has a lock file, by nobody
  else; `ListsGiven`, that the client lists on disk and in memory name directories that have been made.
- `FindsWhatItPut`: Spec => []SessionFindsWhatItPut. `Sessions` says that what a process has put into the indexes and not committed
  is a chunk it knows with that content, and that each of the three trees has it (`Kept`). An insert keeps the other
  uses (`KeptWith`, from `InsertIs` and `InsertedIsFound` of CowTreeProofs), which needs that a chunk has one content; nobody
  else commits the indexes meanwhile, as the lock is held; and only forget takes chunks out of the indexes, which puts none in.

- `Implements`: Spec => ImplementsInterface. `Exact` adds to `Holding` which locks a process has *not* at a step, where the step gives
  up all it has or works on the one that is left: without it an unlock of everything could be several unlocks of the interface at
  once. From it follow who holds a part (`Owned`) and that only the holder changes a copy that somebody holds (`OthersStay`).
  One lemma per kind of step (`LockingIs`, `UnlockingIs`, `KeepingIs`, `ChangingIs`, `DyingIs`) turns what a step does to
  the locks and to one process's memory into a step of the interface, and there is one lemma for each action or kind of action,
  `StepsRefine` puts them together. Looking up a client, flushing a bag, failing and adding a client that is listed
  already are stutters; ending a command, with whatever locks are left, is the interface's `Crash`.

The assumptions are that `None` and `NotLoaded` are none of the values they stand beside (`NoneAssumption`), that nobody and a
dead process are none of the processes (`HolderAssumption`), and that contents and bags are numbers.

`CommandsProofs` proves of the commands at rest, for any repositories, clients, settings and damage:

- `NothingUsedIsRemoved`: AtRestSpec => []UsedStayIndexed. The work item that looks for extra chunks takes every chunk it has not seen for
  unused. `UsesAreSeen` says that each chunk of each file is in `seen` already or that an item of the list will lead to
  it (`Leads`): an item for the chunk, for the file, for a directory the file is below, for its generation or client, or one of the first two.
  `ExtraIsLast` says that the last item comes when nothing else is left and only if no setting leaves anything out. One
  lemma per kind of item shows that what it yields leads wherever it did; that a directory's children lead to all that is
  below it (`UnderAChild`) is where `PathsAssumption` is used.
- `NoFalseAlarms`: AtRestSpec => []AlarmsAreReal. A chunk differs from its checksum only if it is damaged (`Intact`, in `Kept`). The checksum
  of a file is of what its chunk items have read so far; `InOrder` says that these and the item that compares come one after
  the other, that only one file is being read at a time, and that what has been read is the beginning of that file.
- `CleanMeansWhole`: AtRestSpec => []CleanFsckMeansWhole. `FilesAreChecked` says of each file that it is whole, or that an item
  will lead to it or compare its checksum, as long as there is no alarm; at the end there are no items.
- `VerifyTells`: AtRestSpec => []VerifyIsRight. `VerifyInv` says that `failed` is whether something among the files
  that have been walked is not what is live (`HasFound`). Damage while verify runs changes what is stored of files that have been
  walked; until then they held what was backed up (`Intact`, `DamageMeanwhile`), so the claim about such a file has that as the other possibility (`WasOther`,
  `WasLive`).
- `RestoreTells`: AtRestSpec => []RestoreIsRight. `WalkInv` is about the files that have been walked. What is still to come is
  closed upwards (`WalkFits`), so a directory is made before its turn but never touched after it (`AncestorsWait`,
  `WalkedStay`), which is why its modification time stays. A name that has been walked is its own file or a link to a walked one of the
  same number (`NamesFit`), and each file, if there was no error, is what the generation says (`InodesFit`). For the table of hard links,
  `LinksFit` counts: the names restored and the links still expected are one more than the number of links; `AlikeFit`
  follows, that all names of one file have been given the same inode, since the entry goes only when every name has
  been walked. The contents come from the fold over the chunks (`RestoresData`): after i chunks what is written, continued with zeroes,
  is the first i chunks (`HasWrittenChunks`), and only a hole at the end leaves it shorter. Errors come from damaged chunks or from a checksum
  that was never finished (`Excused`). Nothing is claimed of names that a generation has under one number but with different contents or
  modification times, or more of them than links (`Mistaken`): restore has one inode
  for all of them, or begins a second when it has counted down.

The invariants are those of `FsckInv`, `VerifyInv` and `RestoreInv`; TLC has checked them on the repositories of `commands`. The assumptions are the three named
above, and that what a chunk holds are numbers, neither `Lost` nor `Garbled` (`StoredAssumption`).

It proves of FuseMount, for chunks and files of any sizes and any number of generations:

- `ReadingIsSlicing`: FuseSpec => []ReadIsSlice. `MountInv` says that what is shown and what is open are generations that have been made, whatever
  has been forgotten since, and that the size remembered with the open file is its generation's. The loop over the chunks is a fold;
  `ReadLoopIs` unfolds it into a list of its states, and `LoopFits` says of each that the output is the slice of the chunks
  passed so far (`SliceGrows`, `SliceStays`), whether their sizes were known or they were fetched, unless one of them
  has been removed. The assumption is that chunks hold numbers and files are lists of chunks (`FuseAssumption`).

It proves of ForgetPolicy, for any arguments of --keep, any kinds of period and any number of backups and forgets:

- `PolicyHolds`: PolicySpec => []PolicyIsKept. `PolicyInv` says that the generations, and those that are left, are in the
  order of their numbers and times, and that what the policy wants of all there have been is left (`Chosen`). `EachOnce` says what
  `last_in_each_period` has collected after i generations: the last of each period, earlier periods first; so the
  last n of it are those with fewer than n later periods (`MatchIs`). That asking again after a removal chooses the same is `ChosenStay`: a generation
  that is wanted is the last of its period before and after, and each later period, as long as there are fewer than n of them, still has its
  own last generation, as that one is wanted too (`LaterStay`). The assumption is that
  periods are numbered as they follow each other (`PeriodsAssumption`).

Folds are within reach of these proofs by `FoldUnfolds` and `FoldGoes`: the library defines a fold by a choice of a function
that refers to itself. That there is one is shown for one element after the other, by a least number for which there is
none (`Induction`, from WFMin), and the fold is then the end of a path of states, one for each element.

Only model-checked: CallsReturn (liveness); the types and invariants of ClientTree6 and that it implements ClientFiles; the types of
Fsck and Restore.

## Plan

In this order, the most important behaviour first:

1. *Done.* AtomicLocks, LockManager, LockManagerProofs; RepoFormat6 with its four
   instances; TreeBackup and TreeBackupProofs; GAClient, shown to implement TreeBackup.
2. *Done.* RepositoryInterface, GreenAlbatross and CowTree; ClientFiles and ClientTree6.
3. *Done.* Fsck, Restore, RepoFiles, VirtualFiles and FilesProofs, ForgetPolicy, FuseMount.
4. *Done.* Proofs: NoCircularWait; RepoFormat6's types, lock discipline, generations, uses and chunks;
   FinishedIsComplete of TreeBackup; WrittenStays of VirtualFiles; the copy-on-write trees; types, bags, stored
   chunks, sound indexes and sessions of GreenAlbatross, and that it implements RepositoryInterface; what fsck and
   verify say and leave alone; types, CacheHangsTogether and NoDanglingDirectories of GAClient, and that it
   implements TreeBackup; what restore writes; WrittenIsRead of RepoFiles, ReadIsSlice of FuseMount and PolicyIsKept of ForgetPolicy.
5. Proofs: types of Fsck and Restore.
6. Generation and client keys, and in-tree data of format 6.

## Not modelled

Byte formats and serialisation: conversions with round-trip tests. The terminal, settings, messages, and the show commands:
they change nothing. gpg and paramiko are external: encryption is what only a key holder can undo, and connecting
and authentication are left out. The larch B-tree library is external; a forest is modelled
by what its last commit left, and fsck's checks of its nodes are left out. Client and generation keys, the in-tree data of small files in
format 6, the removal of unused chunks in Green Albatross (which does nothing), `verify --verify-randomly`, fifos, sockets and
devices, ownership, permissions and extended attributes are left out. In RepoFormat6 renaming and removing
clients needs only the lock of the client list and is left out; in GreenAlbatross both are there. In TreeBackup one command has one
backup root, a directory; exclusion
patterns, links and special files, and names that go away during a backup are left out. Restore and verify run on a
repository that no backup works on; FuseMount has what concurrent forgets do to a reader.
