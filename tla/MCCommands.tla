------------------------------ MODULE MCCommands ------------------------------
(* The parts of the system that share no state with each other or with the *)
(* other runs, one of them in each behaviour.                              *)
EXTENDS ClientTree6, RestCommands, RepoFiles, ForgetPolicy, FuseMount, VirtualFiles

(* ClientTree6: "/d" and "/d/f" have the same hash.                       *)
MCFiles  == {"/", "/d", "/d/f"}
MCPaths  == MCFiles \cup {"/d/g"}
DirName  == [p \in MCPaths |-> IF p \in {"/", "/d"} THEN "/" ELSE "/d"]
MCParent == [f \in MCFiles |-> DirName[f]]
MCAbove  == [f \in MCFiles |-> IF f = "/" THEN {"/"} ELSE {"/", "/d", f}]
MCHash   == [f \in MCFiles |-> IF f = "/" THEN 1 ELSE 3]
MCMetas  == [f \in MCFiles |-> IF f = "/d/f" THEN {1, 2} ELSE {1}]

(* AtRest: the chunks k1, k2 (zeroes) and k3.  A file is a regular file of some    *)
(* chunks, an unfinished one, or a symbolic link; "/d/f" and "/d/g" can    *)
(* have the same inode number.                                             *)
MCStore == [c \in {"k1", "k2", "k3"} |-> CASE c = "k1" -> 1 [] c = "k2" -> 0 [] c = "k3" -> 2]
MCBytes == {0, 1, 2}

Thing(kind, mtime, ino, nlink, chunks, md5) ==
  [kind |-> kind, mtime |-> mtime, ino |-> ino, nlink |-> nlink, chunks |-> chunks, md5 |-> md5]
Sums(chunks)       == [i \in DOMAIN chunks |-> MCStore[chunks[i]]]
FileOf(ino, nlink, chunks) == Thing("file", 1, ino, nlink, chunks, Sums(chunks))

Directory == Thing("dir", 2, 1, 1, << >>, << >>)
Link      == Thing("symlink", 1, 3, 1, << >>, << >>)
Tree(f, g) == [p \in MCPaths |-> IF p = "/d/f" THEN f ELSE IF p = "/d/g" THEN g ELSE Directory]

Small == {<< >>, <<"k1">>, <<"k2">>, <<"k1", "k2">>, <<"k2", "k1">>}
Linked == {<<"k1">>, <<"k2", "k1">>}
Trees ==
  {Tree(FileOf(2, 1, s), Link) : s \in Small}
  \cup {Tree(FileOf(2, 1, s), FileOf(3, 1, <<"k1", "k2">>)) : s \in Linked}
  \cup {Tree(FileOf(2, 2, s), FileOf(2, 2, s)) : s \in Linked}
  \cup {Tree(FileOf(2, 2, <<"k1">>), FileOf(2, 2, <<"k2">>)),
        Tree(FileOf(2, 2, <<"k1">>), [FileOf(2, 2, <<"k1">>) EXCEPT !.mtime = 3]),
        Tree(FileOf(2, 2, <<"k1">>), Link),
        Tree(Thing("file", 1, 2, 1, <<"k1">>, NoSum), Link)}

Older == {Tree(FileOf(2, 1, <<"k1">>), Link), Tree(FileOf(2, 1, <<"k3">>), Link)}

MCRepositories ==
  {[gens |-> <<[client |-> "c1", files |-> o], [client |-> "c2", files |-> Tree(Link, Link)],
              [client |-> "c1", files |-> t]>>, store |-> MCStore] :
     o \in Older, t \in Trees}

MCSettings ==
  {{}, {"rm-unused"}, {"skip-checksums"}, {"skip-checksums", "rm-unused"}}
  \cup {{"rm-unused", s} : s \in {"ignore-chunks", "skip-files", "skip-dirs", "skip-generations",
                                "last-generation-only", "ignore-client"}}
MCChanges == {"deleted", "touched", "replaced", "longer", "shorter", "altered"}

(* ForgetPolicy: days, weeks that start between days, and months.          *)
MCTimes    == 1 .. 6
MCPeriodOf ==
  [p \in {"daily", "weekly", "monthly"} |->
     [t \in MCTimes |-> CASE p = "daily"  -> (t + 1) \div 2
                          [] p = "weekly" -> t \div 3
                          [] OTHER        -> t \div 4]]
Rules      == {[count |-> n, period |-> p] : n \in 0 .. 2, p \in DOMAIN MCPeriodOf}
MCOptions  == UNION {[1 .. n -> Rules] : n \in 1 .. 2}

(* FuseMount: chunks of different sizes, files that changed while they     *)
(* were backed up.                                                         *)
MCBytesOf == [c \in {"k1", "k2"} |-> IF c = "k1" THEN <<1>> ELSE <<2, 3>>]
MCFileShapes ==
  {[chunks |-> <<"k1">>, size |-> 1], [chunks |-> <<"k2", "k1", "k2">>, size |-> 5],
   [chunks |-> <<"k2", "k1">>, size |-> 2], [chunks |-> <<"k2">>, size |-> 3]}

(* VirtualFiles: data of no, one and two pieces.                           *)
MCWritten == {<< >>, <<"a", "a">>, <<"b">>}

(* RepoFiles: a key command runs when there is encrypted data, and next to *)
(* processes that encrypt.                                                 *)
KeysMatter ==
  task # NoTask =>
    /\ \A t \in DataTops : Sealed(t)
    /\ \A u \in Users : process[u] # Off => process[u].encrypt

MCAlike == Permutations(Users)

VARIABLE part

IdleRest ==
  /\ gens = << >> /\ store = << >> /\ sums = << >>
  /\ command = "none" /\ damage = {} /\ before = {}
IdlePolicy == keep = parse(<< >>) /\ made = << >> /\ kept = << >>

Init ==
  /\ part \in {"client", "rest", "files", "policy", "mount", "virtual"}
  /\ ClientInit /\ FsckInit /\ RestoreInit /\ FilesInit /\ FuseInit
  /\ VirtualInit /\ (part # "virtual" => backend = "local")
  /\ IF part = "rest" THEN RestInit ELSE IdleRest
  /\ IF part = "policy" THEN PolicyInit ELSE IdlePolicy

ClientStep ==
  /\ part = "client" /\ ClientNext
  /\ UNCHANGED <<part, atRestVars, filesVars, policyVars, fuseVars, virtualVars>>

AtRestStep ==
  /\ part = "rest" /\ AtRestNext
  /\ UNCHANGED <<part, clientVars, filesVars, policyVars, fuseVars, virtualVars>>

FilesStep ==
  /\ part = "files" /\ FilesNext
  /\ UNCHANGED <<part, clientVars, atRestVars, policyVars, fuseVars, virtualVars>>

PolicyStep ==
  /\ part = "policy" /\ PolicyNext
  /\ UNCHANGED <<part, clientVars, atRestVars, filesVars, fuseVars, virtualVars>>

MountStep ==
  /\ part = "mount" /\ FuseNext
  /\ UNCHANGED <<part, clientVars, atRestVars, filesVars, policyVars, virtualVars>>

VirtualStep ==
  /\ part = "virtual" /\ VirtualNext
  /\ UNCHANGED <<part, clientVars, atRestVars, filesVars, policyVars, fuseVars>>

Next == ClientStep \/ AtRestStep \/ FilesStep \/ PolicyStep \/ MountStep \/ VirtualStep

TypesOK ==
  ClientTypeOK /\ RestTypeOK /\ FsckTypeOK /\ RestoreTypeOK
  /\ FilesTypeOK /\ PolicyTypeOK /\ FuseTypeOK /\ VirtualTypeOK
=============================================================================
