---------------------------- MODULE CommandsProofs ----------------------------
(***************************************************************************)
(* Proofs about RestCommands: what fsck says and removes, what verify      *)
(* says and what restore writes, for any repository, any settings and any  *)
(* damage; about FuseMount: what a read of a mounted file answers; and     *)
(* about ForgetPolicy: what forget keeps.                                  *)
(***************************************************************************)
EXTENDS RestCommands, FuseMount, ForgetPolicy, FiniteSetTheorems, WellFoundedInduction, TLAPS

-----------------------------------------------------------------------------
(* Lists of work                                                           *)

LEMMA IsList ==
  ASSUME NEW X, NEW n \in Nat, NEW f \in [1 .. n -> X]
  PROVE  f \in Seq(X)
  OBVIOUS

(* A set in any order.                                                     *)
LEMMA SetToSeqIs ==
  ASSUME NEW S, IsFiniteSet(S)
  PROVE  SetToSeq(S) \in Seq(S) /\ ToSet(SetToSeq(S)) = S
<1> DEFINE n == Cardinality(S)
<1>1. n \in Nat /\ ExistsBijection(1 .. n, S)
  BY FS_CardinalityType
<1>2. PICK f \in Bijection(1 .. n, S) : TRUE
  BY <1>1 DEF ExistsBijection
<1>3. f \in [1 .. n -> S] /\ IsInjective(f)
  BY <1>2 DEF Bijection, Injection, IsInjective
<1>4. SetToSeq(S) \in [1 .. n -> S] /\ IsInjective(SetToSeq(S))
  BY <1>3 DEF SetToSeq
<1>5. PICK h : h = SetToSeq(S)
  OBVIOUS
<1>6. h \in Injection(1 .. n, S)
  BY <1>4, <1>5 DEF Injection, IsInjective
<1>7. Cardinality(1 .. n) = n
  BY <1>1, FS_Interval
<1> HIDE DEF n
<1>8. h \in Surjection(1 .. n, S)
  BY <1>6, <1>7, FS_Injection DEF n
<1>9. \A s \in S : \E i \in 1 .. n : h[i] = s
  BY <1>8 DEF Surjection
<1>10. h \in [1 .. n -> S]
  BY <1>4, <1>5
<1>. QED
  BY <1>1, <1>5, <1>9, <1>10 DEF ToSet

LEMMA Concatenated ==
  ASSUME NEW X, NEW s \in Seq(X), NEW t \in Seq(X)
  PROVE  /\ s \o t \in Seq(X) /\ Len(s \o t) = Len(s) + Len(t)
         /\ \A i \in 1 .. Len(s) : (s \o t)[i] = s[i]
         /\ \A i \in 1 .. Len(t) : (s \o t)[Len(s) + i] = t[i]
         /\ ToSet(s \o t) = ToSet(s) \cup ToSet(t)
<1>1. /\ s \o t \in Seq(X) /\ Len(s \o t) = Len(s) + Len(t)
      /\ \A i \in 1 .. Len(s) : (s \o t)[i] = s[i]
      /\ \A i \in 1 .. Len(t) : (s \o t)[Len(s) + i] = t[i]
  OBVIOUS
<1>2. ToSet(s \o t) \subseteq ToSet(s) \cup ToSet(t)
  <2>1. ASSUME NEW i \in DOMAIN (s \o t) PROVE (s \o t)[i] \in ToSet(s) \cup ToSet(t)
    <3>1. i \in 1 .. Len(s) + Len(t)
      BY <1>1
    <3>2. CASE i <= Len(s)
      BY <1>1, <3>1, <3>2 DEF ToSet
    <3>3. CASE i > Len(s)
      <4>1. i - Len(s) \in 1 .. Len(t) /\ i = Len(s) + (i - Len(s))
        BY <3>1, <3>3
      <4>2. (s \o t)[i] = t[i - Len(s)]
        BY <1>1, <4>1
      <4>. QED
        BY <4>1, <4>2 DEF ToSet
    <3>. QED
      BY <3>1, <3>2, <3>3
  <2>. QED
    BY <2>1 DEF ToSet
<1>3. ToSet(s) \subseteq ToSet(s \o t)
  BY <1>1 DEF ToSet
<1>4. ToSet(t) \subseteq ToSet(s \o t)
  <2>1. ASSUME NEW i \in 1 .. Len(t) PROVE t[i] \in ToSet(s \o t)
    <3>1. Len(s) + i \in DOMAIN (s \o t) /\ (s \o t)[Len(s) + i] = t[i]
      BY <1>1
    <3>. QED
      BY <3>1 DEF ToSet
  <2>. QED
    BY <2>1 DEF ToSet
<1>. QED
  BY <1>1, <1>2, <1>3, <1>4

LEMMA HeadAndTail ==
  ASSUME NEW X, NEW s \in Seq(X), s # << >>
  PROVE  /\ Head(s) \in X /\ Tail(s) \in Seq(X)
         /\ Len(Tail(s)) = Len(s) - 1 /\ Len(s) \in Nat \ {0}
         /\ s[1] = Head(s) /\ \A i \in 1 .. Len(s) - 1 : Tail(s)[i] = s[i + 1]
         /\ ToSet(s) = {Head(s)} \cup ToSet(Tail(s))
<1>1. /\ Head(s) \in X /\ Tail(s) \in Seq(X)
      /\ Len(Tail(s)) = Len(s) - 1 /\ Len(s) \in Nat \ {0}
      /\ s[1] = Head(s) /\ \A i \in 1 .. Len(s) - 1 : Tail(s)[i] = s[i + 1]
  OBVIOUS
<1>2. ToSet(s) \subseteq {Head(s)} \cup ToSet(Tail(s))
  <2>1. ASSUME NEW i \in 1 .. Len(s), i # 1 PROVE s[i] \in ToSet(Tail(s))
    <3>1. i - 1 \in DOMAIN Tail(s) /\ Tail(s)[i - 1] = s[(i - 1) + 1]
      BY <1>1, <2>1
    <3>2. s[(i - 1) + 1] = s[i]
      BY <2>1
    <3>. QED
      BY <3>1, <3>2 DEF ToSet
  <2>. QED
    BY <1>1, <2>1 DEF ToSet
<1>3. ToSet(Tail(s)) \subseteq ToSet(s)
  <2>1. ASSUME NEW i \in 1 .. Len(s) - 1 PROVE Tail(s)[i] \in ToSet(s)
    <3>1. i + 1 \in DOMAIN s /\ Tail(s)[i] = s[i + 1]
      BY <1>1
    <3>. QED
      BY <3>1 DEF ToSet
  <2>. QED
    BY <1>1, <2>1 DEF ToSet
<1>4. Head(s) \in ToSet(s)
  BY <1>1 DEF ToSet
<1>. QED
  BY <1>1, <1>2, <1>3, <1>4
-----------------------------------------------------------------------------
(* What the commands leave alone                                           *)

(* Nothing has been damaged but what damage says.                          *)
Intact ==
  /\ \A c \in DOMAIN store \ damage :
       store[c] \in Bytes /\ (c \in DOMAIN sums => sums[c] = store[c])
  /\ \A g \in DOMAIN gens : \A p \in RegularFiles(g) :
       LET entry == gens[g].files[p]
       IN  \/ entry.md5 = NoSum
           \/ ToSet(entry.chunks) \cap damage # {}
           \/ entry.md5 = Contents(entry.chunks)

Kept ==
  /\ IsFiniteSet(DOMAIN gens) /\ DOMAIN gens \subseteq Nat
  /\ \A g \in DOMAIN gens :
       /\ IsTree(gens[g].files) /\ gens[g].client \in Clients
       /\ \A p \in DOMAIN gens[g].files : gens[g].files[p].chunks \in Seq(DOMAIN store)
       /\ \A p \in RegularFiles(g) \ Unfinished(g) : gens[g].files[p].md5 \in Seq(Bytes)
  /\ Intact
  /\ before \subseteq damage
  /\ damage # {} \/ before = {}

-----------------------------------------------------------------------------
(* The work items of fsck                                                  *)

IsFileItem(x) == x.gen \in DOMAIN gens /\ x.path \in DOMAIN gens[x.gen].files

Kinds == {"repository", "clientlist", "client", "generation", "dir", "file",
          "chunk", "checksum", "extra"}

Fits(x) ==
  /\ x.what = "generation" => x.gen \in DOMAIN gens /\ x.path = Top
  /\ x.what \in {"dir", "file", "chunk", "checksum"} => IsFileItem(x)
  /\ x.what = "dir" => gens[x.gen].files[x.path].kind = "dir"
  /\ x.what \in {"chunk", "checksum"} => gens[x.gen].files[x.path].kind = "file"
  /\ x.what = "chunk" => x.chunk \in ToSet(gens[x.gen].files[x.path].chunks)

Items == {x \in [what : Kinds, client : Clients \cup {Nothing}, gen : Nat,
                 path : DOMAIN DirOf \cup {Top}, chunk : DOMAIN store \cup {Nothing}] : Fits(x)}

Full == settings \cap Partial = {}

WorkFits ==
  /\ work \in Seq(Items)
  /\ command # "fsck" => work = << >>
  /\ final => Full
  /\ outcome # "none" => command = "over"

(* The final item comes when nothing else is left.                         *)
ExtraIsLast ==
  \A i \in DOMAIN work : work[i].what = "extra" => Len(work) = 1 /\ ~final /\ Full

(* Path p is d, or below it.                                               *)
IsUnder(p, d) == \A S \in SUBSET DOMAIN DirOf : p \in S /\ Upwards(S) => d \in S

(* Item x will lead to file p of generation g.                             *)
Leads(x, g, p) ==
  \/ x.what \in {"repository", "clientlist"}
  \/ x.what = "client" /\ x.client = gens[g].client
  \/ x.what = "generation" /\ x.gen = g
  \/ x.what = "dir" /\ x.gen = g /\ IsUnder(p, x.path)
  \/ x.what = "file" /\ x.gen = g /\ x.path = p

IsAbout(x, what, g, p) == x.what = what /\ x.gen = g /\ x.path = p

(* A chunk that is used has been seen, or will be.                         *)
UsesAreSeen ==
  command = "fsck" /\ Full =>
    \A g \in DOMAIN gens : \A p \in RegularFiles(g) : \A c \in ToSet(gens[g].files[p].chunks) :
      \/ c \in seen
      \/ \E x \in ToSet(work) : Leads(x, g, p) \/ (IsAbout(x, "chunk", g, p) /\ x.chunk = c)

(* The first k chunks of a file have been added to its checksummer.        *)
Added(g, p, k) ==
  LET chunks == gens[g].files[p].chunks
      sum    == summers[<<g, p>>]
  IN  /\ sum \in Seq(Bytes) /\ Len(sum) = k
      /\ \A i \in 1 .. k : sum[i] = store[chunks[i]]

(* The other chunks of the file are the next items, and then its checksum; *)
(* no other file is being read.                                            *)
Reading(g, p, k) ==
  LET chunks == gens[g].files[p].chunks
      left   == Len(chunks) - k
  IN  /\ p \in RegularFiles(g) /\ k \in 0 .. Len(chunks) /\ Len(work) >= left + 1
      /\ \A i \in 1 .. left : IsAbout(work[i], "chunk", g, p) /\ work[i].chunk = chunks[k + i]
      /\ IsAbout(work[left + 1], "checksum", g, p)
      /\ \A i \in left + 2 .. Len(work) : work[i].what \notin {"chunk", "checksum"}
      /\ <<g, p>> \in DOMAIN summers
      /\ ToSet(chunks) \cap damage = {} \/ (damage = before /\ alarms = {}) => Added(g, p, k)

InOrder ==
  IF "skip-checksums" \in settings
  THEN \A x \in ToSet(work) : x.what # "checksum"
  ELSE \/ \A x \in ToSet(work) : x.what \notin {"chunk", "checksum"}
       \/ \E g \in DOMAIN gens : \E p \in RegularFiles(g) :
            \E k \in 0 .. Len(gens[g].files[p].chunks) : Reading(g, p, k)

(* A file has been checked, or will be.                                    *)
IsWhole(g, p) ==
  LET entry == gens[g].files[p]
  IN  AllReadable(entry.chunks) /\ Contents(entry.chunks) = entry.md5

FilesAreChecked ==
  command = "fsck" /\ Complete /\ damage = before /\ alarms = {} =>
    \A g \in DOMAIN gens : \A p \in RegularFiles(g) :
      \/ IsWhole(g, p)
      \/ \E x \in ToSet(work) : Leads(x, g, p) \/ IsAbout(x, "checksum", g, p)

FsckInv ==
  /\ Kept /\ WorkFits /\ ExtraIsLast /\ UsesAreSeen /\ InOrder /\ FilesAreChecked
  /\ AlarmsAreReal /\ UsedStayIndexed /\ CleanFsckMeansWhole

-----------------------------------------------------------------------------
(* What no command changes                                                 *)

(* Commands read generations and chunks; damage is the only thing that     *)
(* happens to the chunks.                                                  *)
LEMMA OnlyDamage ==
  ASSUME [AtRestNext]_atRestVars
  PROVE  \/ Damage /\ UNCHANGED <<fsckVars, restoreVars>>
         \/ UNCHANGED <<gens, store, damage>>
<1> USE DEF atRestVars, restVars, fsckVars, restoreVars
<1>1. CASE UNCHANGED atRestVars
  BY <1>1
<1>2. CASE Damage /\ UNCHANGED <<fsckVars, restoreVars>>
  BY <1>2
<1>3. CASE FsckNext
  BY <1>3 DEF FsckNext, fsck_starts, fsck_ends, fsck_dies, check_repository, check_clientlist,
     check_client, check_generation, check_directory, check_file, check_chunk,
     check_file_checksum, check_extra_chunks, Done
<1>4. CASE RestoreNext
  BY <1>4 DEF RestoreNext, restore_starts, verify_starts, restore_dir, restore_first_link,
     restore_hardlink, restore_symlink, verify_file, command_ends
<1>. QED
  BY <1>1, <1>2, <1>3, <1>4 DEF AtRestNext

(* The checksums of chunks are never changed, only removed, and only by    *)
(* the last item of fsck.                                                  *)
LEMMA OnlyExtraRemoves ==
  ASSUME [AtRestNext]_atRestVars
  PROVE  (check_extra_chunks /\ UNCHANGED restoreVars) \/ UNCHANGED sums
<1> USE DEF atRestVars, restVars, fsckVars, restoreVars
<1>1. CASE FsckNext /\ UNCHANGED restoreVars
  BY <1>1 DEF FsckNext, fsck_starts, fsck_ends, fsck_dies, check_repository, check_clientlist,
     check_client, check_generation, check_directory, check_file, check_chunk,
     check_file_checksum, Done
<1>2. CASE RestoreNext
  BY <1>2 DEF RestoreNext, restore_starts, verify_starts, restore_dir, restore_first_link,
     restore_hardlink, restore_symlink, verify_file, command_ends
<1>. QED
  BY <1>1, <1>2 DEF AtRestNext, Damage

(* The damage a command starts with is the damage there is.                *)
LEMMA DamageBefore ==
  ASSUME [AtRestNext]_atRestVars
  PROVE  UNCHANGED before \/ (before' = damage /\ UNCHANGED damage)
<1> USE DEF atRestVars, restVars, fsckVars, restoreVars
<1>1. CASE FsckNext
  BY <1>1 DEF FsckNext, fsck_starts, fsck_ends, fsck_dies, check_repository, check_clientlist,
     check_client, check_generation, check_directory, check_file, check_chunk,
     check_file_checksum, check_extra_chunks, Done, Starts
<1>2. CASE RestoreNext
  BY <1>2 DEF RestoreNext, restore_starts, verify_starts, restore_dir, restore_first_link,
     restore_hardlink, restore_symlink, verify_file, command_ends, Starts
<1>. QED
  BY <1>1, <1>2 DEF AtRestNext, Damage

LEMMA SumsOfExtra ==
  ASSUME check_extra_chunks
  PROVE  /\ DOMAIN sums' \subseteq DOMAIN sums
         /\ \A c \in DOMAIN sums' : sums'[c] = sums[c]
  BY DEF check_extra_chunks

LEMMA KeptStarts == RestInit => Kept
<1> SUFFICES ASSUME NEW r \in Repositories, gens = r.gens, store = r.store, sums = store,
                    damage = {}, before = {}
             PROVE  Kept
  BY DEF RestInit
<1>1. /\ DOMAIN gens = 1 .. Len(gens) /\ Len(gens) \in Nat
      /\ store \in [DOMAIN store -> Bytes]
      /\ \A g \in DOMAIN gens :
           /\ IsTree(gens[g].files) /\ gens[g].client \in Clients
           /\ \A p \in DOMAIN gens[g].files : HasChunks(gens[g].files[p], store)
  BY RepositoriesAssumption, ClientsAssumption
<1>2. IsFiniteSet(DOMAIN gens) /\ DOMAIN gens \subseteq Nat
  <2>1. PICK n \in Nat : DOMAIN gens = 1 .. n
    BY <1>1
  <2>2. 1 \in Int /\ n \in Int
    BY <2>1
  <2>3. IsFiniteSet(1 .. n)
    BY <2>2, FS_Interval, Zenon
  <2>. QED
    BY <2>1, <2>3
<1>3. Intact
  <2>1. ASSUME NEW g \in DOMAIN gens, NEW p \in RegularFiles(g)
        PROVE  LET entry == gens[g].files[p]
               IN  entry.md5 = NoSum \/ entry.md5 = Contents(entry.chunks)
    BY <1>1, <2>1 DEF RegularFiles, HasChunks, Contents
  <2>. QED
    BY <1>1, <2>1 DEF Intact
<1>4. ASSUME NEW g \in DOMAIN gens, NEW p \in RegularFiles(g) \ Unfinished(g)
      PROVE  gens[g].files[p].md5 \in Seq(Bytes)
  <2>1. PICK list : list = gens[g].files[p].chunks
    OBVIOUS
  <2>2. PICK n \in Nat : list \in Seq(DOMAIN store) /\ DOMAIN list = 1 .. n
    <3>1. HasChunks(gens[g].files[p], store)
      BY <1>1 DEF RegularFiles
    <3>2. list \in Seq(DOMAIN store)
      BY <2>1, <3>1 DEF HasChunks
    <3>3. Len(list) \in Nat /\ DOMAIN list = 1 .. Len(list)
      BY <3>2
    <3>. QED
      BY <3>2, <3>3
  <2>3. gens[g].files[p].md5 = [i \in 1 .. n |-> store[list[i]]]
    <3>1. HasChunks(gens[g].files[p], store) /\ gens[g].files[p].kind = "file"
          /\ gens[g].files[p].md5 # NoSum
      BY <1>1 DEF RegularFiles, Unfinished
    <3>2. gens[g].files[p].md5 = [i \in DOMAIN list |-> store[list[i]]]
      BY <2>1, <3>1 DEF HasChunks
    <3>. QED
      BY <2>2, <3>2
  <2>4. [i \in 1 .. n |-> store[list[i]]] \in [1 .. n -> Bytes]
    BY <1>1, <2>2
  <2>. QED
    BY <2>2, <2>3, <2>4, IsList
<1>. QED
  BY <1>1, <1>2, <1>3, <1>4 DEF Kept, HasChunks

LEMMA KeptHolds ==
  ASSUME Kept, [AtRestNext]_atRestVars
  PROVE  Kept' /\ gens' = gens /\ DOMAIN store' = DOMAIN store
<1>1. gens' = gens /\ DOMAIN store' = DOMAIN store
  BY OnlyDamage DEF Damage
<1>2. /\ DOMAIN sums' \subseteq DOMAIN sums
      /\ \A c \in DOMAIN sums' : sums'[c] = sums[c]
  BY OnlyExtraRemoves, SumsOfExtra
<1>3. Intact'
  <2>1. CASE UNCHANGED <<gens, store, damage>>
    <3>1. \A c \in DOMAIN store \ damage :
            store[c] \in Bytes /\ (c \in DOMAIN sums' => sums'[c] = store[c])
      BY <1>2 DEF Kept, Intact
    <3>2. \A chunks : Contents(chunks)' = Contents(chunks)
      BY <2>1 DEF Contents
    <3>3. \A g \in DOMAIN gens : RegularFiles(g)' = RegularFiles(g)
      BY <1>1 DEF RegularFiles
    <3>. QED
      BY <2>1, <3>1, <3>2, <3>3 DEF Kept, Intact
  <2>2. CASE Damage
    <3>1. PICK c \in DOMAIN store, bad \in {Lost, Garbled} \cup Bytes :
            store' = [store EXCEPT ![c] = bad] /\ damage' = {c} /\ damage = {}
      BY <2>2 DEF Damage
    <3>2. ASSUME NEW k \in DOMAIN store \ damage'
          PROVE  store'[k] \in Bytes /\ (k \in DOMAIN sums' => sums'[k] = store'[k])
      BY <1>2, <3>1, <3>2 DEF Kept, Intact
    <3>3. ASSUME NEW g \in DOMAIN gens, NEW p \in RegularFiles(g)
          PROVE  LET entry == gens[g].files[p]
                 IN  \/ entry.md5 = NoSum
                     \/ ToSet(entry.chunks) \cap damage' # {}
                     \/ entry.md5 = Contents(entry.chunks)'
      <4> DEFINE entry == gens[g].files[p]
      <4>1. entry.md5 = NoSum \/ entry.md5 = Contents(entry.chunks)
        BY <3>1 DEF Kept, Intact
      <4>2. CASE c \notin ToSet(entry.chunks)
        <5>1. entry.chunks \in Seq(DOMAIN store)
          BY DEF Kept, RegularFiles
        <5>2. \A i \in DOMAIN entry.chunks : store'[entry.chunks[i]] = store[entry.chunks[i]]
          BY <3>1, <4>2, <5>1 DEF ToSet
        <5>3. Contents(entry.chunks)' = Contents(entry.chunks)
          BY <1>1, <5>2 DEF Contents
        <5>. QED
          BY <4>1, <5>3
      <4>. QED
        BY <3>1, <4>1, <4>2
    <3>. QED
      BY <1>1, <3>2, <3>3 DEF Intact, RegularFiles
  <2>. QED
    BY <2>1, <2>2, OnlyDamage
<1>4. (before \subseteq damage /\ (damage # {} \/ before = {}))'
  BY OnlyDamage, DamageBefore DEF Kept, Damage
<1>5. \A g \in DOMAIN gens : RegularFiles(g)' = RegularFiles(g) /\ Unfinished(g)' = Unfinished(g)
  BY <1>1 DEF RegularFiles, Unfinished
<1>. QED
  BY <1>1, <1>3, <1>4, <1>5 DEF Kept

-----------------------------------------------------------------------------
(* Paths                                                                   *)

LEMMA UnderTop ==
  ASSUME NEW p \in DOMAIN DirOf
  PROVE  IsUnder(p, Top)
  BY PathsAssumption DEF IsUnder

(* What is below a directory is in or below something that is in it.       *)
LEMMA UnderAChild ==
  ASSUME NEW files, IsTree(files), NEW p \in DOMAIN files, NEW d \in DOMAIN files,
         p # d, IsUnder(p, d)
  PROVE  \E q \in DOMAIN files \ {Top} : DirOf[q] = d /\ IsUnder(p, q)
<1> DEFINE S == {q \in DOMAIN files : IsUnder(p, q)} \ {d}
<1>1. p \in S /\ S \in SUBSET DOMAIN DirOf
  BY DEF IsTree, IsUnder
<1>2. ~Upwards(S)
  BY <1>1 DEF IsUnder
<1>3. PICK q \in S \ {Top} : DirOf[q] \notin S
  BY <1>2 DEF Upwards
<1>4. DirOf[q] \in DOMAIN files
  BY <1>3 DEF IsTree
<1>5. IsUnder(p, q)
  BY <1>3
<1>6. IsUnder(p, DirOf[q])
  BY <1>3, <1>5 DEF IsUnder, Upwards
<1>. QED
  BY <1>3, <1>4, <1>5, <1>6

LEMMA OnlyInDirectories ==
  ASSUME NEW files, IsTree(files), NEW p \in DOMAIN files, NEW q \in DOMAIN files,
         IsUnder(p, q), files[q].kind # "dir"
  PROVE  q = p
  BY UnderAChild DEF IsTree

-----------------------------------------------------------------------------
(* One work item                                                           *)

LEMMA FirstItem ==
  ASSUME WorkFits, work # << >>
  PROVE  /\ Head(work) \in Items /\ Head(work) \in ToSet(work) /\ Tail(work) \in Seq(Items)
         /\ ToSet(work) = {Head(work)} \cup ToSet(Tail(work))
         /\ command = "fsck"
<1>1. work \in Seq(Items)
  BY DEF WorkFits
<1>. QED
  BY <1>1, HeadAndTail DEF WorkFits

LEMMA ItemsDone ==
  ASSUME WorkFits, ExtraIsLast, work # << >>, NEW more \in Seq(Items), Done(more),
         \A x \in ToSet(more) : x.what # "extra"
  PROVE  /\ Items' = Items
         /\ WorkFits' /\ ExtraIsLast'
         /\ ToSet(more) \cup ToSet(Tail(work)) \subseteq ToSet(work')
         /\ \A x \in ToSet(work') : x \in ToSet(more) \cup ToSet(Tail(work)) \/ x.what = "extra"
         /\ more \o Tail(work) # << >> => work' = more \o Tail(work)
<1> DEFINE rest  == more \o Tail(work)
           extra == Item("extra", Nothing, 0, Top, Nothing)
<1>1. /\ work' = IF rest = << >> /\ final THEN <<extra>> ELSE rest
      /\ final' = (final /\ rest # << >>)
      /\ UNCHANGED <<gens, store, damage, command, settings, outcome, before>>
  BY DEF Done
<1>2. /\ Head(work) \in Items /\ Tail(work) \in Seq(Items) /\ command = "fsck"
      /\ ToSet(work) = {Head(work)} \cup ToSet(Tail(work))
  BY FirstItem
<1>3. Items' = Items
  BY <1>1 DEF Items, Fits, IsFileItem
<1>4. rest \in Seq(Items) /\ ToSet(rest) = ToSet(more) \cup ToSet(Tail(work))
  <2>1. PICK I : I = Items
    OBVIOUS
  <2>2. PICK t : t = Tail(work)
    OBVIOUS
  <2>3. more \in Seq(I) /\ t \in Seq(I)
    BY <1>2, <2>1, <2>2
  <2> HIDE DEF rest, extra
  <2>4. more \o t \in Seq(I) /\ ToSet(more \o t) = ToSet(more) \cup ToSet(t)
    BY <2>3, Concatenated
  <2>. QED
    BY <2>1, <2>2, <2>4 DEF rest
<1>5. extra \in Items /\ extra.what = "extra"
  <2>1. extra \in [what : Kinds, client : Clients \cup {Nothing}, gen : Nat,
                   path : DOMAIN DirOf \cup {Top}, chunk : DOMAIN store \cup {Nothing}]
    BY DEF Item, Kinds
  <2>2. Fits(extra) /\ extra.what = "extra"
    BY DEF Item, Fits
  <2>. QED
    BY <2>1, <2>2 DEF Items
<1>6. <<extra>> \in Seq(Items) /\ ToSet(<<extra>>) = {extra} /\ Len(<<extra>>) = 1
  BY <1>5 DEF ToSet
<1>7. Full' <=> Full
  BY <1>1 DEF Full, Partial
<1>8. ASSUME NEW x \in ToSet(rest) PROVE x.what # "extra"
  <2>1. CASE x \in ToSet(more)
    BY <2>1
  <2>2. CASE x \in ToSet(Tail(work))
    <3>1. work \in Seq(Items)
      BY DEF WorkFits
    <3>2. PICK i \in 1 .. Len(Tail(work)) : x = Tail(work)[i]
      BY <1>2, <2>2 DEF ToSet
    <3>3. i + 1 \in DOMAIN work /\ work[i + 1] = x /\ Len(work) # 1
      BY <3>1, <3>2, HeadAndTail
    <3>. QED
      BY <3>3 DEF ExtraIsLast
  <2>. QED
    BY <1>4, <2>1, <2>2
<1> HIDE DEF rest, extra
<1>9. CASE rest = << >> /\ final
  <2>1. work' = <<extra>> /\ final' = FALSE /\ Full'
    BY <1>1, <1>7, <1>9 DEF WorkFits
  <2>2. WorkFits'
    BY <1>1, <1>2, <1>3, <1>6, <2>1 DEF WorkFits
  <2>3. ExtraIsLast'
    BY <1>6, <2>1 DEF ExtraIsLast
  <2>4. ToSet(rest) = {}
    BY <1>9 DEF ToSet
  <2>. QED
    BY <1>3, <1>4, <1>5, <1>6, <1>9, <2>1, <2>2, <2>3, <2>4 DEF rest
<1>10. CASE ~(rest = << >> /\ final)
  <2>1. work' = rest
    BY <1>1, <1>10
  <2>2. WorkFits'
    BY <1>1, <1>2, <1>3, <1>4, <1>7, <2>1 DEF WorkFits
  <2>3. ExtraIsLast'
    BY <1>8, <2>1 DEF ExtraIsLast, ToSet
  <2>. QED
    BY <1>3, <1>4, <2>1, <2>2, <2>3 DEF rest
<1>. QED
  BY <1>9, <1>10

-----------------------------------------------------------------------------
(* The steps that only put more items in the list                          *)

Expands(more) ==
  /\ more \in Seq(Items) /\ Done(more)
  /\ UNCHANGED <<sums, seen, alarms>>
  /\ work # << >> /\ Head(work).what \notin {"chunk", "checksum", "extra"}
  /\ \A x \in ToSet(more) : x.what \notin {"chunk", "checksum", "extra"}
  /\ Full => \A g \in DOMAIN gens : \A p \in RegularFiles(g) :
               Leads(Head(work), g, p) => \E x \in ToSet(more) : Leads(x, g, p)

(* One item after another, each for a member of a set.                     *)
IsOneForEach(S, order, more) ==
  /\ \A x \in ToSet(more) : \E i \in DOMAIN order : x = more[i]
  /\ \A s \in S : \E i \in DOMAIN order : order[i] = s /\ more[i] \in ToSet(more)

LEMMA OneForEach ==
  ASSUME NEW S, NEW order \in Seq(S), ToSet(order) = S, NEW X,
         NEW more \in [DOMAIN order -> X]
  PROVE  more \in Seq(X) /\ IsOneForEach(S, order, more)
<1>2. PICK n \in Nat : DOMAIN order = 1 .. n
  OBVIOUS
<1>4. more \in Seq(X)
  BY <1>2, IsList
<1>. QED
  BY <1>4 DEF ToSet, IsOneForEach

LEMMA RepositoryExpands ==
  ASSUME WorkFits, check_repository
  PROVE  \E more : Expands(more)
<1> DEFINE item == Item("clientlist", Nothing, 0, Top, Nothing)
<1>1. item \in Items
  <2>1. item \in [what : Kinds, client : Clients \cup {Nothing}, gen : Nat,
                  path : DOMAIN DirOf \cup {Top}, chunk : DOMAIN store \cup {Nothing}]
    BY DEF Item, Kinds
  <2>2. Fits(item)
    BY DEF Item, Fits
  <2>. QED
    BY <2>1, <2>2 DEF Items
<1>2. <<item>> \in Seq(Items) /\ ToSet(<<item>>) = {item}
  BY <1>1 DEF ToSet
<1>3. item.what = "clientlist"
  BY DEF Item
<1>4. Done(<<item>>) /\ Working("repository") /\ UNCHANGED <<sums, seen, alarms>>
  BY DEF check_repository
<1> HIDE DEF item
<1>5. Expands(<<item>>)
  BY <1>2, <1>3, <1>4 DEF Expands, Working, Leads
<1>. QED
  BY <1>5

LEMMA ClientlistExpands ==
  ASSUME Kept, WorkFits, check_clientlist
  PROVE  \E more : Expands(more)
<1>s. PICK S : S = Clients \ (IF "ignore-client" \in settings THEN {CHOOSE c \in Clients : TRUE} ELSE {})
  OBVIOUS
<1>o. PICK order : order = SetToSeq(S)
  OBVIOUS
<1>m. PICK m : m = [i \in DOMAIN order |-> Item("client", order[i], 0, Top, Nothing)]
  OBVIOUS
<1>1. IsFiniteSet(S) /\ S \subseteq Clients
  BY <1>s, ClientsAssumption, FS_Subset
<1>2. ASSUME NEW c \in S PROVE Item("client", c, 0, Top, Nothing) \in Items
  <2>1. Item("client", c, 0, Top, Nothing)
          \in [what : Kinds, client : Clients \cup {Nothing}, gen : Nat,
               path : DOMAIN DirOf \cup {Top}, chunk : DOMAIN store \cup {Nothing}]
    BY <1>1 DEF Item, Kinds
  <2>2. Fits(Item("client", c, 0, Top, Nothing))
    BY DEF Item, Fits
  <2>. QED
    BY <2>1, <2>2 DEF Items
<1>3. Done(m) /\ Working("clientlist") /\ UNCHANGED <<sums, seen, alarms>>
  BY <1>s, <1>o, <1>m DEF check_clientlist
<1>4. \A i \in DOMAIN order : m[i] = Item("client", order[i], 0, Top, Nothing)
  BY <1>m
<1>i. PICK I : I = Items
  OBVIOUS
<1>5. order \in Seq(S) /\ ToSet(order) = S /\ \A i \in DOMAIN order : order[i] \in S
  BY <1>1, <1>o, SetToSeqIs DEF ToSet
<1>10. m \in [DOMAIN order -> I]
  BY <1>2, <1>5, <1>m, <1>i
<1>6. m \in Seq(I) /\ IsOneForEach(S, order, m)
  BY <1>5, <1>10, OneForEach
<1>7. ASSUME Full, NEW g \in DOMAIN gens, NEW p \in RegularFiles(g)
      PROVE  \E x \in ToSet(m) : Leads(x, g, p)
  <2>1. gens[g].client \in S
    BY <1>7, <1>s DEF Kept, Full, Partial
  <2>2. PICK i \in DOMAIN order : order[i] = gens[g].client /\ m[i] \in ToSet(m)
    BY <1>6, <2>1 DEF IsOneForEach
  <2>. QED
    BY <1>4, <2>2 DEF Leads, Item
<1>8. ASSUME NEW x \in ToSet(m) PROVE x.what = "client"
  <2>1. PICK i \in DOMAIN order : x = m[i]
    BY <1>6 DEF IsOneForEach
  <2>2. x = Item("client", order[i], 0, Top, Nothing)
    BY <1>4, <2>1
  <2>. QED
    BY <2>2 DEF Item
<1>9. Expands(m)
  BY <1>3, <1>6, <1>7, <1>8, <1>i DEF Expands, Working
<1>. QED
  BY <1>9

LEMMA ClientExpands ==
  ASSUME Kept, WorkFits, check_client
  PROVE  \E more : Expands(more)
<1>c. PICK client, all : client = Head(work).client /\ all = GenerationsOf(client)
  OBVIOUS
<1>s. PICK S : S = IF "skip-generations" \in settings THEN {}
                 ELSE IF "last-generation-only" \in settings
                 THEN {g \in all : \A h \in all : h <= g} ELSE all
  OBVIOUS
<1>o. PICK order : order = SetToSeq(S)
  OBVIOUS
<1>m. PICK m : m = [i \in DOMAIN order |-> Item("generation", client, order[i], Top, Nothing)]
  OBVIOUS
<1>0. /\ Head(work) \in Items /\ Working("client")
      /\ all = {g \in DOMAIN gens : gens[g].client = client}
  BY <1>c, FirstItem DEF check_client, Working, GenerationsOf
<1>1. IsFiniteSet(S) /\ S \subseteq DOMAIN gens
  <2>1. S \subseteq DOMAIN gens
    BY <1>0, <1>s
  <2>. QED
    BY <2>1, FS_Subset DEF Kept
<1>2. ASSUME NEW g \in S PROVE Item("generation", client, g, Top, Nothing) \in Items
  <2>1. Item("generation", client, g, Top, Nothing)
          \in [what : Kinds, client : Clients \cup {Nothing}, gen : Nat,
               path : DOMAIN DirOf \cup {Top}, chunk : DOMAIN store \cup {Nothing}]
    BY <1>0, <1>1, <1>c DEF Item, Kinds, Items, Kept
  <2>2. Fits(Item("generation", client, g, Top, Nothing))
    BY <1>1 DEF Item, Fits
  <2>. QED
    BY <2>1, <2>2 DEF Items
<1>3. Done(m) /\ UNCHANGED <<sums, seen, alarms>>
  BY <1>c, <1>s, <1>o, <1>m DEF check_client
<1>4. \A i \in DOMAIN order : m[i] = Item("generation", client, order[i], Top, Nothing)
  BY <1>m
<1>i. PICK I : I = Items
  OBVIOUS
<1>5. order \in Seq(S) /\ ToSet(order) = S /\ \A i \in DOMAIN order : order[i] \in S
  BY <1>1, <1>o, SetToSeqIs DEF ToSet
<1>10. m \in [DOMAIN order -> I]
  BY <1>2, <1>5, <1>m, <1>i
<1>6. m \in Seq(I) /\ IsOneForEach(S, order, m)
  BY <1>5, <1>10, OneForEach
<1>7. ASSUME Full, NEW g \in DOMAIN gens, NEW p \in RegularFiles(g), Leads(Head(work), g, p)
      PROVE  \E x \in ToSet(m) : Leads(x, g, p)
  <2>1. g \in S
    BY <1>0, <1>7, <1>c, <1>s DEF Full, Partial, Leads, Working
  <2>2. PICK i \in DOMAIN order : order[i] = g /\ m[i] \in ToSet(m)
    BY <1>6, <2>1 DEF IsOneForEach
  <2>. QED
    BY <1>4, <2>2 DEF Leads, Item
<1>8. ASSUME NEW x \in ToSet(m) PROVE x.what = "generation"
  <2>1. PICK i \in DOMAIN order : x = m[i]
    BY <1>6 DEF IsOneForEach
  <2>2. x = Item("generation", client, order[i], Top, Nothing)
    BY <1>4, <2>1
  <2>. QED
    BY <2>2 DEF Item
<1>9. Expands(m)
  BY <1>0, <1>3, <1>6, <1>7, <1>8, <1>i DEF Expands, Working
<1>. QED
  BY <1>9

LEMMA GenerationExpands ==
  ASSUME Kept, WorkFits, check_generation
  PROVE  \E more : Expands(more)
<1> PICK item : item = Head(work)
  OBVIOUS
<1>1. item \in Items /\ item.what = "generation" /\ work # << >>
  BY FirstItem DEF check_generation, Working
<1>2. CASE "skip-dirs" \in settings
  <2>1. Done(<< >>) /\ UNCHANGED <<sums, seen, alarms>>
    BY <1>2 DEF check_generation
  <2>2. ~Full /\ << >> \in Seq(Items) /\ ToSet(<< >>) = {}
    BY <1>2 DEF Full, Partial, ToSet
  <2>3. Expands(<< >>)
    BY <1>1, <2>1, <2>2 DEF Expands
  <2>. QED
    BY <2>3
<1>3. CASE "skip-dirs" \notin settings
  <2> DEFINE dir == [item EXCEPT !.what = "dir"]
  <2>1. Done(<<dir>>) /\ UNCHANGED <<sums, seen, alarms>>
    BY <1>3 DEF check_generation
  <2>2. /\ dir \in [what : Kinds, client : Clients \cup {Nothing}, gen : Nat,
                    path : DOMAIN DirOf \cup {Top}, chunk : DOMAIN store \cup {Nothing}]
        /\ dir.what = "dir" /\ dir.gen = item.gen /\ dir.path = Top /\ item.gen \in DOMAIN gens
    BY <1>1 DEF Items, Kinds, Fits
  <2> HIDE DEF dir
  <2>3. dir \in Items
    BY <2>2 DEF Items, Fits, IsFileItem, Kept, IsTree
  <2>4. <<dir>> \in Seq(Items) /\ ToSet(<<dir>>) = {dir}
    BY <2>3 DEF ToSet
  <2>5. ASSUME NEW g \in DOMAIN gens, NEW p \in RegularFiles(g), Leads(item, g, p)
        PROVE  Leads(dir, g, p)
    <3>1. IsUnder(p, Top)
      BY UnderTop DEF Kept, IsTree, RegularFiles
    <3>. QED
      BY <1>1, <2>2, <2>5, <3>1 DEF Leads
  <2>6. Expands(<<dir>>)
    BY <1>1, <2>1, <2>2, <2>4, <2>5 DEF Expands
  <2>. QED
    BY <2>6
<1>. QED
  BY <1>2, <1>3

LEMMA DirectoryExpands ==
  ASSUME Kept, WorkFits, check_directory
  PROVE  \E more : Expands(more)
<1>h. PICK item, files : item = Head(work) /\ files = gens[item.gen].files
  OBVIOUS
<1>s. PICK S : S = LET kids == {p \in DOMAIN files \ {Top} : DirOf[p] = item.path}
                   IN  IF "skip-files" \in settings
                       THEN {p \in kids : files[p].kind = "dir"} ELSE kids
  OBVIOUS
<1>o. PICK order : order = SetToSeq(S)
  OBVIOUS
<1> DEFINE New(q) == [item EXCEPT !.path = q, !.what = IF files[q].kind = "dir" THEN "dir" ELSE "file"]
<1>m. PICK m : m = [i \in DOMAIN order |-> New(order[i])]
  OBVIOUS
<1>0. /\ item \in Items /\ item.what = "dir" /\ work # << >>
      /\ item.gen \in DOMAIN gens /\ item.path \in DOMAIN files
      /\ files[item.path].kind = "dir" /\ IsTree(files)
  BY <1>h, FirstItem DEF check_directory, Working, Items, Fits, IsFileItem, Kept
<1>1. IsFiniteSet(S) /\ S \subseteq DOMAIN files \ {Top} /\ DOMAIN files \subseteq DOMAIN DirOf
  <2>1. S \subseteq DOMAIN files \ {Top} /\ DOMAIN files \subseteq DOMAIN DirOf
    BY <1>0, <1>s DEF IsTree
  <2>. QED
    BY <2>1, FS_Subset, PathsAssumption
<1>2. ASSUME NEW q \in S
      PROVE  /\ New(q) \in Items /\ New(q).path = q /\ New(q).gen = item.gen
             /\ New(q).what = IF files[q].kind = "dir" THEN "dir" ELSE "file"
  <2>1. /\ New(q) \in [what : Kinds, client : Clients \cup {Nothing}, gen : Nat,
                       path : DOMAIN DirOf \cup {Top}, chunk : DOMAIN store \cup {Nothing}]
        /\ New(q).path = q /\ New(q).gen = item.gen
        /\ New(q).what = IF files[q].kind = "dir" THEN "dir" ELSE "file"
    BY <1>0, <1>1 DEF Items, Kinds
  <2> HIDE DEF New
  <2>2. Fits(New(q))
    BY <1>0, <1>1, <1>h, <2>1 DEF Fits, IsFileItem
  <2>. QED
    BY <2>1, <2>2 DEF Items
<1>3. Done(m) /\ UNCHANGED <<sums, seen, alarms>>
  BY <1>h, <1>s, <1>o, <1>m DEF check_directory
<1> HIDE DEF New
<1>4. \A i \in DOMAIN order : m[i] = New(order[i])
  BY <1>m
<1>i. PICK I : I = Items
  OBVIOUS
<1>5. order \in Seq(S) /\ ToSet(order) = S /\ \A i \in DOMAIN order : order[i] \in S
  BY <1>1, <1>o, SetToSeqIs DEF ToSet
<1>10. m \in [DOMAIN order -> I]
  BY <1>2, <1>5, <1>m, <1>i
<1>6. m \in Seq(I) /\ IsOneForEach(S, order, m)
  BY <1>5, <1>10, OneForEach
<1>7. ASSUME Full, NEW g \in DOMAIN gens, NEW p \in RegularFiles(g), Leads(item, g, p)
      PROVE  \E x \in ToSet(m) : Leads(x, g, p)
  <2>1. /\ item.gen = g /\ IsUnder(p, item.path) /\ p # item.path
        /\ p \in DOMAIN files /\ files[p].kind = "file"
    BY <1>0, <1>7, <1>h DEF Leads, RegularFiles
  <2>2. PICK q \in DOMAIN files \ {Top} : DirOf[q] = item.path /\ IsUnder(p, q)
    BY <1>0, <2>1, UnderAChild
  <2>3. q \in S
    BY <1>7, <1>s, <2>2 DEF Full, Partial
  <2>4. files[q].kind = "dir" \/ q = p
    BY <1>0, <2>1, <2>2, OnlyInDirectories
  <2>5. Leads(New(q), g, p)
    BY <1>2, <2>1, <2>2, <2>3, <2>4 DEF Leads
  <2>6. PICK i \in DOMAIN order : order[i] = q /\ m[i] \in ToSet(m)
    BY <1>6, <2>3 DEF IsOneForEach
  <2>. QED
    BY <1>4, <2>5, <2>6
<1>8. ASSUME NEW x \in ToSet(m) PROVE x.what \in {"dir", "file"}
  <2>1. PICK i \in DOMAIN order : x = m[i]
    BY <1>6 DEF IsOneForEach
  <2>2. x = New(order[i]) /\ order[i] \in S
    BY <1>4, <1>5, <2>1
  <2>. QED
    BY <1>2, <2>2
<1>9. Expands(m)
  BY <1>0, <1>3, <1>6, <1>7, <1>8, <1>h, <1>i DEF Expands
<1>. QED
  BY <1>9

(* A file whose chunks are not looked at.                                  *)
LEMMA FileExpands ==
  ASSUME Kept, WorkFits, check_file,
         gens[Head(work).gen].files[Head(work).path].kind # "file" \/ "ignore-chunks" \in settings
  PROVE  \E more : Expands(more)
<1>h. PICK item : item = Head(work)
  OBVIOUS
<1>1. item \in Items /\ item.what = "file" /\ work # << >>
  BY <1>h, FirstItem DEF check_file, Working
<1>2. Done(<< >>) /\ UNCHANGED <<sums, seen, alarms>>
  BY DEF check_file
<1>3. << >> \in Seq(Items) /\ ToSet(<< >>) = {}
  BY DEF ToSet
<1>4. ASSUME Full, NEW g \in DOMAIN gens, NEW p \in RegularFiles(g), Leads(item, g, p)
      PROVE  FALSE
  BY <1>1, <1>4, <1>h DEF Full, Partial, Leads, RegularFiles
<1>5. Expands(<< >>)
  BY <1>1, <1>2, <1>3, <1>4, <1>h DEF Expands
<1>. QED
  BY <1>5

-----------------------------------------------------------------------------
(* fsck keeps the invariant                                                *)

LEMMA SameFiles ==
  ASSUME gens' = gens
  PROVE  /\ \A g : RegularFiles(g)' = RegularFiles(g)
         /\ \A x, g, p : Leads(x, g, p)' <=> Leads(x, g, p)
         /\ \A g : UsedChunks(g)' = UsedChunks(g) /\ Unfinished(g)' = Unfinished(g)
  BY DEF RegularFiles, Leads, UsedChunks, Unfinished

(* While fsck works it has not ended.                                      *)
LEMMA NotEnded ==
  ASSUME WorkFits', command' = "fsck"
  PROVE  CleanFsckMeansWhole'
  BY DEF WorkFits, CleanFsckMeansWhole

LEMMA DoneChanges ==
  ASSUME NEW more, Done(more)
  PROVE  UNCHANGED <<gens, store, damage, command, settings, outcome, before>>
  BY DEF Done

(* The same alarms are as real as before when there is more damage.        *)
LEMMA AlarmsStayReal ==
  ASSUME AlarmsAreReal, gens' = gens, damage \subseteq damage', alarms' = alarms
  PROVE  AlarmsAreReal'
<1>1. SUFFICES ASSUME NEW alarm \in alarms
               PROVE  CASE alarm[1] \in {"missing", "corrupted"} -> alarm[2] \in damage'
                        [] alarm[1] = "checksum" ->
                             \/ alarm[2][2] \in Unfinished(alarm[2][1])'
                             \/ ToSet(gens[alarm[2][1]].files[alarm[2][2]].chunks) \cap damage' # {}
                        [] OTHER -> \A g \in DOMAIN gens : alarm[2] \notin UsedChunks(g)'
  BY DEF AlarmsAreReal
<1>. QED
  BY SameFiles DEF AlarmsAreReal

LEMMA FileHasChunks ==
  ASSUME Kept, NEW g \in DOMAIN gens, NEW p \in RegularFiles(g)
  PROVE  LET chunks == gens[g].files[p].chunks
         IN  /\ chunks \in Seq(DOMAIN store) /\ Len(chunks) \in Nat
             /\ DOMAIN chunks = 1 .. Len(chunks)
             /\ gens[g].files[p].kind = "file" /\ p \in DOMAIN gens[g].files
  BY DEF Kept, RegularFiles

LEMMA NothingIsRead ==
  ASSUME Kept, InOrder, "skip-checksums" \notin settings, work[1].what \notin {"chunk", "checksum"}
  PROVE  \A x \in ToSet(work) : x.what \notin {"chunk", "checksum"}
<1> SUFFICES ASSUME NEW g \in DOMAIN gens, NEW p \in RegularFiles(g),
                    NEW k \in 0 .. Len(gens[g].files[p].chunks), Reading(g, p, k)
             PROVE  FALSE
  BY DEF InOrder
<1>1. PICK n : n = Len(gens[g].files[p].chunks)
  OBVIOUS
<1>2. n \in Nat /\ k \in 0 .. n
  BY <1>1, FileHasChunks
<1>3. /\ \A i \in 1 .. n - k : work[i].what = "chunk"
      /\ work[n - k + 1].what = "checksum"
  BY <1>1 DEF Reading, IsAbout
<1>4. CASE n = k
  BY <1>2, <1>3, <1>4
<1>5. CASE n # k
  <2>1. 1 \in 1 .. n - k
    BY <1>2, <1>5
  <2>. QED
    BY <1>3, <2>1
<1>. QED
  BY <1>4, <1>5

LEMMA ExpandsKeeps ==
  ASSUME FsckInv, NEW more, Expands(more)
  PROVE  /\ WorkFits' /\ ExtraIsLast' /\ UsesAreSeen' /\ InOrder' /\ FilesAreChecked'
         /\ AlarmsAreReal' /\ UsedStayIndexed' /\ CleanFsckMeansWhole'
<1>h. PICK item, rest : item = Head(work) /\ rest = Tail(work)
  OBVIOUS
<1>1. /\ more \in Seq(Items) /\ Done(more) /\ work # << >>
      /\ item.what \notin {"chunk", "checksum", "extra"}
      /\ UNCHANGED <<sums, seen, alarms>>
      /\ \A x \in ToSet(more) : x.what \notin {"chunk", "checksum", "extra"}
  BY <1>h DEF Expands
<1>2. UNCHANGED <<gens, store, damage, command, settings, outcome, before>>
  BY <1>1, DoneChanges
<1>3. /\ WorkFits /\ ExtraIsLast /\ ToSet(work) = {item} \cup ToSet(rest) /\ command = "fsck"
      /\ rest \in Seq(Items) /\ work[1] = item
  BY <1>1, <1>h, FirstItem, HeadAndTail DEF FsckInv, WorkFits
<1>4. /\ WorkFits' /\ ExtraIsLast'
      /\ ToSet(more) \cup ToSet(rest) \subseteq ToSet(work')
      /\ \A x \in ToSet(work') : x \in ToSet(more) \cup ToSet(rest) \/ x.what = "extra"
  BY <1>1, <1>3, <1>h, ItemsDone
<1>5. ASSUME Full, NEW g \in DOMAIN gens, NEW p \in RegularFiles(g), NEW x \in ToSet(work),
             Leads(x, g, p)
      PROVE  \E y \in ToSet(work') : Leads(y, g, p)
  <2>1. CASE x = item
    <3>1. PICK y \in ToSet(more) : Leads(y, g, p)
      BY <1>5, <1>h, <2>1 DEF Expands
    <3>. QED
      BY <1>4, <3>1
  <2>. QED
    BY <1>3, <1>4, <1>5, <2>1
<1>6. UsesAreSeen'
  <2> SUFFICES ASSUME Full, NEW g \in DOMAIN gens, NEW p \in RegularFiles(g),
                      NEW c \in ToSet(gens[g].files[p].chunks), c \notin seen
               PROVE  \E x \in ToSet(work') :
                        Leads(x, g, p) \/ (IsAbout(x, "chunk", g, p) /\ x.chunk = c)
    BY <1>1, <1>2, SameFiles DEF UsesAreSeen, IsAbout, Full, Partial
  <2>1. PICK x \in ToSet(work) : Leads(x, g, p) \/ (IsAbout(x, "chunk", g, p) /\ x.chunk = c)
    BY <1>3 DEF FsckInv, UsesAreSeen
  <2>2. CASE Leads(x, g, p)
    BY <1>5, <2>2
  <2>3. CASE IsAbout(x, "chunk", g, p) /\ x.chunk = c
    BY <1>1, <1>3, <1>4, <2>3 DEF IsAbout
  <2>. QED
    BY <2>1, <2>2, <2>3
<1>7. InOrder'
  <2>1. CASE "skip-checksums" \in settings
    <3>1. \A x \in ToSet(work) : x.what # "checksum"
      BY <2>1 DEF FsckInv, InOrder
    <3>. QED
      BY <1>1, <1>2, <1>3, <1>4, <2>1, <3>1 DEF InOrder
  <2>2. CASE "skip-checksums" \notin settings
    <3>1. \A x \in ToSet(work) : x.what \notin {"chunk", "checksum"}
      BY <1>1, <1>3, <2>2, NothingIsRead DEF FsckInv
    <3>2. \A x \in ToSet(work') : x.what \notin {"chunk", "checksum"}
      BY <1>1, <1>3, <1>4, <3>1
    <3>. QED
      BY <1>2, <2>2, <3>2 DEF InOrder
  <2>. QED
    BY <2>1, <2>2
<1>8. FilesAreChecked'
  <2> SUFFICES ASSUME Complete, damage = before, alarms = {},
                      NEW g \in DOMAIN gens, NEW p \in RegularFiles(g), ~IsWhole(g, p)
               PROVE  \E x \in ToSet(work') : Leads(x, g, p) \/ IsAbout(x, "checksum", g, p)
    BY <1>1, <1>2, SameFiles
       DEF FilesAreChecked, IsAbout, Complete, IsWhole, AllReadable, Readable, Contents
  <2>1. PICK x \in ToSet(work) : Leads(x, g, p) \/ IsAbout(x, "checksum", g, p)
    BY <1>3 DEF FsckInv, FilesAreChecked
  <2>2. CASE Leads(x, g, p)
    BY <1>5, <2>2 DEF Complete, Full, Partial
  <2>3. CASE IsAbout(x, "checksum", g, p)
    BY <1>1, <1>3, <1>4, <2>3 DEF IsAbout
  <2>. QED
    BY <2>1, <2>2, <2>3
<1>9. AlarmsAreReal'
  BY <1>1, <1>2, AlarmsStayReal DEF FsckInv
<1>10. UsedStayIndexed'
  BY <1>1, <1>2, SameFiles DEF FsckInv, UsedStayIndexed
<1>. QED
  BY <1>2, <1>3, <1>4, <1>6, <1>7, <1>8, <1>9, <1>10, NotEnded

(* CheckFile puts the chunks of the file, and its checksum, in front.      *)
LEMMA FileKeeps ==
  ASSUME FsckInv, check_file,
         gens[Head(work).gen].files[Head(work).path].kind = "file", "ignore-chunks" \notin settings
  PROVE  /\ WorkFits' /\ ExtraIsLast' /\ UsesAreSeen' /\ InOrder' /\ FilesAreChecked'
         /\ AlarmsAreReal' /\ UsedStayIndexed' /\ CleanFsckMeansWhole'
<1>h. PICK item, rest : item = Head(work) /\ rest = Tail(work)
  OBVIOUS
<1>e. PICK file, path, list : /\ file = item.gen /\ path = item.path
                              /\ list = gens[file].files[path].chunks
  OBVIOUS
<1>c. PICK chunks : chunks = [i \in DOMAIN list |->
                                [item EXCEPT !.what = "chunk", !.chunk = list[i]]]
  OBVIOUS
<1>k. PICK check : check = [item EXCEPT !.what = "checksum"]
  OBVIOUS
<1>s. PICK sum : sum = IF "skip-checksums" \in settings THEN << >> ELSE <<check>>
  OBVIOUS
<1>1. /\ WorkFits /\ ExtraIsLast /\ Kept /\ work # << >> /\ item.what = "file"
      /\ Done(chunks \o sum) /\ UNCHANGED <<sums, seen, alarms>>
      /\ summers' = [k \in DOMAIN summers \cup {<<file, path>>} |->
                       IF k = <<file, path>> THEN << >> ELSE summers[k]]
  BY <1>h, <1>e, <1>c, <1>k, <1>s DEF check_file, Working, FsckInv
<1>2. UNCHANGED <<gens, store, damage, command, settings, outcome, before>>
  BY <1>1, DoneChanges
<1>3. /\ ToSet(work) = {item} \cup ToSet(rest) /\ command = "fsck"
      /\ rest \in Seq(Items) /\ work[1] = item /\ item \in Items
  BY <1>1, <1>h, FirstItem, HeadAndTail DEF WorkFits
<1>4. /\ file \in DOMAIN gens /\ path \in RegularFiles(file)
      /\ list \in Seq(DOMAIN store) /\ Len(list) \in Nat /\ DOMAIN list = 1 .. Len(list)
  <2>1. file \in DOMAIN gens /\ path \in RegularFiles(file)
    BY <1>1, <1>3, <1>h, <1>e DEF Items, Fits, IsFileItem, RegularFiles
  <2>. QED
    BY <1>1, <1>e, <2>1, FileHasChunks
<1>5. ASSUME NEW i \in DOMAIN list
      PROVE  chunks[i] \in Items /\ IsAbout(chunks[i], "chunk", file, path) /\ chunks[i].chunk = list[i]
  <2>1. chunks[i] = [item EXCEPT !.what = "chunk", !.chunk = list[i]]
    BY <1>c
  <2>2. list[i] \in DOMAIN store /\ list[i] \in ToSet(list)
    BY <1>4 DEF ToSet
  <2>3. /\ chunks[i] \in [what : Kinds, client : Clients \cup {Nothing}, gen : Nat,
                          path : DOMAIN DirOf \cup {Top}, chunk : DOMAIN store \cup {Nothing}]
        /\ chunks[i].what = "chunk" /\ chunks[i].gen = file /\ chunks[i].path = path
        /\ chunks[i].chunk = list[i]
    BY <1>3, <1>e, <2>1, <2>2 DEF Items, Kinds
  <2>4. Fits(chunks[i])
    BY <1>4, <1>e, <2>2, <2>3 DEF Fits, IsFileItem, RegularFiles
  <2>. QED
    BY <2>3, <2>4 DEF Items, IsAbout
<1>6. check \in Items /\ IsAbout(check, "checksum", file, path)
  <2>1. /\ check \in [what : Kinds, client : Clients \cup {Nothing}, gen : Nat,
                      path : DOMAIN DirOf \cup {Top}, chunk : DOMAIN store \cup {Nothing}]
        /\ check.what = "checksum" /\ check.gen = file /\ check.path = path
    BY <1>3, <1>e, <1>k DEF Items, Kinds
  <2>2. Fits(check)
    BY <1>4, <1>e, <2>1 DEF Fits, IsFileItem, RegularFiles
  <2>. QED
    BY <2>1, <2>2 DEF Items, IsAbout
<1>i. PICK I : I = Items
  OBVIOUS
<1>7. chunks \in Seq(I) /\ Len(chunks) = Len(list) /\ DOMAIN chunks = DOMAIN list
  <2>1. chunks \in [1 .. Len(list) -> I]
    BY <1>c, <1>i, <1>4, <1>5
  <2>. QED
    BY <1>4, <2>1, IsList
<1>8. /\ sum \in Seq(I)
      /\ "skip-checksums" \in settings => sum = << >> /\ ToSet(sum) = {}
      /\ "skip-checksums" \notin settings => sum = <<check>> /\ ToSet(sum) = {check}
  BY <1>s, <1>i, <1>6 DEF ToSet
<1>m. PICK more : more = chunks \o sum
  OBVIOUS
<1>9. /\ more \in Seq(I) /\ Len(more) = Len(list) + Len(sum)
      /\ \A i \in 1 .. Len(list) : more[i] = chunks[i]
      /\ \A i \in 1 .. Len(sum) : more[Len(list) + i] = sum[i]
      /\ ToSet(more) = ToSet(chunks) \cup ToSet(sum)
  BY <1>7, <1>8, <1>m, Concatenated
<1>10. \A x \in ToSet(chunks) : \E i \in DOMAIN list : x = chunks[i]
  BY <1>7 DEF ToSet
<1>11. \A x \in ToSet(more) : x.what # "extra"
  BY <1>5, <1>6, <1>8, <1>9, <1>10 DEF IsAbout
<1>12. /\ WorkFits' /\ ExtraIsLast'
       /\ ToSet(more) \cup ToSet(rest) \subseteq ToSet(work')
       /\ \A x \in ToSet(work') : x \in ToSet(more) \cup ToSet(rest) \/ x.what = "extra"
       /\ more \o rest # << >> => work' = more \o rest
  BY <1>1, <1>3, <1>h, <1>i, <1>m, <1>9, <1>11, ItemsDone
<1>13. ASSUME NEW g \in DOMAIN gens, NEW p \in RegularFiles(g), NEW x \in ToSet(work)
       PROVE  /\ Leads(x, g, p) /\ ~(g = file /\ p = path) => x \in ToSet(work')
              /\ x # item => x \in ToSet(work')
  <2>1. Leads(item, g, p) => g = file /\ p = path
    BY <1>1, <1>e DEF Leads
  <2>. QED
    BY <1>3, <1>12, <2>1
<1>14. UsesAreSeen'
  <2> SUFFICES ASSUME Full, NEW g \in DOMAIN gens, NEW p \in RegularFiles(g),
                      NEW c \in ToSet(gens[g].files[p].chunks), c \notin seen
               PROVE  \E x \in ToSet(work') :
                        Leads(x, g, p) \/ (IsAbout(x, "chunk", g, p) /\ x.chunk = c)
    BY <1>1, <1>2, SameFiles DEF UsesAreSeen, IsAbout, Full, Partial
  <2>1. PICK x \in ToSet(work) : Leads(x, g, p) \/ (IsAbout(x, "chunk", g, p) /\ x.chunk = c)
    BY <1>3 DEF FsckInv, UsesAreSeen
  <2>2. CASE g = file /\ p = path
    <3>1. PICK i \in DOMAIN list : list[i] = c
      BY <1>e, <2>2 DEF ToSet
    <3>2. chunks[i] \in ToSet(more)
      BY <1>7, <1>9, <3>1 DEF ToSet
    <3>. QED
      BY <1>5, <1>12, <2>2, <3>1, <3>2
  <2>3. CASE ~(g = file /\ p = path)
    BY <1>1, <1>13, <2>1, <2>3 DEF IsAbout
  <2>. QED
    BY <2>2, <2>3
<1>15. FilesAreChecked'
  <2> SUFFICES ASSUME Complete, damage = before, alarms = {},
                      NEW g \in DOMAIN gens, NEW p \in RegularFiles(g), ~IsWhole(g, p)
               PROVE  \E x \in ToSet(work') : Leads(x, g, p) \/ IsAbout(x, "checksum", g, p)
    BY <1>1, <1>2, SameFiles
       DEF FilesAreChecked, IsAbout, Complete, IsWhole, AllReadable, Readable, Contents
  <2>1. PICK x \in ToSet(work) : Leads(x, g, p) \/ IsAbout(x, "checksum", g, p)
    BY <1>3 DEF FsckInv, FilesAreChecked
  <2>2. CASE g = file /\ p = path
    BY <1>6, <1>8, <1>9, <1>12, <2>2 DEF Complete
  <2>3. CASE ~(g = file /\ p = path)
    BY <1>1, <1>13, <2>1, <2>3 DEF IsAbout
  <2>. QED
    BY <2>2, <2>3
<1>16. InOrder'
  <2>1. CASE "skip-checksums" \in settings
    <3>1. \A x \in ToSet(work) : x.what # "checksum"
      BY <2>1 DEF FsckInv, InOrder
    <3>2. \A x \in ToSet(more) : x.what # "checksum"
      BY <1>5, <1>8, <1>9, <1>10, <2>1 DEF IsAbout
    <3>. QED
      BY <1>2, <1>3, <1>12, <2>1, <3>1, <3>2 DEF InOrder
  <2>2. CASE "skip-checksums" \notin settings
    <3>1. \A x \in ToSet(rest) : x.what \notin {"chunk", "checksum"}
      BY <1>1, <1>3, <2>2, NothingIsRead DEF FsckInv
    <3>2. sum = <<check>> /\ Len(sum) = 1 /\ sum[1] = check
      BY <1>8, <2>2
    <3>3. /\ Len(more \o rest) = Len(list) + 1 + Len(rest) /\ more \o rest \in Seq(I)
          /\ \A i \in 1 .. Len(list) + 1 : (more \o rest)[i] = more[i]
          /\ \A i \in 1 .. Len(rest) : (more \o rest)[Len(list) + 1 + i] = rest[i]
      <4>1. Len(more) = Len(list) + 1
        BY <1>9, <3>2
      <4>2. more \in Seq(I) /\ rest \in Seq(I)
        BY <1>3, <1>9, <1>i
      <4>3. /\ more \o rest \in Seq(I) /\ Len(more \o rest) = Len(more) + Len(rest)
            /\ \A i \in 1 .. Len(more) : (more \o rest)[i] = more[i]
            /\ \A i \in 1 .. Len(rest) : (more \o rest)[Len(more) + i] = rest[i]
        BY <4>2, Concatenated
      <4>. QED
        BY <4>1, <4>3
    <3>4. work' = more \o rest
      <4>1. Len(rest) \in Nat
        BY <1>3
      <4>2. Len(more \o rest) # 0
        BY <1>4, <3>3, <4>1
      <4>. QED
        BY <1>12, <4>2
    <3>5. Reading(file, path, 0)'
      <4> PICK n \in Nat : n = Len(list)
        BY <1>4
      <4>1. path \in RegularFiles(file)' /\ 0 \in 0 .. n /\ Len(work') >= n + 1
        BY <1>2, <1>3, <1>4, <3>3, <3>4, SameFiles
      <4>2. ASSUME NEW i \in 1 .. n
            PROVE  IsAbout(work'[i], "chunk", file, path) /\ work'[i].chunk = list[i]
        <5>1. work'[i] = chunks[i] /\ i \in DOMAIN list
          BY <1>4, <1>9, <3>3, <3>4
        <5>. QED
          BY <1>5, <5>1
      <4>3. IsAbout(work'[n + 1], "checksum", file, path)
        <5>1. work'[n + 1] = check
          BY <1>9, <3>2, <3>3, <3>4
        <5>. QED
          BY <1>6, <5>1
      <4>4. ASSUME NEW i \in n + 2 .. Len(work') PROVE work'[i].what \notin {"chunk", "checksum"}
        <5>1. PICK r \in Nat : r = Len(rest) /\ Len(work') = n + 1 + r
          BY <1>3, <3>3, <3>4
        <5>2. i - (n + 1) \in 1 .. r /\ i = n + 1 + (i - (n + 1))
          BY <5>1
        <5>3. PICK j \in 1 .. Len(rest) : i = n + 1 + j
          BY <5>1, <5>2
        <5>4. work'[i] = rest[j]
          BY <3>3, <3>4, <5>3
        <5>5. rest[j] \in ToSet(rest)
          BY <1>3, <5>3 DEF ToSet
        <5>. QED
          BY <3>1, <5>4, <5>5
      <4>5. <<file, path>> \in DOMAIN summers' /\ summers'[<<file, path>>] = << >>
        BY <1>1
      <4>6. Added(file, path, 0)'
        BY <4>5 DEF Added
      <4>7. list = gens'[file].files[path].chunks
        BY <1>2, <1>e
      <4>8. /\ Len(gens'[file].files[path].chunks) = n
            /\ Len(gens'[file].files[path].chunks) - 0 = n
        BY <4>7
      <4>9. \A i \in 1 .. n : /\ work'[i].what = "chunk" /\ work'[i].gen = file
                             /\ work'[i].path = path
                             /\ work'[i].chunk = gens'[file].files[path].chunks[0 + i]
        BY <4>2, <4>7 DEF IsAbout
      <4>10. /\ work'[n + 1].what = "checksum" /\ work'[n + 1].gen = file
             /\ work'[n + 1].path = path
        BY <4>3 DEF IsAbout
      <4>11. \A i \in n + 2 .. Len(work') : work'[i].what \notin {"chunk", "checksum"}
        BY <4>4
      <4>. QED
        BY <4>1, <4>5, <4>6, <4>8, <4>9, <4>10, <4>11 DEF Reading, IsAbout
    <3>. QED
      BY <1>2, <1>4, <1>e, <2>2, <3>5, SameFiles DEF InOrder
  <2>. QED
    BY <2>1, <2>2
<1>17. AlarmsAreReal'
  BY <1>1, <1>2, AlarmsStayReal DEF FsckInv
<1>18. UsedStayIndexed'
  BY <1>1, <1>2, SameFiles DEF FsckInv, UsedStayIndexed
<1>. QED
  BY <1>2, <1>3, <1>12, <1>14, <1>15, <1>16, <1>17, <1>18, NotEnded

(* CheckChunk: a chunk of the file that is being read.                     *)
LEMMA ChunkKeeps ==
  ASSUME FsckInv, check_chunk
  PROVE  /\ WorkFits' /\ ExtraIsLast' /\ UsesAreSeen' /\ InOrder' /\ FilesAreChecked'
         /\ AlarmsAreReal' /\ UsedStayIndexed' /\ CleanFsckMeansWhole'
<1>h. PICK item, rest : item = Head(work) /\ rest = Tail(work)
  OBVIOUS
<1>e. PICK file, path, c : file = item.gen /\ path = item.path /\ c = item.chunk
  OBVIOUS
<1>r. PICK isRead : isRead = (store[c] # Lost /\ "skip-checksums" \notin settings)
  OBVIOUS
<1>1. /\ WorkFits /\ ExtraIsLast /\ Kept /\ work # << >> /\ item.what = "chunk"
      /\ Done(<< >>) /\ UNCHANGED sums
      /\ seen' = seen \cup {c}
      /\ alarms' = alarms
           \cup (IF store[c] = Lost THEN {<<"missing", c>>} ELSE {})
           \cup (IF isRead /\ ~validate_chunk_content(c) THEN {<<"corrupted", c>>} ELSE {})
      /\ isRead => /\ Readable(c)
                 /\ summers' = [summers EXCEPT ![<<file, path>>] = Append(@, store[c])]
      /\ ~isRead => summers' = summers
  BY <1>h, <1>e, <1>r DEF check_chunk, Working, FsckInv
<1>2. UNCHANGED <<gens, store, damage, command, settings, outcome, before>>
  BY <1>1, DoneChanges
<1>3. /\ ToSet(work) = {item} \cup ToSet(rest) /\ command = "fsck"
      /\ rest \in Seq(Items) /\ work[1] = item /\ item \in Items
      /\ Len(work) \in Nat /\ Len(rest) = Len(work) - 1
      /\ \A i \in 1 .. Len(work) - 1 : rest[i] = work[i + 1]
  BY <1>1, <1>h, FirstItem, HeadAndTail DEF WorkFits
<1>4. /\ file \in DOMAIN gens /\ path \in RegularFiles(file)
      /\ c \in ToSet(gens[file].files[path].chunks) /\ c \in DOMAIN store
  <2>1. /\ file \in DOMAIN gens /\ path \in RegularFiles(file)
        /\ c \in ToSet(gens[file].files[path].chunks)
    BY <1>1, <1>3, <1>e DEF Items, Fits, IsFileItem, RegularFiles
  <2>. QED
    BY <1>1, <2>1, FileHasChunks DEF ToSet
<1>5. << >> \in Seq(Items) /\ ToSet(<< >>) = {} /\ << >> \o rest = rest
  BY <1>3 DEF ToSet
<1>6. /\ WorkFits' /\ ExtraIsLast'
      /\ ToSet(rest) \subseteq ToSet(work')
      /\ \A x \in ToSet(work') : x \in ToSet(rest) \/ x.what = "extra"
      /\ rest # << >> => work' = rest
  BY <1>1, <1>5, <1>h, ItemsDone
<1>7. UsesAreSeen'
  <2> SUFFICES ASSUME Full, NEW g \in DOMAIN gens, NEW p \in RegularFiles(g),
                      NEW k \in ToSet(gens[g].files[p].chunks), k \notin seen, k # c
               PROVE  \E x \in ToSet(work') :
                        Leads(x, g, p) \/ (IsAbout(x, "chunk", g, p) /\ x.chunk = k)
    BY <1>1, <1>2, SameFiles DEF UsesAreSeen, IsAbout, Full, Partial
  <2>1. PICK x \in ToSet(work) : Leads(x, g, p) \/ (IsAbout(x, "chunk", g, p) /\ x.chunk = k)
    BY <1>3 DEF FsckInv, UsesAreSeen
  <2>2. x # item
    BY <1>1, <1>e, <2>1 DEF Leads, IsAbout
  <2>. QED
    BY <1>3, <1>6, <2>1, <2>2
<1>8. FilesAreChecked'
  <2> SUFFICES ASSUME Complete, damage = before, alarms = {},
                      NEW g \in DOMAIN gens, NEW p \in RegularFiles(g), ~IsWhole(g, p)
               PROVE  \E x \in ToSet(work') : Leads(x, g, p) \/ IsAbout(x, "checksum", g, p)
    BY <1>1, <1>2, SameFiles
       DEF FilesAreChecked, IsAbout, Complete, IsWhole, AllReadable, Readable, Contents
  <2>1. PICK x \in ToSet(work) : Leads(x, g, p) \/ IsAbout(x, "checksum", g, p)
    BY <1>3 DEF FsckInv, FilesAreChecked
  <2>2. x # item
    BY <1>1, <2>1 DEF Leads, IsAbout
  <2>. QED
    BY <1>3, <1>6, <2>1, <2>2
<1>9. (store[c] = Lost \/ ~validate_chunk_content(c)) => c \in damage
  BY <1>1, <1>4, StoredAssumption DEF Kept, Intact, validate_chunk_content
<1>10. AlarmsAreReal'
  <2>1. ASSUME NEW alarm \in alarms', alarm \notin alarms
        PROVE  alarm[1] \in {"missing", "corrupted"} /\ alarm[2] \in damage
    BY <1>1, <1>9, <2>1
  <2>2. \A alarm \in alarms' :
          CASE alarm[1] \in {"missing", "corrupted"} -> alarm[2] \in damage
            [] alarm[1] = "checksum" ->
                 \/ alarm[2][2] \in Unfinished(alarm[2][1])
                 \/ ToSet(gens[alarm[2][1]].files[alarm[2][2]].chunks) \cap damage # {}
            [] OTHER -> \A g \in DOMAIN gens : alarm[2] \notin UsedChunks(g)
    BY <2>1 DEF FsckInv, AlarmsAreReal
  <2>. QED
    BY <1>2, <2>2, SameFiles DEF AlarmsAreReal
<1>11. InOrder'
  <2>1. CASE "skip-checksums" \in settings
    <3>1. \A x \in ToSet(work) : x.what # "checksum"
      BY <2>1 DEF FsckInv, InOrder
    <3>. QED
      BY <1>2, <1>3, <1>6, <2>1, <3>1 DEF InOrder
  <2>2. CASE "skip-checksums" \notin settings
    <3>1. PICK g, p, k : /\ g \in DOMAIN gens /\ p \in RegularFiles(g)
                         /\ k \in 0 .. Len(gens[g].files[p].chunks) /\ Reading(g, p, k)
      <4>1. item \in ToSet(work) /\ item.what = "chunk"
        BY <1>1, <1>3
      <4>. QED
        BY <2>2, <4>1 DEF FsckInv, InOrder
    <3>2. PICK list, n : list = gens[g].files[p].chunks /\ n = Len(list)
      OBVIOUS
    <3>3. /\ list \in Seq(DOMAIN store) /\ n \in Nat /\ DOMAIN list = 1 .. n /\ k \in 0 .. n
      BY <1>1, <3>1, <3>2, FileHasChunks
    <3>4. /\ Len(work) >= n - k + 1
          /\ \A i \in 1 .. n - k : IsAbout(work[i], "chunk", g, p) /\ work[i].chunk = list[k + i]
          /\ IsAbout(work[n - k + 1], "checksum", g, p)
          /\ \A i \in n - k + 2 .. Len(work) : work[i].what \notin {"chunk", "checksum"}
          /\ <<g, p>> \in DOMAIN summers
          /\ ToSet(list) \cap damage = {} \/ (damage = before /\ alarms = {}) => Added(g, p, k)
      BY <3>1, <3>2 DEF Reading
    <3>5. n - k # 0
      <4>1. CASE n - k = 0
        BY <1>1, <1>3, <3>4, <4>1 DEF IsAbout
      <4>. QED
        BY <4>1
    <3>6. g = file /\ p = path /\ c = list[k + 1]
      <4>1. 1 \in 1 .. n - k
        BY <3>3, <3>5
      <4>. QED
        BY <1>3, <1>e, <3>4, <4>1 DEF IsAbout
    <3>7. work' = rest
      <4>1. Len(rest) # 0
        BY <1>3, <3>3, <3>4, <3>5
      <4>. QED
        BY <1>6, <4>1
    <3>8. k + 1 \in 0 .. n /\ n - (k + 1) = n - k - 1 /\ Len(work') >= n - (k + 1) + 1
      BY <1>3, <3>3, <3>4, <3>5, <3>7
    <3>9. ASSUME NEW i \in 1 .. n - (k + 1)
          PROVE  IsAbout(work'[i], "chunk", g, p) /\ work'[i].chunk = list[(k + 1) + i]
      <4>0. PICK w \in Nat : w = Len(work) /\ w >= n - k + 1
        BY <1>3, <3>4
      <4>1. i + 1 \in 1 .. n - k /\ i \in 1 .. w - 1 /\ k + (i + 1) = (k + 1) + i
        BY <3>3, <4>0
      <4>2. work'[i] = work[i + 1]
        BY <1>3, <3>7, <4>0, <4>1
      <4>3. IsAbout(work[i + 1], "chunk", g, p) /\ work[i + 1].chunk = list[k + (i + 1)]
        BY <3>4, <4>1
      <4>. QED
        BY <4>1, <4>2, <4>3
    <3>10. IsAbout(work'[n - (k + 1) + 1], "checksum", g, p)
      <4>1. n - (k + 1) + 1 \in 1 .. Len(work) - 1 /\ (n - (k + 1) + 1) + 1 = n - k + 1
        BY <1>3, <3>3, <3>4, <3>5
      <4>2. work'[n - (k + 1) + 1] = work[(n - (k + 1) + 1) + 1]
        BY <1>3, <3>7, <4>1
      <4>. QED
        BY <3>4, <4>1, <4>2
    <3>11. ASSUME NEW i \in n - (k + 1) + 2 .. Len(work')
           PROVE  work'[i].what \notin {"chunk", "checksum"}
      <4>1. i + 1 \in n - k + 2 .. Len(work) /\ i \in 1 .. Len(work) - 1
        BY <1>3, <3>3, <3>5, <3>7
      <4>2. work'[i] = work[i + 1]
        BY <1>3, <3>7, <4>1
      <4>. QED
        BY <3>4, <4>1, <4>2
    <3>12. DOMAIN summers' = DOMAIN summers
      BY <1>1
    <3>13. ASSUME ToSet(list) \cap damage = {} \/ (damage = before /\ alarms' = {})
           PROVE  Added(g, p, k + 1)'
      <4>1. store[c] # Lost /\ isRead
        BY <1>1, <1>4, <1>9, <1>r, <2>2, <3>2, <3>6, <3>13
      <4>2. alarms' = {} => alarms = {}
        BY <1>1
      <4>3. PICK sum : sum = summers[<<g, p>>]
        OBVIOUS
      <4>4. sum \in Seq(Bytes) /\ Len(sum) = k /\ \A i \in 1 .. k : sum[i] = store[list[i]]
        BY <3>2, <3>4, <3>13, <4>2, <4>3 DEF Added
      <4>5. store[c] \in Bytes /\ summers'[<<g, p>>] = Append(sum, store[c])
        BY <1>1, <3>4, <3>6, <4>1, <4>3 DEF Readable
      <4>6. PICK b : b = store[c]
        OBVIOUS
      <4>7. /\ Append(sum, b) \in Seq(Bytes) /\ Len(Append(sum, b)) = k + 1
            /\ \A i \in 1 .. k : Append(sum, b)[i] = sum[i]
            /\ Append(sum, b)[k + 1] = b
        BY <4>4, <4>5, <4>6
      <4>8. ASSUME NEW i \in 1 .. k + 1 PROVE Append(sum, b)[i] = store[list[i]]
        <5>1. i \in 1 .. k \/ i = k + 1
          BY <3>3
        <5>. QED
          BY <3>6, <4>4, <4>6, <4>7, <5>1
      <4>. QED
        BY <1>2, <3>2, <4>5, <4>6, <4>7, <4>8 DEF Added
    <3>14. Reading(g, p, k + 1)'
      <4>1. list = gens'[g].files[p].chunks /\ p \in RegularFiles(g)' /\ damage' = damage
            /\ before' = before
        BY <1>1, <1>2, <3>1, <3>2, SameFiles
      <4>2. <<g, p>> \in DOMAIN summers'
        BY <3>4, <3>12
      <4>3. \A i \in 1 .. n - (k + 1) :
              IsAbout(work'[i], "chunk", g, p) /\ work'[i].chunk = list[(k + 1) + i]
        BY <3>9
      <4>4. ToSet(list) \cap damage = {} \/ (damage = before /\ alarms' = {})
              => Added(g, p, k + 1)'
        BY <3>13, Zenon
      <4>5. k + 1 \in 0 .. n /\ Len(work') >= n - (k + 1) + 1
        BY <3>8
      <4>6. \A i \in n - (k + 1) + 2 .. Len(work') : work'[i].what \notin {"chunk", "checksum"}
        BY <3>11
      <4>. QED
        BY <3>2, <3>10, <4>1, <4>2, <4>3, <4>4, <4>5, <4>6 DEF Reading, IsAbout
    <3>15. "skip-checksums" \notin settings' /\ g \in DOMAIN gens' /\ p \in RegularFiles(g)'
      BY <1>2, <2>2, <3>1, SameFiles
    <3>16. k + 1 \in 0 .. Len(gens'[g].files[p].chunks)
      BY <1>2, <3>2, <3>8
    <3>. QED
      BY <3>14, <3>15, <3>16 DEF InOrder
  <2>. QED
    BY <2>1, <2>2
<1>12. UsedStayIndexed'
  BY <1>1, <1>2, SameFiles DEF FsckInv, UsedStayIndexed
<1>. QED
  BY <1>2, <1>3, <1>6, <1>7, <1>8, <1>10, <1>11, <1>12, NotEnded

(* CheckFileChecksum: the last item of the file that is being read.        *)
LEMMA ChecksumKeeps ==
  ASSUME FsckInv, check_file_checksum
  PROVE  /\ WorkFits' /\ ExtraIsLast' /\ UsesAreSeen' /\ InOrder' /\ FilesAreChecked'
         /\ AlarmsAreReal' /\ UsedStayIndexed' /\ CleanFsckMeansWhole'
<1>h. PICK item, rest : item = Head(work) /\ rest = Tail(work)
  OBVIOUS
<1>e. PICK file, path, entry :
        file = item.gen /\ path = item.path /\ entry = gens[file].files[path]
  OBVIOUS
<1>1. /\ WorkFits /\ ExtraIsLast /\ Kept /\ work # << >> /\ item.what = "checksum"
      /\ Done(<< >>) /\ UNCHANGED <<sums, seen>>
      /\ alarms' = IF summers[<<file, path>>] # entry.md5
                   THEN alarms \cup {<<"checksum", <<file, path>>>>} ELSE alarms
  BY <1>h, <1>e DEF check_file_checksum, Working, FsckInv, Alarm
<1>2. UNCHANGED <<gens, store, damage, command, settings, outcome, before>>
  BY <1>1, DoneChanges
<1>3. /\ ToSet(work) = {item} \cup ToSet(rest) /\ command = "fsck"
      /\ rest \in Seq(Items) /\ work[1] = item /\ item \in Items /\ item \in ToSet(work)
      /\ Len(work) \in Nat /\ Len(rest) = Len(work) - 1
      /\ \A i \in 1 .. Len(work) - 1 : rest[i] = work[i + 1]
  BY <1>1, <1>h, FirstItem, HeadAndTail DEF WorkFits
<1>4. file \in DOMAIN gens /\ path \in RegularFiles(file)
  BY <1>1, <1>3, <1>e DEF Items, Fits, IsFileItem, RegularFiles
<1>5. << >> \in Seq(Items) /\ ToSet(<< >>) = {} /\ << >> \o rest = rest
  BY <1>3 DEF ToSet
<1>6. /\ WorkFits' /\ ExtraIsLast'
      /\ ToSet(rest) \subseteq ToSet(work')
      /\ \A x \in ToSet(work') : x \in ToSet(rest) \/ x.what = "extra"
  BY <1>1, <1>5, <1>h, ItemsDone
<1>7. "skip-checksums" \notin settings
  BY <1>1, <1>3 DEF FsckInv, InOrder
<1>8. PICK g, p, k : /\ g \in DOMAIN gens /\ p \in RegularFiles(g)
                     /\ k \in 0 .. Len(gens[g].files[p].chunks) /\ Reading(g, p, k)
  BY <1>1, <1>3, <1>7 DEF FsckInv, InOrder
<1>9. PICK list, n : list = gens[g].files[p].chunks /\ n = Len(list)
  OBVIOUS
<1>10. list \in Seq(DOMAIN store) /\ n \in Nat /\ DOMAIN list = 1 .. n /\ k \in 0 .. n
  BY <1>1, <1>8, <1>9, FileHasChunks
<1>11. /\ \A i \in 1 .. n - k : IsAbout(work[i], "chunk", g, p)
       /\ IsAbout(work[n - k + 1], "checksum", g, p)
       /\ \A i \in n - k + 2 .. Len(work) : work[i].what \notin {"chunk", "checksum"}
       /\ ToSet(list) \cap damage = {} \/ (damage = before /\ alarms = {}) => Added(g, p, k)
  BY <1>8, <1>9 DEF Reading
<1>12. n = k
  <2>1. CASE n # k
    <3>1. 1 \in 1 .. n - k
      BY <1>10, <2>1
    <3>. QED
      BY <1>1, <1>3, <1>11, <3>1 DEF IsAbout
  <2>. QED
    BY <2>1
<1>13. g = file /\ p = path /\ list = entry.chunks
  BY <1>3, <1>9, <1>10, <1>11, <1>12, <1>e DEF IsAbout
<1>14. ASSUME ToSet(list) \cap damage = {} \/ (damage = before /\ alarms = {})
       PROVE  AllReadable(list) /\ summers[<<file, path>>] = Contents(list)
  <2>1. PICK sum : sum = summers[<<g, p>>]
    OBVIOUS
  <2>2. sum \in Seq(Bytes) /\ Len(sum) = n /\ \A i \in 1 .. n : sum[i] = store[list[i]]
    BY <1>9, <1>11, <1>12, <1>14, <2>1 DEF Added
  <2>3. \A i \in 1 .. n : store[list[i]] \in Bytes
    BY <2>2
  <2>4. sum = [i \in 1 .. n |-> sum[i]]
    BY <2>2
  <2>5. sum = [i \in 1 .. n |-> store[list[i]]]
    BY <2>2, <2>4
  <2>. QED
    BY <1>10, <1>13, <2>1, <2>3, <2>5 DEF AllReadable, Readable, Contents
<1>15. UsesAreSeen'
  <2> SUFFICES ASSUME Full, NEW q \in DOMAIN gens, NEW f \in RegularFiles(q),
                      NEW c \in ToSet(gens[q].files[f].chunks), c \notin seen
               PROVE  \E x \in ToSet(work') :
                        Leads(x, q, f) \/ (IsAbout(x, "chunk", q, f) /\ x.chunk = c)
    BY <1>1, <1>2, SameFiles DEF UsesAreSeen, IsAbout, Full, Partial
  <2>1. PICK x \in ToSet(work) : Leads(x, q, f) \/ (IsAbout(x, "chunk", q, f) /\ x.chunk = c)
    BY <1>3 DEF FsckInv, UsesAreSeen
  <2>2. x # item
    BY <1>1, <2>1 DEF Leads, IsAbout
  <2>. QED
    BY <1>3, <1>6, <2>1, <2>2
<1>16. FilesAreChecked'
  <2> SUFFICES ASSUME Complete, damage = before, alarms' = {},
                      NEW q \in DOMAIN gens, NEW f \in RegularFiles(q), ~IsWhole(q, f)
               PROVE  \E x \in ToSet(work') : Leads(x, q, f) \/ IsAbout(x, "checksum", q, f)
    BY <1>1, <1>2, SameFiles
       DEF FilesAreChecked, IsAbout, Complete, IsWhole, AllReadable, Readable, Contents
  <2>1. alarms = {} /\ summers[<<file, path>>] = entry.md5
    BY <1>1
  <2>2. PICK x \in ToSet(work) : Leads(x, q, f) \/ IsAbout(x, "checksum", q, f)
    BY <1>3, <2>1 DEF FsckInv, FilesAreChecked
  <2>3. x # item
    <3>1. IsWhole(file, path)
      BY <1>13, <1>14, <1>e, <2>1 DEF IsWhole
    <3>. QED
      BY <1>1, <1>e, <2>2, <3>1 DEF Leads, IsAbout
  <2>. QED
    BY <1>3, <1>6, <2>2, <2>3
<1>17. AlarmsAreReal'
  <2>1. CASE summers[<<file, path>>] # entry.md5
    <3>1. path \in Unfinished(file) \/ ToSet(entry.chunks) \cap damage # {}
      <4>1. CASE ToSet(list) \cap damage = {}
        <5>1. summers[<<file, path>>] = Contents(list)
          BY <1>14, <4>1
        <5>2. entry.md5 = NoSum
          BY <1>1, <1>4, <1>13, <1>e, <2>1, <4>1, <5>1 DEF Kept, Intact
        <5>. QED
          BY <1>4, <1>e, <5>2 DEF Unfinished
      <4>. QED
        BY <1>13, <4>1
    <3>2. PICK new : new = <<"checksum", <<file, path>>>>
      OBVIOUS
    <3>3. new[1] = "checksum" /\ new[2][1] = file /\ new[2][2] = path
      BY <3>2
    <3>4. \A alarm \in alarms \cup {new} :
            CASE alarm[1] \in {"missing", "corrupted"} -> alarm[2] \in damage
              [] alarm[1] = "checksum" ->
                   \/ alarm[2][2] \in Unfinished(alarm[2][1])
                   \/ ToSet(gens[alarm[2][1]].files[alarm[2][2]].chunks) \cap damage # {}
              [] OTHER -> \A q \in DOMAIN gens : alarm[2] \notin UsedChunks(q)
      BY <1>e, <3>1, <3>3 DEF FsckInv, AlarmsAreReal
    <3>. QED
      BY <1>1, <1>2, <2>1, <3>2, <3>4, SameFiles DEF AlarmsAreReal
  <2>2. CASE summers[<<file, path>>] = entry.md5
    BY <1>1, <1>2, <2>2, AlarmsStayReal DEF FsckInv
  <2>. QED
    BY <2>1, <2>2
<1>18. InOrder'
  <2>1. ASSUME NEW x \in ToSet(rest) PROVE x.what \notin {"chunk", "checksum"}
    <3>0. PICK w \in Nat : w = Len(work)
      BY <1>3
    <3>1. PICK i \in 1 .. w - 1 : x = rest[i]
      BY <1>3, <2>1, <3>0 DEF ToSet
    <3>2. x = work[i + 1]
      BY <1>3, <3>0, <3>1
    <3>3. i + 1 \in n - k + 2 .. Len(work)
      BY <1>10, <1>12, <3>0, <3>1
    <3>. QED
      BY <1>11, <3>2, <3>3
  <2>. QED
    BY <1>2, <1>6, <1>7, <2>1 DEF InOrder
<1>19. UsedStayIndexed'
  BY <1>1, <1>2, SameFiles DEF FsckInv, UsedStayIndexed
<1>. QED
  BY <1>2, <1>3, <1>6, <1>15, <1>16, <1>17, <1>18, <1>19, NotEnded

(* CheckForExtraChunks comes last, when every chunk that is used has been  *)
(* seen.                                                                   *)
LEMMA ExtraKeeps ==
  ASSUME FsckInv, check_extra_chunks
  PROVE  /\ WorkFits' /\ ExtraIsLast' /\ UsesAreSeen' /\ InOrder' /\ FilesAreChecked'
         /\ AlarmsAreReal' /\ UsedStayIndexed' /\ CleanFsckMeansWhole'
<1>h. PICK item : item = Head(work)
  OBVIOUS
<1>u. PICK unseen : unseen = get_chunk_ids \ seen
  OBVIOUS
<1>1. /\ WorkFits /\ Kept /\ work # << >> /\ item.what = "extra" /\ Done(<< >>)
      /\ UNCHANGED <<seen, summers>>
      /\ \/ sums' = [c \in DOMAIN sums \ unseen |-> sums[c]] /\ alarms' = alarms
         \/ sums' = sums /\ alarms' = alarms \cup {<<"unused", c>> : c \in unseen}
  BY <1>h, <1>u DEF check_extra_chunks, Working, FsckInv
<1>2. UNCHANGED <<gens, store, damage, command, settings, outcome, before>>
  BY <1>1, DoneChanges
<1>3. work[1] = item /\ work \in Seq(Items) /\ 1 \in DOMAIN work /\ item \in ToSet(work)
      /\ ToSet(work) = {item} \cup ToSet(Tail(work)) /\ command = "fsck"
      /\ Tail(work) \in Seq(Items) /\ Len(Tail(work)) = Len(work) - 1 /\ Len(work) \in Nat
  BY <1>1, <1>h, FirstItem, HeadAndTail DEF WorkFits
<1>4. Len(work) = 1 /\ ~final /\ Full
  BY <1>1, <1>3 DEF FsckInv, ExtraIsLast
<1>5. Tail(work) = << >> /\ ToSet(Tail(work)) = {}
  <2>1. PICK t : t = Tail(work)
    OBVIOUS
  <2>2. t \in Seq(Items) /\ Len(t) = 0
    BY <1>3, <1>4, <2>1
  <2>3. t = << >>
    BY <2>2
  <2>. QED
    BY <2>1, <2>3 DEF ToSet
<1>6. work' = << >> /\ ToSet(work') = {} /\ ~final'
  <2>1. << >> \o Tail(work) = << >>
    BY <1>5
  <2>2. work' = << >> /\ ~final'
    BY <1>1, <1>4, <2>1 DEF Done
  <2>. QED
    BY <2>2 DEF ToSet
<1>7. WorkFits'
  BY <1>1, <1>2, <1>6 DEF WorkFits
<1>8. ExtraIsLast'
  BY <1>6 DEF ExtraIsLast
<1>9. ASSUME NEW g \in DOMAIN gens PROVE UsedChunks(g) \cap unseen = {}
  <2> SUFFICES ASSUME NEW p \in RegularFiles(g), NEW c \in ToSet(gens[g].files[p].chunks)
               PROVE  c \in seen
    BY <1>u DEF UsedChunks
  <2>1. ~Leads(item, g, p) /\ ~IsAbout(item, "chunk", g, p)
    BY <1>1 DEF Leads, IsAbout
  <2>. QED
    BY <1>3, <1>4, <1>5, <2>1 DEF FsckInv, UsesAreSeen
<1>10. UsesAreSeen'
  <2>1. \A g \in DOMAIN gens : \A p \in RegularFiles(g) :
          \A c \in ToSet(gens[g].files[p].chunks) : c \in seen
    <3> SUFFICES ASSUME NEW g \in DOMAIN gens, NEW p \in RegularFiles(g),
                        NEW c \in ToSet(gens[g].files[p].chunks)
                 PROVE  c \in seen
      OBVIOUS
    <3>1. ~Leads(item, g, p) /\ ~IsAbout(item, "chunk", g, p)
      BY <1>1 DEF Leads, IsAbout
    <3>. QED
      BY <1>3, <1>4, <1>5, <3>1 DEF FsckInv, UsesAreSeen
  <2>. QED
    BY <1>1, <1>2, <2>1, SameFiles DEF UsesAreSeen
<1>11. InOrder'
  BY <1>6 DEF InOrder
<1>12. FilesAreChecked'
  <2> SUFFICES ASSUME Complete, damage = before, alarms = {},
                      NEW g \in DOMAIN gens, NEW p \in RegularFiles(g)
               PROVE  IsWhole(g, p)
    BY <1>1, <1>2, SameFiles
       DEF FilesAreChecked, IsAbout, Complete, IsWhole, AllReadable, Readable, Contents
  <2>1. ~Leads(item, g, p) /\ ~IsAbout(item, "checksum", g, p)
    BY <1>1 DEF Leads, IsAbout
  <2>. QED
    BY <1>3, <1>5, <2>1 DEF FsckInv, FilesAreChecked
<1>13. AlarmsAreReal'
  <2>1. ASSUME NEW alarm \in alarms', alarm \notin alarms
        PROVE  alarm[1] = "unused" /\ \A g \in DOMAIN gens : alarm[2] \notin UsedChunks(g)
    <3>1. PICK c \in unseen : alarm = <<"unused", c>>
      BY <1>1, <2>1
    <3>. QED
      BY <1>9, <3>1
  <2>2. \A alarm \in alarms' :
          CASE alarm[1] \in {"missing", "corrupted"} -> alarm[2] \in damage
            [] alarm[1] = "checksum" ->
                 \/ alarm[2][2] \in Unfinished(alarm[2][1])
                 \/ ToSet(gens[alarm[2][1]].files[alarm[2][2]].chunks) \cap damage # {}
            [] OTHER -> \A g \in DOMAIN gens : alarm[2] \notin UsedChunks(g)
    BY <2>1 DEF FsckInv, AlarmsAreReal
  <2>. QED
    BY <1>2, <2>2, SameFiles DEF AlarmsAreReal
<1>14. UsedStayIndexed'
  <2>1. \A g \in DOMAIN gens : UsedChunks(g) \subseteq DOMAIN sums'
    BY <1>1, <1>9 DEF FsckInv, UsedStayIndexed
  <2>. QED
    BY <1>2, <2>1, SameFiles DEF UsedStayIndexed
<1>. QED
  BY <1>2, <1>3, <1>7, <1>8, <1>10, <1>11, <1>12, <1>13, <1>14, NotEnded

LEMMA StartKeeps ==
  ASSUME FsckInv, fsck_starts
  PROVE  /\ WorkFits' /\ ExtraIsLast' /\ UsesAreSeen' /\ InOrder' /\ FilesAreChecked'
         /\ AlarmsAreReal' /\ UsedStayIndexed' /\ CleanFsckMeansWhole'
<1>h. PICK item : item = Item("repository", Nothing, 0, Top, Nothing)
  OBVIOUS
<1>1. /\ command' = "fsck" /\ work' = <<item>> /\ final' = Full' /\ command = "none"
      /\ UNCHANGED <<gens, store, damage, sums, alarms, outcome>>
  BY <1>h DEF fsck_starts, Starts, restVars, Full, Partial
<1>2. item \in Items /\ item.what = "repository"
  <2>1. /\ item \in [what : Kinds, client : Clients \cup {Nothing}, gen : Nat,
                     path : DOMAIN DirOf \cup {Top}, chunk : DOMAIN store \cup {Nothing}]
        /\ item.what = "repository"
    BY <1>h DEF Item, Kinds
  <2>2. Fits(item)
    BY <2>1 DEF Fits
  <2>. QED
    BY <2>1, <2>2 DEF Items
<1>3. Items' = Items
  BY <1>1 DEF Items, Fits, IsFileItem
<1>4. ToSet(work') = {item} /\ work' \in Seq(Items) /\ DOMAIN work' = {1} /\ work'[1] = item
  BY <1>1, <1>2 DEF ToSet
<1>5. WorkFits'
  BY <1>1, <1>3, <1>4 DEF WorkFits, FsckInv
<1>6. ExtraIsLast'
  BY <1>2, <1>4 DEF ExtraIsLast
<1>7. \A g, p : Leads(item, g, p)
  BY <1>2 DEF Leads
<1>8. UsesAreSeen'
  BY <1>1, <1>4, <1>7, SameFiles DEF UsesAreSeen
<1>9. InOrder'
  BY <1>2, <1>4 DEF InOrder
<1>10. FilesAreChecked'
  BY <1>1, <1>4, <1>7, SameFiles DEF FilesAreChecked
<1>11. AlarmsAreReal' /\ UsedStayIndexed'
  BY <1>1, AlarmsStayReal, SameFiles DEF FsckInv, UsedStayIndexed
<1>. QED
  BY <1>1, <1>5, <1>6, <1>8, <1>9, <1>10, <1>11, NotEnded

LEMMA EndKeeps ==
  ASSUME FsckInv, fsck_ends \/ fsck_dies
  PROVE  /\ WorkFits' /\ ExtraIsLast' /\ UsesAreSeen' /\ InOrder' /\ FilesAreChecked'
         /\ AlarmsAreReal' /\ UsedStayIndexed' /\ CleanFsckMeansWhole'
<1>1. /\ work' = << >> /\ command = "fsck" /\ command' = "over"
      /\ final' => final
      /\ UNCHANGED <<gens, store, sums, damage, before, settings, alarms>>
      /\ outcome' = "clean" => work = << >> /\ alarms = {}
  BY DEF fsck_ends, fsck_dies, restVars, Working, FsckInv
<1>2. ToSet(work') = {} /\ work' \in Seq(Items')
  BY <1>1 DEF ToSet
<1>3. WorkFits'
  BY <1>1, <1>2 DEF WorkFits, FsckInv, Full, Partial
<1>4. ExtraIsLast' /\ UsesAreSeen' /\ InOrder' /\ FilesAreChecked'
  BY <1>1, <1>2 DEF ExtraIsLast, UsesAreSeen, InOrder, FilesAreChecked
<1>5. AlarmsAreReal' /\ UsedStayIndexed'
  BY <1>1, AlarmsStayReal, SameFiles DEF FsckInv, UsedStayIndexed
<1>6. CleanFsckMeansWhole'
  <2> SUFFICES ASSUME outcome' = "clean", Complete, damage = before,
                      NEW g \in DOMAIN gens, NEW p \in RegularFiles(g)
               PROVE  IsWhole(g, p)
    BY <1>1, SameFiles
       DEF CleanFsckMeansWhole, Complete, IsWhole, AllReadable, Readable, Contents
  <2>1. work = << >> /\ alarms = {}
    BY <1>1
  <2>2. ToSet(work) = {}
    BY <2>1 DEF ToSet
  <2>. QED
    BY <1>1, <2>1, <2>2 DEF FsckInv, FilesAreChecked
<1>. QED
  BY <1>3, <1>4, <1>5, <1>6

(* Damage while fsck reads a file makes what it has read worth nothing,    *)
(* unless it is damage to something else.                                  *)
LEMMA DamageKeeps ==
  ASSUME FsckInv, Damage, UNCHANGED fsckVars
  PROVE  /\ WorkFits' /\ ExtraIsLast' /\ UsesAreSeen' /\ InOrder' /\ FilesAreChecked'
         /\ AlarmsAreReal' /\ UsedStayIndexed' /\ CleanFsckMeansWhole'
<1>1. PICK c \in DOMAIN store : \E bad : store' = [store EXCEPT ![c] = bad] /\ damage' = {c}
  BY DEF Damage
<1>2. /\ damage = {} /\ command # "over" /\ before = {} /\ Kept /\ WorkFits
      /\ DOMAIN store' = DOMAIN store
      /\ \A k : k # c /\ k \in DOMAIN store => store'[k] = store[k]
      /\ UNCHANGED <<gens, sums, command, before>>
      /\ UNCHANGED <<work, final, settings, seen, summers, alarms, outcome>>
  BY <1>1 DEF Damage, FsckInv, Kept, fsckVars
<1>3. Items' = Items
  BY <1>2 DEF Items, Fits, IsFileItem
<1>4. WorkFits'
  BY <1>2, <1>3 DEF WorkFits, FsckInv, Full, Partial
<1>5. ExtraIsLast'
  BY <1>2 DEF ExtraIsLast, FsckInv, Full, Partial
<1>6. UsesAreSeen'
  BY <1>2, SameFiles DEF UsesAreSeen, FsckInv, Full, Partial, IsAbout
<1>7. FilesAreChecked'
  BY <1>1, <1>2 DEF FilesAreChecked
<1>8. AlarmsAreReal' /\ UsedStayIndexed'
  BY <1>1, <1>2, AlarmsStayReal, SameFiles DEF FsckInv, UsedStayIndexed
<1>9. CleanFsckMeansWhole'
  BY <1>2 DEF WorkFits, CleanFsckMeansWhole
<1>10. InOrder'
  <2>1. CASE /\ "skip-checksums" \notin settings
             /\ ~ \A x \in ToSet(work) : x.what \notin {"chunk", "checksum"}
    <3>1. PICK g, p, k : /\ g \in DOMAIN gens /\ p \in RegularFiles(g)
                         /\ k \in 0 .. Len(gens[g].files[p].chunks) /\ Reading(g, p, k)
      BY <2>1 DEF FsckInv, InOrder
    <3>2. PICK list : list = gens[g].files[p].chunks
      OBVIOUS
    <3>3. list \in Seq(DOMAIN store) /\ DOMAIN list = 1 .. Len(list) /\ Len(list) \in Nat
      BY <1>2, <3>1, <3>2, FileHasChunks
    <3>4. ASSUME ToSet(list) \cap damage' = {} PROVE Added(g, p, k)'
      <4>1. c \notin ToSet(list) /\ Added(g, p, k)
        BY <1>1, <1>2, <3>1, <3>2, <3>4 DEF Reading
      <4>2. \A i \in 1 .. k : store'[list[i]] = store[list[i]]
        BY <1>2, <3>1, <3>2, <3>3, <4>1 DEF ToSet
      <4>. QED
        BY <1>2, <3>2, <4>1, <4>2 DEF Added
    <3>5. damage' # before'
      BY <1>1, <1>2
    <3>6. Reading(g, p, k)'
      BY <1>2, <3>1, <3>2, <3>4, <3>5, SameFiles DEF Reading, IsAbout
    <3>7. g \in DOMAIN gens' /\ p \in RegularFiles(g)' /\ k \in 0 .. Len(gens'[g].files[p].chunks)
      BY <1>2, <3>1, SameFiles
    <3>. QED
      BY <1>2, <2>1, <3>6, <3>7 DEF InOrder
  <2>. QED
    BY <1>2, <2>1 DEF FsckInv, InOrder
<1>. QED
  BY <1>4, <1>5, <1>6, <1>7, <1>8, <1>9, <1>10

LEMMA RestoreIsElsewhere ==
  ASSUME RestoreNext
  PROVE  /\ command \in {"none", "restore", "verify"} /\ command' # "fsck"
         /\ UNCHANGED restVars
  BY DEF RestoreNext, restore_starts, verify_starts, restore_dir, restore_first_link,
     restore_hardlink, restore_symlink, verify_file, command_ends, Starts

LEMMA RestoreKeeps ==
  ASSUME FsckInv, RestoreNext, UNCHANGED fsckVars
  PROVE  /\ WorkFits' /\ ExtraIsLast' /\ UsesAreSeen' /\ InOrder' /\ FilesAreChecked'
         /\ AlarmsAreReal' /\ UsedStayIndexed' /\ CleanFsckMeansWhole'
<1>1. /\ command \in {"none", "restore", "verify"} /\ command' # "fsck"
      /\ UNCHANGED <<gens, store, sums, damage>>
      /\ UNCHANGED <<work, final, settings, seen, summers, alarms, outcome>>
  BY RestoreIsElsewhere DEF restVars, fsckVars
<1>2. work' = << >> /\ outcome' = "none" /\ final' = final
  BY <1>1 DEF FsckInv, WorkFits
<1>3. ToSet(work') = {} /\ work' \in Seq(Items')
  BY <1>2 DEF ToSet
<1>4. WorkFits'
  BY <1>1, <1>2, <1>3 DEF WorkFits, FsckInv, Full, Partial
<1>5. ExtraIsLast' /\ UsesAreSeen' /\ InOrder' /\ FilesAreChecked' /\ CleanFsckMeansWhole'
  BY <1>1, <1>2, <1>3 DEF ExtraIsLast, UsesAreSeen, InOrder, FilesAreChecked, CleanFsckMeansWhole
<1>6. AlarmsAreReal' /\ UsedStayIndexed'
  BY <1>1, AlarmsStayReal, SameFiles DEF FsckInv, UsedStayIndexed
<1>. QED
  BY <1>4, <1>5, <1>6

LEMMA FsckInvStarts == AtRestInit => FsckInv
<1> SUFFICES ASSUME RestInit, FsckInit PROVE FsckInv
  BY DEF AtRestInit
<1>1. /\ work = << >> /\ final = FALSE /\ alarms = {} /\ outcome = "none" /\ command = "none"
      /\ sums = store
  BY DEF RestInit, FsckInit
<1>2. Kept
  BY KeptStarts
<1>3. ToSet(work) = {} /\ work \in Seq(Items)
  BY <1>1 DEF ToSet
<1>4. WorkFits /\ ExtraIsLast /\ UsesAreSeen /\ InOrder /\ FilesAreChecked /\ AlarmsAreReal
      /\ CleanFsckMeansWhole
  BY <1>1, <1>3 DEF WorkFits, ExtraIsLast, UsesAreSeen, InOrder, FilesAreChecked, AlarmsAreReal,
     CleanFsckMeansWhole
<1>5. UsedStayIndexed
  <2> SUFFICES ASSUME NEW g \in DOMAIN gens, NEW p \in RegularFiles(g),
                      NEW c \in ToSet(gens[g].files[p].chunks)
               PROVE  c \in DOMAIN store
    BY <1>1 DEF UsedStayIndexed, UsedChunks
  <2>. QED
    BY <1>2, FileHasChunks DEF ToSet
<1>. QED
  BY <1>2, <1>4, <1>5 DEF FsckInv

LEMMA FsckInvHolds ==
  ASSUME FsckInv, [AtRestNext]_atRestVars
  PROVE  FsckInv'
<1>1. Kept'
  BY KeptHolds DEF FsckInv
<1> DEFINE Rest == /\ WorkFits' /\ ExtraIsLast' /\ UsesAreSeen' /\ InOrder' /\ FilesAreChecked'
                   /\ AlarmsAreReal' /\ UsedStayIndexed' /\ CleanFsckMeansWhole'
<1>2. Kept /\ WorkFits
  BY DEF FsckInv
<1>3. CASE UNCHANGED atRestVars
  <2>1. /\ UNCHANGED <<gens, store, sums, damage, command, before>>
        /\ UNCHANGED <<work, final, settings, seen, summers, alarms, outcome>>
    BY <1>3 DEF atRestVars, restVars, fsckVars
  <2>2. Items' = Items
    BY <2>1 DEF Items, Fits, IsFileItem
  <2>3. WorkFits' /\ ExtraIsLast'
    BY <2>1, <2>2 DEF FsckInv, WorkFits, ExtraIsLast, Full, Partial
  <2>4. UsesAreSeen'
    BY <2>1, SameFiles DEF FsckInv, UsesAreSeen, Full, Partial, IsAbout
  <2>5. InOrder'
    <3>1. ASSUME NEW g, NEW p, NEW k PROVE Reading(g, p, k)' <=> Reading(g, p, k)
      <4>1. Added(g, p, k)' <=> Added(g, p, k)
        BY <2>1 DEF Added
      <4>. QED
        BY <2>1, <4>1, SameFiles, Zenon DEF Reading, IsAbout
    <3>. QED
      BY <2>1, <3>1, SameFiles DEF FsckInv, InOrder
  <2>6. FilesAreChecked' /\ CleanFsckMeansWhole'
    <3>1. \A g, p : IsWhole(g, p)' <=> IsWhole(g, p)
      BY <2>1 DEF IsWhole, AllReadable, Readable, Contents
    <3>2. FilesAreChecked'
      BY <2>1, <3>1, SameFiles DEF FsckInv, FilesAreChecked, Complete, IsAbout
    <3>3. CleanFsckMeansWhole <=>
            (outcome = "clean" /\ Complete /\ damage = before =>
               \A g \in DOMAIN gens : \A p \in RegularFiles(g) : IsWhole(g, p))
      BY DEF CleanFsckMeansWhole, IsWhole
    <3>4. CleanFsckMeansWhole' <=>
            (outcome' = "clean" /\ Complete' /\ damage' = before' =>
               \A g \in DOMAIN gens' : \A p \in RegularFiles(g)' : IsWhole(g, p)')
      BY DEF CleanFsckMeansWhole, IsWhole
    <3>. QED
      BY <2>1, <3>1, <3>2, <3>3, <3>4, SameFiles DEF FsckInv, Complete
  <2>7. AlarmsAreReal' /\ UsedStayIndexed'
    BY <2>1, AlarmsStayReal, SameFiles DEF FsckInv, UsedStayIndexed
  <2>. QED
    BY <1>1, <2>3, <2>4, <2>5, <2>6, <2>7 DEF FsckInv
<1>4. CASE FsckNext
  <2>1. CASE fsck_starts
    BY <1>1, <2>1, StartKeeps DEF FsckInv
  <2>2. CASE fsck_ends \/ fsck_dies
    BY <1>1, <2>2, EndKeeps DEF FsckInv
  <2>3. CASE \E more : Expands(more)
    BY <1>1, <2>3, ExpandsKeeps DEF FsckInv
  <2>4. CASE check_repository \/ check_clientlist \/ check_client \/ check_generation
             \/ check_directory
    BY <1>2, <2>3, <2>4, RepositoryExpands, ClientlistExpands, ClientExpands, GenerationExpands,
       DirectoryExpands
  <2>5. CASE check_file
    <3>1. CASE \/ gens[Head(work).gen].files[Head(work).path].kind # "file"
               \/ "ignore-chunks" \in settings
      BY <1>2, <2>3, <2>5, <3>1, FileExpands
    <3>2. CASE /\ gens[Head(work).gen].files[Head(work).path].kind = "file"
               /\ "ignore-chunks" \notin settings
      BY <1>1, <2>5, <3>2, FileKeeps DEF FsckInv
    <3>. QED
      BY <3>1, <3>2
  <2>6. CASE check_chunk
    BY <1>1, <2>6, ChunkKeeps DEF FsckInv
  <2>7. CASE check_file_checksum
    BY <1>1, <2>7, ChecksumKeeps DEF FsckInv
  <2>8. CASE check_extra_chunks
    BY <1>1, <2>8, ExtraKeeps DEF FsckInv
  <2>. QED
    BY <1>4, <2>1, <2>2, <2>4, <2>5, <2>6, <2>7, <2>8 DEF FsckNext
<1>5. CASE RestoreNext /\ UNCHANGED fsckVars
  BY <1>1, <1>5, RestoreKeeps DEF FsckInv
<1>6. CASE Damage /\ UNCHANGED <<fsckVars, restoreVars>>
  BY <1>1, <1>6, DamageKeeps DEF FsckInv
<1>. QED
  BY <1>3, <1>4, <1>5, <1>6 DEF AtRestNext

LEMMA FsckInvAlways == AtRestSpec => []FsckInv
  BY FsckInvStarts, FsckInvHolds, PTL DEF AtRestSpec

(* Whatever is damaged, and whenever, and with any settings, fsck takes no *)
(* chunk that a generation uses out of the indexes                         *)
(* (CheckForExtraChunks, fsck_plugin.py): it only looks for unused chunks  *)
(* when every file of every generation has been gone through.              *)
THEOREM NothingUsedIsRemoved == AtRestSpec => []UsedStayIndexed
<1>1. FsckInv => UsedStayIndexed
  BY DEF FsckInv
<1>. QED
  BY <1>1, FsckInvAlways, PTL

(* What fsck reports about a chunk or a file is only reported when it is   *)
(* true, for any repository and any damage.                                *)
THEOREM NoFalseAlarms == AtRestSpec => []AlarmsAreReal
<1>1. FsckInv => AlarmsAreReal
  BY DEF FsckInv
<1>. QED
  BY <1>1, FsckInvAlways, PTL

(* A complete fsck that ends without errors has read every chunk of every  *)
(* file of every generation, and the file is what was backed up.           *)
THEOREM CleanMeansWhole == AtRestSpec => []CleanFsckMeansWhole
<1>1. FsckInv => CleanFsckMeansWhole
  BY DEF FsckInv
<1>. QED
  BY <1>1, FsckInvAlways, PTL

-----------------------------------------------------------------------------
(* Verify                                                                  *)

(* What verify has to find.                                                *)
IsOther(p) ==
  \/ p \notin DOMAIN live
  \/ live[p].kind # Entry(p).kind \/ live[p].mtime # Entry(p).mtime
  \/ Entry(p).kind = "file" /\ live[p].data # Contents(Entry(p).chunks)

IsLive(file) ==
  /\ file = [kind |-> file.kind, mtime |-> file.mtime, data |-> file.data]
  /\ file.data \in Seq(Nat)

(* What was backed up of a file that has been damaged since verify began.  *)
WasOther(p) == DamagedMeanwhile(p) /\ live[p].data # Entry(p).md5
WasLive(p)  ==
  /\ DamagedMeanwhile(p) /\ p \in DOMAIN live
  /\ live[p].kind = Entry(p).kind /\ live[p].mtime = Entry(p).mtime
  /\ live[p].data = Entry(p).md5

(* When all but todo has been walked, failed says what there was to find.  *)
HasFound ==
  IF failed
  THEN \E p \in DOMAIN gens[gen].files \ todo : IsOther(p) \/ WasOther(p)
  ELSE \A p \in DOMAIN gens[gen].files \ todo : IsOther(p) => WasLive(p)

VerifyInv ==
  /\ command = "none" => ~failed /\ result = "none"
  /\ result # "none" => command = "over"
  /\ command = "verify" \/ result = "verified" =>
       /\ gen \in DOMAIN gens /\ todo \subseteq DOMAIN gens[gen].files
       /\ Unfinished(gen) = {}
       /\ \A p \in DOMAIN live : IsLive(live[p])
       /\ HasFound
  /\ result = "verified" => todo = {}

LEMMA VerifyStarts ==
  ASSUME Kept, VerifyInv, NEW g \in DOMAIN gens, verify_starts(g)
  PROVE  VerifyInv'
<1>1. /\ command = "none" /\ command' = "verify" /\ gen' = g /\ todo' = DOMAIN gens[g].files
      /\ UNCHANGED <<gens, store, damage, failed, result>> /\ Unfinished(g) = {}
  BY DEF verify_starts, Starts, restVars
<1>2. PICK same : same = BackedUp(g)
  OBVIOUS
<1>3. ASSUME NEW p \in DOMAIN same PROVE IsLive(same[p])
  <2>1. p \in RegularFiles(g) => gens[g].files[p].md5 \in Seq(Bytes)
    BY <1>1 DEF Kept
  <2>2. p \in RegularFiles(g) => gens[g].files[p].md5 \in Seq(Nat)
    <3>1. ASSUME NEW s \in Seq(Bytes) PROVE s \in Seq(Nat)
      <4>1. PICK n \in Nat : s \in [1 .. n -> Bytes]
        OBVIOUS
      <4>2. s \in [1 .. n -> Nat]
        BY <4>1, StoredAssumption
      <4>. QED
        BY <4>1, <4>2, IsList
    <3>. QED
      BY <2>1, <3>1
  <2>3. << >> \in Seq(Nat)
    OBVIOUS
  <2>4. same[p] = [kind |-> gens[g].files[p].kind, mtime |-> gens[g].files[p].mtime,
                   data |-> IF p \in RegularFiles(g) THEN gens[g].files[p].md5 ELSE << >>]
    BY <1>2 DEF BackedUp
  <2>. QED
    BY <2>2, <2>3, <2>4 DEF IsLive
<1>4. ASSUME NEW q \in DOMAIN live' PROVE IsLive(live'[q])
  <2>1. CASE live' = same
    BY <1>3, <2>1
  <2>2. CASE live' # same
    <3>1. PICK p \in DOMAIN same, change \in Changes : live' = Altered(g, p, change)
      BY <1>2, <2>2 DEF verify_starts
    <3>2. PICK old, data : old = same[p] /\ data = old.data
      OBVIOUS
    <3>3. /\ old = [kind |-> old.kind, mtime |-> old.mtime, data |-> old.data]
          /\ data \in Seq(Nat)
      BY <1>3, <3>1, <3>2 DEF IsLive
    <3>4. \/ live' = [k \in DOMAIN same \ {p} |-> same[k]]
          \/ live' = [same EXCEPT ![p] = [old EXCEPT !.mtime = @ + 1]]
          \/ live' = [same EXCEPT ![p] = [old EXCEPT !.kind = "fifo"]]
          \/ live' = [same EXCEPT ![p] = [old EXCEPT !.data = Append(@, 1)]]
          \/ data # << >> /\ live' = [same EXCEPT ![p] = [old EXCEPT !.data = Front(@)]]
          \/ data # << >> /\ live' = [same EXCEPT ![p] = [old EXCEPT !.data[1] = (@ + 1) % 2]]
      BY <1>2, <2>2, <3>1, <3>2 DEF Altered
    <3>5. Append(data, 1) \in Seq(Nat)
      BY <3>3
    <3>6. ASSUME data # << >>
          PROVE  Front(data) \in Seq(Nat) /\ [data EXCEPT ![1] = (@ + 1) % 2] \in Seq(Nat)
      <4>1. PICK n \in Nat : n = Len(data) /\ data \in [1 .. n -> Nat] /\ n # 0
        BY <3>3, <3>6
      <4>2. Front(data) \in Seq(Nat)
        BY <3>3, <4>1 DEF Front
      <4>3. [data EXCEPT ![1] = (@ + 1) % 2] \in [1 .. n -> Nat]
        BY <4>1
      <4>. QED
        BY <4>1, <4>2, <4>3, IsList
    <3>7. q # p => q \in DOMAIN same /\ live'[q] = same[q]
      BY <3>4
    <3>8. CASE q = p
      <4>1. \/ live'[q] = [old EXCEPT !.mtime = @ + 1]
            \/ live'[q] = [old EXCEPT !.kind = "fifo"]
            \/ live'[q] = [old EXCEPT !.data = Append(data, 1)]
            \/ data # << >> /\ live'[q] = [old EXCEPT !.data = Front(data)]
            \/ data # << >> /\ live'[q] = [old EXCEPT !.data = [data EXCEPT ![1] = (@ + 1) % 2]]
        BY <3>1, <3>2, <3>4, <3>8
      <4>2. ASSUME NEW file, NEW new \in Seq(Nat),
                   \/ file = [old EXCEPT !.mtime = @ + 1] \/ file = [old EXCEPT !.kind = "fifo"]
                   \/ file = [old EXCEPT !.data = new]
            PROVE  IsLive(file)
        BY <3>2, <3>3, <4>2 DEF IsLive
      <4>. QED
        BY <3>5, <3>6, <4>1, <4>2
    <3>. QED
      BY <1>3, <3>7, <3>8
  <2>. QED
    BY <2>1, <2>2
<1>5. HasFound'
  BY <1>1 DEF HasFound, VerifyInv
<1>6. Unfinished(gen)' = {}
  BY <1>1 DEF Unfinished, RegularFiles
<1>. QED
  BY <1>1, <1>4, <1>5, <1>6 DEF VerifyInv

(* verify_regular_file compares the file with its chunks, one by one.      *)
LEMMA ComparesData ==
  ASSUME Kept, gen \in DOMAIN gens, NEW p \in DOMAIN gens[gen].files, p \in DOMAIN live,
         IsLive(live[p])
  PROVE  SameData(p) <=> live[p].data = Contents(Entry(p).chunks)
<1>1. PICK data, list : data = live[p].data /\ list = Entry(p).chunks
  OBVIOUS
<1>2. data \in Seq(Nat) /\ list \in Seq(DOMAIN store)
  BY <1>1 DEF IsLive, Entry, Kept
<1>3. PICK n \in Nat, m \in Nat : n = Len(data) /\ DOMAIN data = 1 .. n
                                  /\ m = Len(list) /\ DOMAIN list = 1 .. m
  BY <1>2
<1>4. SameData(p) <=> n = m /\ \A i \in 1 .. m : i <= n /\ data[i] = store[list[i]]
  BY <1>1, <1>3 DEF SameData, FirstOther, SameChunk
<1>5. Contents(list) = [i \in 1 .. m |-> store[list[i]]]
  BY <1>3 DEF Contents
<1>6. data = [i \in 1 .. n |-> data[i]]
  BY <1>2, <1>3
<1>7. ASSUME SameData(p) PROVE data = Contents(list)
  BY <1>4, <1>5, <1>6, <1>7
<1>8. ASSUME data = Contents(list) PROVE SameData(p)
  <2>1. DOMAIN data = 1 .. m /\ \A i \in 1 .. m : data[i] = store[list[i]]
    BY <1>5, <1>8
  <2>2. n = m
    BY <1>3, <2>1
  <2>. QED
    BY <1>3, <1>4, <2>1, <2>2
<1>. QED
  BY <1>1, <1>7, <1>8

LEMMA SameSaid ==
  ASSUME UNCHANGED <<gens, store, damage, before, gen, live>>, NEW q
  PROVE  /\ IsOther(q)' <=> IsOther(q)
         /\ WasOther(q)' <=> WasOther(q)
         /\ WasLive(q)' <=> WasLive(q)
<1>1. IsOther(q)' <=> IsOther(q)
  BY DEF IsOther, Entry, Contents
<1>2. DamagedMeanwhile(q)' <=> DamagedMeanwhile(q)
  BY DEF DamagedMeanwhile, RegularFiles, Entry
<1>. QED
  BY <1>1, <1>2 DEF WasOther, WasLive, Entry

LEMMA VerifyWalks ==
  ASSUME Kept, VerifyInv, NEW p \in todo, verify_file(p)
  PROVE  VerifyInv'
<1>1. /\ command = "verify" /\ result = "none"
      /\ UNCHANGED <<gens, store, damage, before, gen, live>>
  BY DEF verify_file, restVars, VerifyInv
<1>2. CASE VerifyDies(p)
  BY <1>1, <1>2 DEF verify_file, VerifyInv
<1>3. CASE ~VerifyDies(p)
  <2>1. /\ failed' = (failed \/ Differs(p)) /\ todo' = todo \ {p}
        /\ UNCHANGED <<command, result>>
    BY <1>3 DEF verify_file
  <2>2. Differs(p) <=> IsOther(p)
    <3>1. gen \in DOMAIN gens /\ p \in DOMAIN gens[gen].files
      BY <1>1 DEF VerifyInv
    <3>2. p \in DOMAIN live => (SameData(p) <=> live[p].data = Contents(Entry(p).chunks))
      BY <1>1, <3>1, ComparesData DEF VerifyInv
    <3>. QED
      BY <3>2 DEF Differs, IsOther, SameMetadata
  <2>3. \A q : (IsOther(q)' <=> IsOther(q)) /\ (WasOther(q)' <=> WasOther(q))
               /\ (WasLive(q)' <=> WasLive(q))
    BY <1>1, SameSaid
  <2>4. HasFound'
    <3>1. HasFound
      BY <1>1 DEF VerifyInv
    <3>2. DOMAIN gens[gen].files \ todo' = (DOMAIN gens[gen].files \ todo) \cup {p}
      BY <1>1, <2>1 DEF VerifyInv
    <3>. QED
      BY <1>1, <2>1, <2>2, <2>3, <3>1, <3>2 DEF HasFound
  <2>5. Unfinished(gen)' = Unfinished(gen)
    BY <1>1 DEF Unfinished, RegularFiles
  <2>. QED
    BY <1>1, <2>1, <2>4, <2>5 DEF VerifyInv
<1>. QED
  BY <1>2, <1>3

LEMMA FsckIsElsewhere ==
  ASSUME FsckNext
  PROVE  command \in {"none", "fsck"} /\ command' \in {"fsck", "over"}
  BY DEF FsckNext, fsck_starts, fsck_ends, fsck_dies, check_repository, check_clientlist,
     check_client, check_generation, check_directory, check_file, check_chunk,
     check_file_checksum, check_extra_chunks, Done, Starts, Working

(* Until a chunk is damaged a file is what was backed up; what becomes of  *)
(* it then is for those that are still to be walked.                       *)
LEMMA DamageMeanwhile ==
  ASSUME Kept, VerifyInv, command = "verify", Damage, UNCHANGED restoreVars
  PROVE  HasFound'
<1>1. /\ damage = {} /\ before = {} /\ gen \in DOMAIN gens /\ Unfinished(gen) = {}
      /\ UNCHANGED <<gens, before, gen, todo, failed, live>>
  BY DEF Damage, Kept, VerifyInv, restoreVars
<1>2. PICK c \in DOMAIN store : /\ damage' = {c}
                               /\ \E bad : store' = [store EXCEPT ![c] = bad]
  BY DEF Damage
<1>3. \A p : ~DamagedMeanwhile(p)
  BY <1>1 DEF DamagedMeanwhile
<1>4. HasFound
  BY DEF VerifyInv
<1>5. ASSUME NEW p \in RegularFiles(gen)
      PROVE  Contents(Entry(p).chunks) = Entry(p).md5
  BY <1>1, <1>5 DEF Kept, Intact, Unfinished, Entry
<1>6. ASSUME NEW p \in RegularFiles(gen), ~DamagedMeanwhile(p)'
      PROVE  Contents(Entry(p).chunks)' = Contents(Entry(p).chunks)
  <2>1. PICK list : list = Entry(p).chunks /\ list = Entry(p).chunks'
    BY <1>1 DEF Entry
  <2>2. p \in RegularFiles(gen)'
    BY <1>1 DEF RegularFiles
  <2>3. \A i \in DOMAIN list : list[i] # c
    BY <1>1, <1>2, <1>6, <2>1, <2>2 DEF DamagedMeanwhile, ToSet
  <2>4. \A i \in DOMAIN list : store'[list[i]] = store[list[i]]
    <3>1. list \in Seq(DOMAIN store)
      BY <1>1, <2>1 DEF Kept, RegularFiles, Entry
    <3>. QED
      BY <1>2, <2>3, <3>1
  <2>. QED
    BY <2>1, <2>4 DEF Contents
<1>7. ASSUME NEW p \in DOMAIN gens[gen].files
      PROVE  /\ IsOther(p) => IsOther(p)' \/ WasOther(p)'
             /\ ~IsOther(p) /\ IsOther(p)' => WasLive(p)'
  <2>1. Entry(p)' = Entry(p) /\ live' = live
    BY <1>1 DEF Entry
  <2>2. CASE p \notin RegularFiles(gen)
    <3>1. Entry(p).kind # "file"
      BY <2>2 DEF RegularFiles, Entry
    <3>. QED
      BY <2>1, <3>1 DEF IsOther
  <2>3. CASE p \in RegularFiles(gen) /\ DamagedMeanwhile(p)'
    BY <1>5, <2>1, <2>3 DEF IsOther, WasOther, WasLive
  <2>4. CASE p \in RegularFiles(gen) /\ ~DamagedMeanwhile(p)'
    BY <1>6, <2>1, <2>4 DEF IsOther
  <2>. QED
    BY <2>2, <2>3, <2>4
<1>. QED
  BY <1>1, <1>3, <1>4, <1>7 DEF HasFound, WasOther, WasLive

LEMMA VerifyInvHolds ==
  ASSUME Kept, VerifyInv, [AtRestNext]_atRestVars
  PROVE  VerifyInv'
<1>1. CASE UNCHANGED atRestVars
  <2>1. /\ UNCHANGED <<gens, store, damage, command, before>>
        /\ UNCHANGED <<gen, todo, failed, result, live>>
    BY <1>1 DEF atRestVars, restVars, restoreVars
  <2>2. \A p : (IsOther(p)' <=> IsOther(p)) /\ (WasOther(p)' <=> WasOther(p))
               /\ (WasLive(p)' <=> WasLive(p))
    BY <2>1, SameSaid
  <2>3. HasFound' <=> HasFound
    BY <2>1, <2>2 DEF HasFound
  <2>4. Unfinished(gen)' = Unfinished(gen)
    BY <2>1 DEF Unfinished, RegularFiles
  <2>. QED
    BY <2>1, <2>3, <2>4 DEF VerifyInv
<1>2. CASE FsckNext /\ UNCHANGED restoreVars
  BY <1>2, FsckIsElsewhere DEF VerifyInv, restoreVars
<1>3. CASE Damage /\ UNCHANGED <<fsckVars, restoreVars>>
  <2>1. /\ damage = {} /\ damage' # {} /\ before = {} /\ command # "over" /\ result = "none"
        /\ UNCHANGED <<gens, command, before>>
        /\ UNCHANGED <<gen, todo, failed, result, live>>
    BY <1>3 DEF Damage, Kept, VerifyInv, restoreVars
  <2>2. CASE command = "verify"
    <3>1. HasFound'
      BY <1>3, <2>2, DamageMeanwhile
    <3>2. Unfinished(gen)' = Unfinished(gen)
      BY <2>1 DEF Unfinished, RegularFiles
    <3>. QED
      BY <2>1, <2>2, <3>1, <3>2 DEF VerifyInv
  <2>. QED
    BY <2>1, <2>2 DEF VerifyInv
<1>4. CASE RestoreNext
  <2>1. CASE \E g \in DOMAIN gens : restore_starts(g)
    <3>1. command = "none" /\ command' = "restore" /\ UNCHANGED <<failed, result>>
      BY <2>1 DEF restore_starts, Starts
    <3>. QED
      BY <3>1 DEF VerifyInv
  <2>2. CASE \E g \in DOMAIN gens : verify_starts(g)
    BY <2>2, VerifyStarts
  <2>3. CASE \E p \in todo : restore_dir(p) \/ restore_first_link(p) \/ restore_hardlink(p)
                             \/ restore_symlink(p)
    <3>1. command = "restore" /\ UNCHANGED <<command, result>>
      BY <2>3 DEF restore_dir, restore_first_link, restore_hardlink, restore_symlink
    <3>. QED
      BY <3>1 DEF VerifyInv
  <2>4. CASE \E p \in todo : verify_file(p)
    BY <2>4, VerifyWalks
  <2>5. CASE command_ends
    <3>1. /\ command \in {"restore", "verify"} /\ todo = {} /\ command' = "over"
          /\ result' = IF command = "restore" THEN "restored" ELSE "verified"
          /\ UNCHANGED <<gens, store, damage, before, gen, todo, failed, live>>
      BY <2>5 DEF command_ends, restVars
    <3>2. \A p : (IsOther(p)' <=> IsOther(p)) /\ (WasOther(p)' <=> WasOther(p))
                 /\ (WasLive(p)' <=> WasLive(p))
      BY <3>1, SameSaid
    <3>3. HasFound' <=> HasFound
      BY <3>1, <3>2 DEF HasFound
    <3>4. Unfinished(gen)' = Unfinished(gen)
      BY <3>1 DEF Unfinished, RegularFiles
    <3>. QED
      BY <3>1, <3>3, <3>4 DEF VerifyInv
  <2>. QED
    BY <1>4, <2>1, <2>2, <2>3, <2>4, <2>5 DEF RestoreNext
<1>. QED
  BY <1>1, <1>2, <1>3, <1>4 DEF AtRestNext

LEMMA VerifyInvTells ==
  ASSUME VerifyInv
  PROVE  VerifyIsRight
<1> SUFFICES ASSUME result = "verified"
             PROVE  IF failed
                    THEN \E p \in DOMAIN gens[gen].files :
                           DiffersNow(p) \/ (DamagedMeanwhile(p) /\ live[p] # Stored(p))
                    ELSE \A p \in DOMAIN gens[gen].files :
                           DiffersNow(p) => /\ DamagedMeanwhile(p) /\ p \in DOMAIN live
                                            /\ live[p] = Stored(p)
  BY DEF VerifyIsRight
<1>1. HasFound /\ todo = {}
  BY DEF VerifyInv
<1>2. ASSUME NEW p \in DOMAIN gens[gen].files
      PROVE  /\ IsOther(p) <=> DiffersNow(p)
             /\ WasOther(p) => DiffersNow(p) \/ live[p] # Stored(p)
             /\ WasLive(p) => live[p] = Stored(p)
  <2>1. CASE p \in DOMAIN live
    <3>1. PICK file, entry : file = live[p] /\ entry = Stored(p)
      OBVIOUS
    <3>2. file = [kind |-> file.kind, mtime |-> file.mtime, data |-> file.data]
      BY <2>1, <3>1 DEF VerifyInv, IsLive
    <3>3. /\ entry = [kind |-> entry.kind, mtime |-> entry.mtime, data |-> entry.data]
          /\ entry.kind = Entry(p).kind /\ entry.mtime = Entry(p).mtime
          /\ Entry(p).kind = "file" => entry.data = Entry(p).md5
      BY <3>1 DEF Stored
    <3>4. [file EXCEPT !.data = << >>] = [entry EXCEPT !.data = << >>] <=>
            file.kind = entry.kind /\ file.mtime = entry.mtime
      <4>1. [file EXCEPT !.data = << >>] = [kind |-> file.kind, mtime |-> file.mtime, data |-> << >>]
        BY <3>2
      <4>2. [entry EXCEPT !.data = << >>] = [kind |-> entry.kind, mtime |-> entry.mtime, data |-> << >>]
        BY <3>3
      <4>. QED
        BY <4>1, <4>2
    <3>5. p \in RegularFiles(gen) <=> Entry(p).kind = "file"
      BY DEF RegularFiles, Entry
    <3>6. IsOther(p) <=> DiffersNow(p)
      BY <2>1, <3>1, <3>3, <3>4, <3>5 DEF IsOther, DiffersNow
    <3>7. WasOther(p) => live[p] # Stored(p)
      BY <3>1, <3>3, <3>5 DEF WasOther, DamagedMeanwhile
    <3>8. WasLive(p) => live[p] = Stored(p)
      <4> SUFFICES ASSUME WasLive(p) PROVE file = entry
        BY <3>1
      <4>1. file.kind = entry.kind /\ file.mtime = entry.mtime /\ file.data = entry.data
        BY <3>1, <3>3, <3>5 DEF WasLive, DamagedMeanwhile
      <4>. QED
        BY <3>2, <3>3, <4>1
    <3>. QED
      BY <3>6, <3>7, <3>8
  <2>2. CASE p \notin DOMAIN live
    BY <2>2 DEF IsOther, DiffersNow, WasLive
  <2>. QED
    BY <2>1, <2>2
<1>. QED
  BY <1>1, <1>2 DEF HasFound, WasOther, WasLive

(* A verify that ends has compared every file of the generation, and says  *)
(* whether one of them is not what is live, for any repository and any     *)
(* damage from before it; of a file damaged meanwhile it has seen what was *)
(* backed up or what is stored at the end.                                 *)
THEOREM VerifyTells == AtRestSpec => []VerifyIsRight
<1>1. AtRestInit => Kept /\ VerifyInv
  <2>1. RestInit /\ RestoreInit => VerifyInv
    BY DEF RestInit, RestoreInit, VerifyInv
  <2>. QED
    BY <2>1, KeptStarts DEF AtRestInit
<1>2. Kept /\ VerifyInv /\ [AtRestNext]_atRestVars => (Kept /\ VerifyInv)'
  BY KeptHolds, VerifyInvHolds
<1>3. Kept /\ VerifyInv => VerifyIsRight
  BY VerifyInvTells
<1>. QED
  BY <1>1, <1>2, <1>3, PTL DEF AtRestSpec
-----------------------------------------------------------------------------
(* Induction: a set of numbers that has no least element has no element.   *)

LEMMA LeastIs ==
  ASSUME NEW T, T \subseteq Nat, T # {}
  PROVE  \E n \in T : \A m \in T : n <= m
<1>1. PICK R : IsWellFoundedOn(R, Nat) /\ \A x, y \in Nat : x < y => <<x, y>> \in R
  <2>. DEFINE R == OpToRel(<, Nat)
  <2>1. IsWellFoundedOn(R, Nat)
    BY NatLessThanWellFounded, Zenon
  <2>2. \A x, y \in Nat : x < y => <<x, y>> \in R
    BY DEF OpToRel
  <2>. HIDE DEF R
  <2>. QED
    BY <2>1, <2>2, Zenon
<1>2. PICK n \in T : \A m \in T : ~(<<m, n>> \in R)
  <2>1. IsWellFoundedOn(R, Nat)
    BY <1>1
  <2>2. \E n \in T : \A m \in T : ~(<<m, n>> \in R)
    BY <2>1, WFMin, Zenon
  <2>. QED
    BY <2>2, Zenon
<1>3. ASSUME NEW m \in T
      PROVE  n <= m
  <2>1. n \in Nat /\ m \in Nat
    OBVIOUS
  <2>2. m < n => FALSE
    BY <1>1, <1>2, <2>1
  <2>. QED
    BY <2>1, <2>2
<1>. QED
  BY <1>3

LEMMA Induction ==
  ASSUME NEW k \in Nat, NEW A, 0 \in A, \A i \in 1 .. k : i - 1 \in A => i \in A
  PROVE  0 .. k \subseteq A
<1>1. SUFFICES ASSUME (0 .. k) \ A # {} PROVE FALSE
  OBVIOUS
<1>2. PICK i \in (0 .. k) \ A : \A j \in (0 .. k) \ A : i <= j
  <2>1. (0 .. k) \ A \subseteq Nat
    OBVIOUS
  <2>. QED
    BY <1>1, <2>1, LeastIs, Zenon
<1>3. i \in 1 .. k /\ i - 1 \in 0 .. k
  BY <1>2
<1>4. i - 1 \in A
  BY <1>2, <1>3
<1>. QED
  BY <1>2, <1>3, <1>4

LEMMA MaxOf ==
  ASSUME NEW i \in Nat, NEW s \in SUBSET (1 .. i), i \in s
  PROVE  Max(s) = i
<1>1. \A x \in s : x <= i /\ x \in Nat
  OBVIOUS
<1>2. \A x \in s : (\A y \in s : x >= y) => x = i
  BY <1>1
<1>3. \A y \in s : i >= y
  BY <1>1
<1>. QED
  BY <1>2, <1>3 DEF Max

LEMMA GreatestIs ==
  ASSUME NEW k \in Nat, NEW T \in SUBSET (0 .. k), T # {}
  PROVE  \E n \in T : \A m \in T : m <= n
<1>. DEFINE back == {k - n : n \in T}
<1>1. back \subseteq Nat /\ back # {}
  <2>1. \A n \in T : k - n \in Nat
    OBVIOUS
  <2>. QED
    BY <2>1
<1>2. PICK b \in back : \A c \in back : b <= c
  BY <1>1, LeastIs, Zenon
<1>3. PICK n \in T : b = k - n
  BY <1>2
<1>4. ASSUME NEW m \in T PROVE m <= n
  <2>1. b <= k - m
    BY <1>2
  <2>2. m \in 0 .. k /\ n \in 0 .. k
    OBVIOUS
  <2>. QED
    BY <1>3, <2>1, <2>2
<1>. QED
  BY <1>4

LEMMA MaxIn ==
  ASSUME NEW k \in Nat, NEW T \in SUBSET (0 .. k), T # {}
  PROVE  Max(T) \in T /\ \A m \in T : m <= Max(T)
<1>1. PICK n \in T : \A m \in T : m <= n
  BY GreatestIs, Zenon
<1>2. \A m \in T : m \in Nat
  OBVIOUS
<1>3. \A m \in T : n >= m
  BY <1>1, <1>2
<1>. QED
  BY <1>2, <1>3 DEF Max

(* A fold over k places, at each of which a function G[i] is applied.  The *)
(* community modules define folds for sets of places, from the last on.    *)
FoldsOver(X, base, k, G) == base \in X /\ k \in Nat /\ G \in [1 .. k -> [X -> X]]

FoldValues(X, base, k, G, it) ==
  /\ it \in [SUBSET (1 .. k) -> X] /\ it[{}] = base
  /\ \A s \in SUBSET (1 .. k) : s # {} => it[s] = G[Max(s)][it[s \ {Max(s)}]]

FoldPassesBy(X, base, k, G, iter) ==
  /\ FoldsOver(X, base, k, G) /\ iter[{}] = base
  /\ \A s \in SUBSET (1 .. k) : s # {} /\ iter[s \ {Max(s)}] \in X =>
       iter[s] = G[Max(s)][iter[s \ {Max(s)}]]

FoldPath(X, base, k, G, end, L) ==
  L \in [0 .. k -> X] /\ L[0] = base /\ L[k] = end /\ \A i \in 1 .. k : L[i] = G[i][L[i - 1]]

LEMMA FoldUnfolds ==
  ASSUME NEW X, NEW base, NEW k, NEW G, FoldsOver(X, base, k, G)
  PROVE  \E it : FoldValues(X, base, k, G, it)
<1>. base \in X /\ k \in Nat /\ G \in [1 .. k -> [X -> X]]
  BY DEF FoldsOver
<1>. DEFINE step(it, s) == IF s = {} THEN base ELSE G[Max(s)][it[s \ {Max(s)}]]
            Unfolds(it, i) == /\ it \in [SUBSET (1 .. i) -> X]
                              /\ \A s \in SUBSET (1 .. i) : it[s] = step(it, s)
            A == {i \in 0 .. k : \E it : Unfolds(it, i)}
<1>1. 0 \in A
  <2>. DEFINE it == [s \in SUBSET (1 .. 0) |-> base]
  <2>1. \A s \in SUBSET (1 .. 0) : s = {}
    OBVIOUS
  <2>2. Unfolds(it, 0)
    BY <2>1
  <2>. HIDE DEF it
  <2>3. \E h : Unfolds(h, 0)
    BY <2>2
  <2>. HIDE DEF Unfolds
  <2>. QED
    BY <2>3
<1>2. ASSUME NEW i \in 1 .. k, i - 1 \in A
      PROVE  i \in A
  <2>1. PICK g : Unfolds(g, i - 1)
    BY <1>2
  <2>. DEFINE it == [s \in SUBSET (1 .. i) |-> IF i \in s THEN G[i][g[s \ {i}]] ELSE g[s]]
  <2>2. ASSUME NEW s \in SUBSET (1 .. i)
        PROVE  /\ s \ {i} \in SUBSET (1 .. (i - 1)) /\ g[s \ {i}] \in X
               /\ i \notin s => s \in SUBSET (1 .. (i - 1)) /\ g[s] \in X
    <3>1. s \ {i} \in SUBSET (1 .. (i - 1))
      OBVIOUS
    <3>. QED
      BY <3>1, <2>1
  <2>3. it \in [SUBSET (1 .. i) -> X]
    <3>1. ASSUME NEW s \in SUBSET (1 .. i)
          PROVE  (IF i \in s THEN G[i][g[s \ {i}]] ELSE g[s]) \in X
      <4>1. g[s \ {i}] \in X /\ (i \notin s => g[s] \in X)
        BY <2>2
      <4>2. G[i] \in [X -> X]
        OBVIOUS
      <4>3. G[i][g[s \ {i}]] \in X
        BY <4>1, <4>2
      <4>. QED
        BY <4>1, <4>3
    <3>. QED
      BY <3>1
  <2>4. ASSUME NEW s \in SUBSET (1 .. i) PROVE it[s] = step(it, s)
    <3>1. CASE i \in s
      <4>1. Max(s) = i /\ s # {}
        BY <3>1, MaxOf
      <4>2. s \ {i} \in SUBSET (1 .. i) /\ i \notin s \ {i}
        OBVIOUS
      <4>3. it[s \ {i}] = g[s \ {i}]
        BY <4>2
      <4>4. it[s] = G[i][g[s \ {i}]]
        BY <3>1
      <4>. QED
        BY <4>1, <4>3, <4>4
    <3>2. CASE i \notin s
      <4>1. s \in SUBSET (1 .. (i - 1)) /\ s \ {Max(s)} \in SUBSET (1 .. i) /\ i \notin s \ {Max(s)}
        BY <3>2, <2>2
      <4>2. it[s \ {Max(s)}] = g[s \ {Max(s)}]
        BY <4>1
      <4>3. it[s] = g[s]
        BY <3>2
      <4>4. g[s] = step(g, s)
        BY <4>1, <2>1
      <4>. QED
        BY <4>2, <4>3, <4>4
    <3>. QED
      BY <3>1, <3>2
  <2>5. Unfolds(it, i)
    BY <2>3, <2>4
  <2>. HIDE DEF it
  <2>6. \E h : Unfolds(h, i)
    BY <2>5
  <2>. HIDE DEF Unfolds
  <2>. QED
    BY <2>6
<1>. HIDE DEF A
<1>3. k \in A
  <2>1. \A i \in 1 .. k : i - 1 \in A => i \in A
    BY <1>2
  <2>2. 0 .. k \subseteq A
    BY <1>1, <2>1, Induction, Zenon
  <2>. QED
    BY <2>2
<1>4. PICK it : Unfolds(it, k)
  BY <1>3 DEF A
<1>5. {} \in SUBSET (1 .. k)
  OBVIOUS
<1>. QED
  BY <1>4, <1>5 DEF FoldValues

(* The same along the sequence.                                            *)
LEMMA FoldGoes ==
  ASSUME NEW X, NEW base, NEW k, NEW G, NEW iter, FoldPassesBy(X, base, k, G, iter)
  PROVE  \E L : FoldPath(X, base, k, G, iter[1 .. k], L)
<1>. /\ base \in X /\ k \in Nat /\ G \in [1 .. k -> [X -> X]] /\ iter[{}] = base
     /\ \A s \in SUBSET (1 .. k) : s # {} /\ iter[s \ {Max(s)}] \in X =>
          iter[s] = G[Max(s)][iter[s \ {Max(s)}]]
  BY DEF FoldPassesBy, FoldsOver
<1>. DEFINE L == [i \in 0 .. k |-> iter[1 .. i]]
            A == {i \in 0 .. k : L[i] \in X}
<1>1. L[0] = base
  <2>1. 1 .. 0 = {} /\ {} \in SUBSET (1 .. k)
    OBVIOUS
  <2>2. iter[{}] = base
    BY <2>1
  <2>. QED
    BY <2>1, <2>2
<1>. HIDE DEF A
<1>2. ASSUME NEW i \in 1 .. k, L[i - 1] \in X
      PROVE  L[i] = G[i][L[i - 1]]
  <2>1. 1 .. i \in SUBSET (1 .. k) /\ i \in 1 .. i
    OBVIOUS
  <2>2. (1 .. i) \ {i} = 1 .. (i - 1)
    OBVIOUS
  <2>3. Max(1 .. i) = i
    BY <2>1, MaxOf
  <2>4. L[i - 1] = iter[1 .. (i - 1)] /\ L[i] = iter[1 .. i]
    OBVIOUS
  <2>. HIDE DEF L
  <2>. QED
    BY <1>2, <2>1, <2>2, <2>3, <2>4
<1>3. L[k] = iter[1 .. k]
  OBVIOUS
<1>. HIDE DEF L
<1>4. 0 .. k \subseteq A
  <2>1. 0 \in A
    BY <1>1 DEF A
  <2>2. ASSUME NEW i \in 1 .. k, i - 1 \in A PROVE i \in A
    <3>1. L[i - 1] \in X /\ i \in 0 .. k
      BY <2>2 DEF A
    <3>2. G[i][L[i - 1]] \in X
      BY <3>1
    <3>. QED
      BY <1>2, <3>1, <3>2 DEF A
  <2>. QED
    BY <2>1, <2>2, Induction, Zenon
<1>5. \A i \in 0 .. k : L[i] \in X
  BY <1>4 DEF A
<1>6. L \in [0 .. k -> X]
  <2>1. L = [i \in 0 .. k |-> L[i]]
    BY DEF L
  <2>. QED
    BY <2>1, <1>5
<1>7. \A i \in 1 .. k : i - 1 \in 0 .. k
  OBVIOUS
<1>. QED
  BY <1>1, <1>2, <1>3, <1>5, <1>6, <1>7 DEF FoldPath

-----------------------------------------------------------------------------
(* read_data goes through the chunks in order.                             *)
LoopStart == [ok |-> TRUE, output |-> << >>, pos |-> 0, sizes |-> sizes]

LEMMA ReadLoopIs ==
  ASSUME NEW E, NEW cs \in Seq(E), NEW o, NEW l
  PROVE  \E L : /\ L[0] = LoopStart
                /\ \A i \in 1 .. Len(cs) : L[i] = read_chunk(L[i - 1], cs[i], o, l)
                /\ read_data(cs, o, l) = L[Len(cs)]
<1>. DEFINE k == Len(cs)
            step(it, s) == IF s = {} THEN LoopStart ELSE read_chunk(it[s \ {Max(s)}], cs[Max(s)], o, l)
            body(it) == [s \in SUBSET DOMAIN cs |->
                           IF s = {} THEN LoopStart ELSE read_chunk(it[s \ {Max(s)}], cs[Max(s)], o, l)]
            iter == CHOOSE it : it = body(it)
<1>1. k \in Nat /\ DOMAIN cs = 1 .. k
  OBVIOUS
<1>2. read_data(cs, o, l) = iter[DOMAIN cs]
  BY DEF read_data, FoldLeft, MapThenFoldSet, LoopStart
<1>3. \E it : it = body(it)
  <2>. DEFINE Unfolds(it, i) == it = [s \in SUBSET (1 .. i) |-> step(it, s)]
              A == {i \in 0 .. k : \E it : Unfolds(it, i)}
  <2>1. 0 \in A
    <3>. DEFINE it == [s \in SUBSET (1 .. 0) |-> LoopStart]
    <3>1. \A s \in SUBSET (1 .. 0) : s = {}
      OBVIOUS
    <3>2. Unfolds(it, 0)
      BY <3>1
    <3>. QED
      BY <1>1, <3>2
  <2>2. ASSUME NEW i \in 1 .. k, i - 1 \in A
        PROVE  i \in A
    <3>1. PICK g : Unfolds(g, i - 1)
      BY <2>2
    <3>. DEFINE it == [s \in SUBSET (1 .. i) |->
                         IF i \in s THEN read_chunk(g[s \ {i}], cs[i], o, l) ELSE g[s]]
    <3>2. \A s \in SUBSET (1 .. i) : i \notin s => s \in SUBSET (1 .. (i - 1))
      BY <1>1
    <3>3. ASSUME NEW s \in SUBSET (1 .. i) PROVE it[s] = step(it, s)
      <4>1. CASE i \in s
        <5>1. Max(s) = i /\ s # {}
          BY <4>1, <1>1, MaxOf
        <5>2. s \ {i} \in SUBSET (1 .. i) /\ i \notin s \ {i}
          OBVIOUS
        <5>3. it[s \ {i}] = g[s \ {i}]
          BY <5>2
        <5>4. it[s] = read_chunk(g[s \ {i}], cs[i], o, l)
          BY <4>1
        <5>. QED
          BY <5>1, <5>3, <5>4
      <4>2. CASE i \notin s
        <5>1. s \in SUBSET (1 .. (i - 1)) /\ s \ {Max(s)} \in SUBSET (1 .. i) /\ i \notin s \ {Max(s)}
          BY <4>2, <3>2
        <5>2. it[s \ {Max(s)}] = g[s \ {Max(s)}]
          BY <5>1
        <5>3. it[s] = g[s]
          BY <4>2
        <5>4. g[s] = step(g, s)
          BY <5>1, <3>1
        <5>. QED
          BY <5>2, <5>3, <5>4
      <4>. QED
        BY <4>1, <4>2
    <3>4. Unfolds(it, i)
      BY <3>3
    <3>. HIDE DEF it
    <3>5. \E h : Unfolds(h, i)
      BY <3>4
    <3>6. i \in 0 .. k
      BY <1>1
    <3>. HIDE DEF Unfolds, k
    <3>. QED
      BY <3>5, <3>6
  <2>. HIDE DEF A
  <2>3. k \in A
    <3>1. \A i \in 1 .. k : i - 1 \in A => i \in A
      BY <2>2
    <3>2. 0 .. k \subseteq A
      BY <1>1, <2>1, <3>1, Induction, Zenon
    <3>. QED
      BY <1>1, <3>2
  <2>. USE DEF A
  <2>. QED
    BY <2>3, <1>1
<1>4. \A s \in SUBSET (1 .. k) : iter[s] = step(iter, s)
  BY <1>1, <1>3
<1>. HIDE DEF iter, body
<1>. DEFINE L == [i \in 0 .. k |-> iter[1 .. i]]
<1>5. L[0] = LoopStart
  <2>1. 1 .. 0 = {} /\ {} \in SUBSET (1 .. k)
    OBVIOUS
  <2>2. iter[{}] = LoopStart
    BY <2>1, <1>4
  <2>. QED
    BY <1>1, <2>1, <2>2
<1>6. ASSUME NEW i \in 1 .. k
      PROVE  L[i] = read_chunk(L[i - 1], cs[i], o, l)
  <2>1. 1 .. i \in SUBSET (1 .. k) /\ i \in 1 .. i /\ 1 .. i # {} /\ (1 .. i) \ {i} = 1 .. (i - 1) /\ i - 1 \in 0 .. k /\ i \in 0 .. k
    BY <1>1
  <2>2. Max(1 .. i) = i
    BY <1>1, <2>1, MaxOf
  <2>. QED
    BY <1>4, <2>1, <2>2
<1>7. read_data(cs, o, l) = L[k]
  BY <1>1, <1>2
<1>. QED
  BY <1>5, <1>6, <1>7

-----------------------------------------------------------------------------
(* FlattenSeq goes through the sequences in order.                         *)
LEMMA FlattenIs ==
  ASSUME NEW ss \in Seq(Seq(Nat))
  PROVE  \E W \in [0 .. Len(ss) -> Seq(Nat)] :
           /\ W[0] = << >>
           /\ \A i \in 1 .. Len(ss) : W[i] = W[i - 1] \o ss[i]
           /\ FlattenSeq(ss) = W[Len(ss)]
<1>. DEFINE k == Len(ss)
            body(f) == [i \in 1 .. Len(ss) |-> IF i = 1 THEN ss[i] ELSE f[i - 1] \o ss[i]]
            flatten == CHOOSE f : f = body(f)
<1>1. k \in Nat /\ \A i \in 1 .. k : ss[i] \in Seq(Nat)
  OBVIOUS
<1>2. CASE k = 0
  <2>1. FlattenSeq(ss) = << >>
    BY <1>2 DEF FlattenSeq
  <2>. DEFINE W == [i \in 0 .. k |-> << >>]
  <2>2. W \in [0 .. k -> Seq(Nat)] /\ W[0] = << >> /\ W[k] = << >> /\ 1 .. k = {}
    BY <1>1, <1>2
  <2>. HIDE DEF W
  <2>. QED
    BY <2>1, <2>2
<1>3. CASE k # 0
  <2>1. FlattenSeq(ss) = flatten[k]
    BY <1>3 DEF FlattenSeq
  <2>. DEFINE Unfolds(f, i) == /\ f \in [0 .. i -> Seq(Nat)] /\ f[0] = << >>
                            /\ \A j \in 1 .. i : f[j] = f[j - 1] \o ss[j]
              A == {i \in 0 .. k : \E f : Unfolds(f, i)}
  <2>2. 0 \in A
    <3>. DEFINE f == [i \in 0 .. 0 |-> << >>]
    <3>1. Unfolds(f, 0)
      OBVIOUS
    <3>. HIDE DEF f
    <3>2. \E h : Unfolds(h, 0)
      BY <3>1
    <3>3. 0 \in 0 .. k
      BY <1>1
    <3>. HIDE DEF Unfolds, k
    <3>. QED
      BY <3>2, <3>3
  <2>3. ASSUME NEW i \in 1 .. k, i - 1 \in A
        PROVE  i \in A
    <3>1. PICK g : Unfolds(g, i - 1)
      BY <2>3
    <3>2. i - 1 \in 0 .. (i - 1) /\ g[i - 1] \in Seq(Nat) /\ ss[i] \in Seq(Nat)
      BY <1>1, <3>1
    <3>. DEFINE next == g[i - 1] \o ss[i]
                f    == [j \in 0 .. i |-> IF j = i THEN next ELSE g[j]]
    <3>7. next \in Seq(Nat)
      BY <3>2
    <3>. HIDE DEF next
    <3>3. f \in [0 .. i -> Seq(Nat)] /\ f[0] = << >>
      <4>1. ASSUME NEW j \in 0 .. i
            PROVE  f[j] \in Seq(Nat)
        <5>1. CASE j = i
          BY <3>7, <5>1
        <5>2. CASE j # i
          <6>1. j \in 0 .. (i - 1)
            BY <5>2
          <6>. QED
            BY <5>2, <6>1, <3>1
        <5>. QED
          BY <5>1, <5>2
      <4>. QED
        BY <4>1, <3>1
    <3>4. ASSUME NEW j \in 1 .. i
          PROVE  f[j] = f[j - 1] \o ss[j]
      <4>1. j - 1 \in 0 .. i /\ j - 1 # i /\ f[j - 1] = g[j - 1]
        BY <1>1
      <4>2. CASE j = i
        <5>1. j \in 0 .. i
          BY <1>1
        <5>2. f[j] = next
          BY <4>2, <5>1
        <5>. HIDE DEF f
        <5>. QED
          BY <4>1, <4>2, <5>2 DEF next
      <4>3. CASE j # i
        <5>1. j \in 1 .. (i - 1) /\ f[j] = g[j]
          BY <1>1, <4>3
        <5>2. g[j] = g[j - 1] \o ss[j]
          BY <3>1, <5>1
        <5>. QED
          BY <4>1, <5>1, <5>2
      <4>. QED
        BY <4>2, <4>3
    <3>. HIDE DEF f
    <3>5. \E h : Unfolds(h, i)
      BY <3>3, <3>4
    <3>6. i \in 0 .. k
      BY <1>1
    <3>. HIDE DEF Unfolds, k
    <3>. QED
      BY <3>5, <3>6
  <2>. HIDE DEF A
  <2>4. k \in A
    <3>1. \A i \in 1 .. k : i - 1 \in A => i \in A
      BY <2>3
    <3>2. 0 .. k \subseteq A
      BY <1>1, <2>2, <3>1, Induction, Zenon
    <3>. QED
      BY <1>1, <3>2
  <2>5. PICK W : Unfolds(W, k)
    BY <2>4 DEF A
  <2>8. W[1] = ss[1]
    <3>1. 1 \in 1 .. k /\ 1 - 1 = 0
      BY <1>1, <1>3
    <3>2. W[1] = W[1 - 1] \o ss[1]
      BY <2>5, <3>1
    <3>3. ss[1] \in Seq(Nat) /\ W[1 - 1] = << >>
      BY <1>1, <2>5, <3>1
    <3>. QED
      BY <3>2, <3>3
  <2>6. \E f : f = body(f)
    <3>. DEFINE f == [i \in 1 .. k |-> W[i]]
    <3>2. ASSUME NEW i \in 1 .. k
          PROVE  f[i] = IF i = 1 THEN ss[i] ELSE f[i - 1] \o ss[i]
      <4>1. f[i] = W[i] /\ (i # 1 => f[i - 1] = W[i - 1])
        BY <1>1
      <4>2. W[i] = W[i - 1] \o ss[i]
        BY <2>5
      <4>. QED
        BY <4>1, <4>2, <2>8
    <3>3. f = body(f)
      BY <3>2
    <3>. HIDE DEF f
    <3>. QED
      BY <3>3
  <2>7. \A i \in 1 .. k : flatten[i] = IF i = 1 THEN ss[i] ELSE flatten[i - 1] \o ss[i]
    BY <2>6
  <2>. HIDE DEF flatten, body
  <2>. DEFINE B == {i \in 0 .. k : i # 0 => flatten[i] = W[i]}
  <2>9. 0 .. k \subseteq B
    <3>1. 0 \in B
      BY <1>1
    <3>2. ASSUME NEW i \in 1 .. k, i - 1 \in B
          PROVE  i \in B
      <4>0. i \in 0 .. k /\ i # 0
        BY <1>1
      <4>1. W[i] = W[i - 1] \o ss[i]
        BY <2>5
      <4>2. i # 1 => flatten[i - 1] = W[i - 1]
        BY <3>2
      <4>3. flatten[i] = W[i]
        BY <4>1, <4>2, <2>7, <2>8
      <4>. QED
        BY <4>0, <4>3
    <3>. HIDE DEF B
    <3>. QED
      BY <1>1, <3>1, <3>2, Induction, Zenon
  <2>10. flatten[k] = W[k]
    <3>1. k \in 0 .. k
      BY <1>1
    <3>. QED
      BY <3>1, <2>9, <1>3
  <2>. QED
    BY <2>1, <2>5, <2>10
<1>. QED
  BY <1>2, <1>3

-----------------------------------------------------------------------------
(* A part of a sequence of bytes.                                          *)
Slice(w, o, l) == SubSeq(w, o + 1, Least(o + l, Len(w)))

LEMMA SliceIs ==
  ASSUME NEW w \in Seq(Nat), NEW o \in Nat, NEW l \in Nat
  PROVE  /\ Slice(w, o, l) \in Seq(Nat)
         /\ Len(Slice(w, o, l)) = IF Len(w) <= o THEN 0 ELSE Least(l, Len(w) - o)
         /\ \A j \in 1 .. Len(Slice(w, o, l)) : Slice(w, o, l)[j] = w[o + j]
<1>. DEFINE m == Least(o + l, Len(w))
<1>1. m \in Nat /\ m <= Len(w) /\ Len(w) \in Nat
  BY DEF Least
<1>2. SubSeq(w, o + 1, m) \in Seq(Nat)
  BY <1>1
<1>3. Len(SubSeq(w, o + 1, m)) = IF o + 1 <= m THEN m - o ELSE 0
  BY <1>1
<1>4. \A j \in 1 .. Len(SubSeq(w, o + 1, m)) : SubSeq(w, o + 1, m)[j] = w[o + j]
  <2>. SUFFICES ASSUME NEW j \in 1 .. Len(SubSeq(w, o + 1, m))
                PROVE  SubSeq(w, o + 1, m)[j] = w[o + j]
    OBVIOUS
  <2>1. j \in Nat /\ 1 <= j /\ j <= m - (o + 1) + 1
    BY <1>1, <1>3
  <2>2. SubSeq(w, o + 1, m)[j] = w[(o + 1) + j - 1]
    BY <1>1, <2>1
  <2>3. (o + 1) + j - 1 = o + j
    BY <2>1
  <2>. QED
    BY <2>2, <2>3
<1>. QED
  BY <1>1, <1>2, <1>3, <1>4 DEF Slice, Least

LEMMA PartIs ==
  ASSUME NEW s \in Seq(Nat), NEW i \in 1 .. Len(s), NEW j \in 1 .. Len(s), i <= j
  PROVE  /\ SubSeq(s, i, j) \in Seq(Nat) /\ Len(SubSeq(s, i, j)) = j - i + 1
         /\ \A h \in 1 .. j - i + 1 : SubSeq(s, i, j)[h] = s[i + h - 1]
  OBVIOUS

LEMMA SameSequences ==
  ASSUME NEW s \in Seq(Nat), NEW t \in Seq(Nat), Len(s) = Len(t),
         \A j \in 1 .. Len(s) : s[j] = t[j]
  PROVE  s = t
  OBVIOUS

LEMMA ConcatIs ==
  ASSUME NEW s \in Seq(Nat), NEW t \in Seq(Nat)
  PROVE  /\ s \o t \in Seq(Nat) /\ Len(s \o t) = Len(s) + Len(t)
         /\ \A j \in 1 .. Len(s) : (s \o t)[j] = s[j]
         /\ \A j \in 1 .. Len(t) : (s \o t)[Len(s) + j] = t[j]
  OBVIOUS

(* A chunk adds to the slice what the slice has of it.                     *)
Grown(w, b, o, l) ==
  LET next  == o + Len(Slice(w, o, l))
      start == next - Len(w)
      n     == Least(l - Len(Slice(w, o, l)), Len(b) - start)
  IN  IF Len(w) + Len(b) > next THEN Slice(w, o, l) \o SubSeq(b, start + 1, start + n)
      ELSE Slice(w, o, l)

LEMMA SliceGrows ==
  ASSUME NEW w \in Seq(Nat), NEW b \in Seq(Nat), NEW o \in Nat, NEW l \in Nat,
         Len(Slice(w, o, l)) < l
  PROVE  Slice(w \o b, o, l) = Grown(w, b, o, l)
<1>. DEFINE s     == Slice(w, o, l)
            t     == Slice(w \o b, o, l)
            next  == o + Len(s)
            start == next - Len(w)
            n     == Least(l - Len(s), Len(b) - start)
            more  == SubSeq(b, start + 1, start + n)
<1>1. /\ s \in Seq(Nat)
      /\ Len(s) = IF Len(w) <= o THEN 0 ELSE Least(l, Len(w) - o)
      /\ \A j \in 1 .. Len(s) : s[j] = w[o + j]
  BY SliceIs
<1>2. /\ w \o b \in Seq(Nat) /\ Len(w \o b) = Len(w) + Len(b)
      /\ \A j \in 1 .. Len(w) : (w \o b)[j] = w[j]
      /\ \A j \in 1 .. Len(b) : (w \o b)[Len(w) + j] = b[j]
  BY ConcatIs
<1>3. /\ t \in Seq(Nat)
      /\ Len(t) = IF Len(w \o b) <= o THEN 0 ELSE Least(l, Len(w \o b) - o)
      /\ \A j \in 1 .. Len(t) : t[j] = (w \o b)[o + j]
  BY <1>2, SliceIs
<1>. HIDE DEF s, t
<1>4. Len(w) \in Nat /\ Len(b) \in Nat /\ Len(s) \in Nat /\ Len(t) \in Nat
  BY <1>1, <1>3
<1>5. Len(s) < l
  BY DEF s
<1>6. Len(s) = IF Len(w) <= o THEN 0 ELSE Len(w) - o
  BY <1>1, <1>4, <1>5 DEF Least
<1>7. Len(t) = IF Len(w) + Len(b) <= o THEN 0 ELSE Least(l, Len(w) + Len(b) - o)
  BY <1>2, <1>3
<1>8. CASE Len(w) + Len(b) > next
  <2>1. start \in Nat /\ start < Len(b) /\ n \in 1 .. (Len(b) - start) /\ n <= l - Len(s)
    <3>1. start = IF Len(w) <= o THEN o - Len(w) ELSE 0
      BY <1>4, <1>6
    <3>2. start \in Nat /\ start < Len(b)
      BY <1>4, <1>6, <1>8, <3>1
    <3>3. l - Len(s) \in Nat \ {0} /\ Len(b) - start \in Nat \ {0}
      <4>. HIDE DEF start
      <4>. QED
        BY <1>4, <1>5, <3>2
    <3>. HIDE DEF start
    <3>. QED
      BY <3>2, <3>3 DEF Least
  <2>2. more \in Seq(Nat) /\ Len(more) = n /\ \A j \in 1 .. n : more[j] = b[start + j]
    <3>. HIDE DEF start, n
    <3>1. start + 1 \in 1 .. Len(b) /\ start + n \in 1 .. Len(b) /\ start + 1 <= start + n
      BY <1>4, <2>1
    <3>2. Len(more) = (start + n) - (start + 1) + 1 /\ (start + n) - (start + 1) + 1 = n
      BY <2>1, <3>1, PartIs
    <3>3. more \in Seq(Nat)
      BY <3>1, PartIs
    <3>4. \A j \in 1 .. n : more[j] = b[start + 1 + j - 1]
      BY <2>1, <3>1, <3>2, PartIs
    <3>5. \A j \in 1 .. n : start + 1 + j - 1 = start + j
      BY <1>4, <2>1
    <3>. QED
      BY <3>2, <3>3, <3>4, <3>5
  <2>3. /\ s \o more \in Seq(Nat) /\ Len(s \o more) = Len(s) + n
        /\ \A j \in 1 .. Len(s) : (s \o more)[j] = s[j]
        /\ \A j \in 1 .. n : (s \o more)[Len(s) + j] = more[j]
    <3>. HIDE DEF more, n
    <3>. QED
      BY <1>1, <2>2, ConcatIs
  <2>4. Len(t) = Len(s) + n
    <3>1. CASE Len(w) <= o
      <4>1. Len(s) = 0 /\ start = o - Len(w) /\ Len(w) + Len(b) > o
        BY <1>4, <1>6, <1>8, <3>1
      <4>2. Len(t) = Least(l, Len(w) + Len(b) - o)
        BY <1>4, <1>7, <4>1
      <4>3. n = Least(l, Len(b) - (o - Len(w)))
        BY <4>1
      <4>. HIDE DEF n
      <4>. QED
        BY <1>4, <4>1, <4>2, <4>3 DEF Least
    <3>2. CASE Len(w) > o
      <4>1. Len(s) = Len(w) - o /\ start = 0
        BY <1>4, <1>6, <3>2
      <4>2. Len(t) = Least(l, Len(w) + Len(b) - o)
        BY <1>4, <1>7, <3>2
      <4>3. n = Least(l - (Len(w) - o), Len(b))
        BY <1>4, <4>1
      <4>. HIDE DEF n
      <4>. QED
        BY <1>4, <4>1, <4>2, <4>3 DEF Least
    <3>. QED
      BY <1>4, <3>1, <3>2
  <2>5. \A j \in 1 .. Len(s) : t[j] = s[j]
    <3>1. \A j \in 1 .. Len(s) : o + j \in 1 .. Len(w) /\ j \in 1 .. Len(t)
      <4>. HIDE DEF n
      <4>. QED
        BY <1>4, <1>6, <2>1, <2>4
    <3>. QED
      BY <1>1, <1>2, <1>3, <3>1
  <2>6. \A j \in 1 .. n : t[Len(s) + j] = b[start + j]
    <3>1. ASSUME NEW j \in 1 .. n
          PROVE  /\ Len(s) + j \in 1 .. Len(t) /\ start + j \in 1 .. Len(b)
                 /\ o + (Len(s) + j) = Len(w) + (start + j)
      <4>1. Len(s) + j \in 1 .. Len(t) /\ start + j \in 1 .. Len(b)
        <5>. HIDE DEF n, start
        <5>. QED
          BY <1>4, <2>1, <2>4
      <4>2. o + (Len(s) + j) = Len(w) + (start + j)
        <5>. HIDE DEF n
        <5>. QED
          BY <1>4, <2>1
      <4>. QED
        BY <4>1, <4>2
    <3>. HIDE DEF start, n
    <3>. QED
      BY <1>2, <1>3, <3>1
  <2>7. \A j \in 1 .. Len(t) : t[j] = (s \o more)[j]
    <3>1. ASSUME NEW j \in 1 .. Len(t), j > Len(s)
          PROVE  j - Len(s) \in 1 .. n /\ j = Len(s) + (j - Len(s))
      BY <1>4, <2>1, <2>4, <3>1
    <3>2. ASSUME NEW j \in 1 .. Len(t), j <= Len(s)
          PROVE  j \in 1 .. Len(s)
      BY <1>4, <3>2
    <3>. HIDE DEF n, start, more
    <3>3. ASSUME NEW j \in 1 .. Len(t), j > Len(s)
          PROVE  t[j] = (s \o more)[j]
      <4>1. PICK i \in 1 .. n : j = Len(s) + i
        BY <3>1, <3>3
      <4>. QED
        BY <4>1, <2>2, <2>3, <2>6
    <3>4. ASSUME NEW j \in 1 .. Len(t), j <= Len(s)
          PROVE  t[j] = (s \o more)[j]
      BY <3>2, <3>4, <2>3, <2>5
    <3>5. \A j \in 1 .. Len(t) : j > Len(s) \/ j <= Len(s)
      BY <1>4
    <3>. QED
      BY <3>3, <3>4, <3>5
  <2>8. t = s \o more
    <3>. HIDE DEF more
    <3>. QED
      BY <1>3, <2>3, <2>4, <2>7, SameSequences
  <2>. QED
    BY <1>8, <2>8 DEF s, t, Grown
<1>9. CASE ~(Len(w) + Len(b) > next)
  <2>1. Len(t) = Len(s)
    <3>1. CASE Len(w) <= o
      <4>1. Len(s) = 0 /\ Len(w) + Len(b) <= o
        BY <1>4, <1>6, <1>9, <3>1
      <4>. QED
        BY <1>7, <4>1
    <3>2. CASE ~(Len(w) <= o)
      <4>1. Len(s) = Len(w) - o /\ Len(b) = 0
        BY <1>4, <1>6, <1>9, <3>2
      <4>2. Len(t) = Least(l, Len(w) - o)
        BY <1>4, <1>7, <3>2, <4>1
      <4>. QED
        BY <1>4, <1>5, <4>1, <4>2 DEF Least
    <3>. QED
      BY <3>1, <3>2
  <2>2. \A j \in 1 .. Len(s) : o + j \in 1 .. Len(w)
    BY <1>4, <1>6
  <2>3. \A j \in 1 .. Len(s) : t[j] = s[j]
    BY <1>1, <1>2, <1>3, <2>1, <2>2
  <2>4. t = s
    BY <1>1, <1>3, <2>1, <2>3, SameSequences
  <2>. QED
    BY <1>9, <2>4 DEF s, t, Grown
<1>. QED
  BY <1>8, <1>9

(* A slice that has all it should stays.                                   *)
LEMMA SliceStays ==
  ASSUME NEW w \in Seq(Nat), NEW b \in Seq(Nat), NEW o \in Nat, NEW l \in Nat \ {0},
         Len(Slice(w, o, l)) = l
  PROVE  Slice(w \o b, o, l) = Slice(w, o, l)
<1>. DEFINE s == Slice(w, o, l)
            t == Slice(w \o b, o, l)
<1>1. /\ s \in Seq(Nat)
      /\ Len(s) = IF Len(w) <= o THEN 0 ELSE Least(l, Len(w) - o)
      /\ \A j \in 1 .. Len(s) : s[j] = w[o + j]
  BY SliceIs
<1>2. /\ w \o b \in Seq(Nat) /\ Len(w \o b) = Len(w) + Len(b)
      /\ \A j \in 1 .. Len(w) : (w \o b)[j] = w[j]
  BY ConcatIs
<1>3. /\ t \in Seq(Nat)
      /\ Len(t) = IF Len(w \o b) <= o THEN 0 ELSE Least(l, Len(w \o b) - o)
      /\ \A j \in 1 .. Len(t) : t[j] = (w \o b)[o + j]
  BY <1>2, SliceIs
<1>4. Len(s) = l /\ Len(w) \in Nat /\ Len(b) \in Nat
  OBVIOUS
<1>. HIDE DEF s, t
<1>5. o + l <= Len(w)
  BY <1>1, <1>4 DEF Least
<1>6. Len(t) = l
  <2>1. Len(w \o b) - o \in Nat /\ l <= Len(w \o b) - o /\ ~(Len(w \o b) <= o)
    BY <1>2, <1>4, <1>5
  <2>2. Len(t) = Least(l, Len(w \o b) - o)
    BY <1>3, <2>1
  <2>3. \A x \in Nat : l <= x => Least(l, x) = l
    BY DEF Least
  <2>. QED
    BY <2>1, <2>2, <2>3
<1>7. \A j \in 1 .. l : o + j \in 1 .. Len(w)
  BY <1>4, <1>5
<1>8. \A j \in 1 .. l : t[j] = s[j]
  BY <1>1, <1>2, <1>3, <1>4, <1>6, <1>7
<1>. QED
  BY <1>1, <1>3, <1>4, <1>6, <1>8, SameSequences DEF s, t

-----------------------------------------------------------------------------
(* The loop: what has been read is a slice of what has been passed, and as *)
(* long as there is something left to read, chunk_pos_in_file is where the *)
(* next chunk begins.  It fails only on a chunk that is not there.         *)
Loops == [ok : BOOLEAN, output : Seq(Nat), pos : Nat, sizes : SUBSET DOMAIN BytesOf]

LoopFits(loop, w, o, l, cs) ==
  /\ loop \in Loops
  /\ ~loop.ok => \E j \in DOMAIN cs : cs[j] \in Removed
  /\ loop.ok => /\ loop.output = Slice(w, o, l)
                /\ Len(loop.output) <= l
                /\ Len(loop.output) < l => loop.pos = Len(w)

LEMMA ChunkIsRead ==
  ASSUME FuseAssumption, NEW cs \in Seq(DOMAIN BytesOf), NEW i \in 1 .. Len(cs),
         NEW o \in Nat, NEW l \in Nat \ {0}, NEW w \in Seq(Nat), NEW loop, LoopFits(loop, w, o, l, cs)
  PROVE  LoopFits(read_chunk(loop, cs[i], o, l), w \o BytesOf[cs[i]], o, l, cs)
<1>. DEFINE c == cs[i]
            b == BytesOf[c]
            new == read_chunk(loop, c, o, l)
            next  == o + Len(loop.output)
            start == next - loop.pos
            n     == Least(l - Len(loop.output), Size(c) - start)
            here  == loop.pos + Size(c) > next
<1>1. c \in DOMAIN BytesOf /\ b \in Seq(Nat) /\ i \in DOMAIN cs /\ Size(c) = Len(b)
  BY FuseAssumption DEF Size
<1>2. loop \in Loops /\ new = read_chunk(loop, c, o, l)
  BY DEF LoopFits
<1>3. CASE ~loop.ok
  <2>1. new = loop
    BY <1>3 DEF read_chunk
  <2>. HIDE DEF new
  <2>. QED
    BY <1>2, <1>3, <2>1 DEF LoopFits
<1>4. CASE loop.ok /\ Len(loop.output) = l
  <2>1. new = loop
    BY <1>4 DEF read_chunk
  <2>2. loop.output = Slice(w, o, l) /\ Len(Slice(w, o, l)) = l
    BY <1>4 DEF LoopFits
  <2>3. Slice(w \o b, o, l) = Slice(w, o, l)
    BY <1>1, <2>2, SliceStays
  <2>. HIDE DEF new, c, b
  <2>4. LoopFits(new, w \o b, o, l, cs)
    BY <1>2, <1>4, <2>1, <2>2, <2>3 DEF LoopFits
  <2>. QED
    BY <2>4 DEF new, c, b
<1>5. CASE loop.ok /\ Len(loop.output) # l /\ c \in Removed /\ (here \/ c \notin loop.sizes)
  <2>1. new = [loop EXCEPT !.ok = FALSE]
    BY <1>5 DEF read_chunk
  <2>2. ~new.ok /\ new \in Loops
    BY <1>2, <2>1 DEF Loops
  <2>. HIDE DEF new
  <2>3. \E j \in DOMAIN cs : cs[j] \in Removed
    BY <1>1, <1>5
  <2>4. LoopFits(new, w \o b, o, l, cs)
    BY <2>2, <2>3 DEF LoopFits
  <2>. QED
    BY <2>4 DEF new
<1>6. CASE loop.ok /\ Len(loop.output) # l /\ ~(c \in Removed /\ (here \/ c \notin loop.sizes))
  <2>1. new = [ok     |-> TRUE,
               output |-> IF here THEN loop.output \o SubSeq(BytesOf[c], start + 1, start + n)
                          ELSE loop.output,
               pos    |-> loop.pos + Size(c),
               sizes  |-> loop.sizes \cup {c}]
    BY <1>6 DEF read_chunk
  <2>2. loop.output = Slice(w, o, l) /\ Len(loop.output) < l /\ loop.pos = Len(w)
    <3>1. loop.output = Slice(w, o, l) /\ Len(loop.output) <= l /\ Len(loop.output) \in Nat
      BY <1>2, <1>6 DEF LoopFits, Loops
    <3>. QED
      BY <1>6, <3>1 DEF LoopFits
  <2>3. new.output = Slice(w \o b, o, l)
    <3>1. Len(Slice(w, o, l)) < l
      BY <2>2
    <3>. DEFINE s  == Slice(w, o, l)
                nx == o + Len(s)
                st == nx - Len(w)
                m  == Least(l - Len(s), Len(b) - st)
    <3>2. next = nx /\ start = st /\ n = m /\ (here <=> Len(w) + Len(b) > nx)
      BY <1>1, <2>2
    <3>3. Slice(w \o b, o, l) = IF Len(w) + Len(b) > nx THEN s \o SubSeq(b, st + 1, st + m) ELSE s
      <4>. HIDE DEF b, s, nx, st, m
      <4>1. l \in Nat
        OBVIOUS
      <4>2. Slice(w \o b, o, l) = Grown(w, b, o, l)
        BY <1>1, <3>1, <4>1, SliceGrows, Zenon
      <4>. QED
        BY <4>2, Zenon DEF Grown, s, nx, st, m
    <3>4. new.output = IF here THEN loop.output \o SubSeq(b, start + 1, start + n)
                       ELSE loop.output
      BY <2>1
    <3>5. loop.output = s
      BY <2>2
    <3>. HIDE DEF new, here, start, n, next, b, s, nx, st, m
    <3>. QED
      BY <3>2, <3>3, <3>4, <3>5
  <2>4. new.pos = Len(w \o b) /\ w \o b \in Seq(Nat) /\ new.pos \in Nat
    BY <1>1, <2>1, <2>2, ConcatIs
  <2>5. new.ok /\ new.ok \in BOOLEAN /\ new.sizes \in SUBSET DOMAIN BytesOf
    BY <1>1, <1>2, <2>1 DEF Loops
  <2>6. new = [ok |-> new.ok, output |-> new.output, pos |-> new.pos, sizes |-> new.sizes]
    BY <2>1
  <2>. HIDE DEF new, b, c
  <2>7. Len(new.output) <= l /\ new.output \in Seq(Nat)
    <3>1. Len(Slice(w \o b, o, l)) \in {0, Least(l, Len(w \o b) - o)}
          /\ Slice(w \o b, o, l) \in Seq(Nat)
      BY <2>4, SliceIs
    <3>2. Least(l, Len(w \o b) - o) <= l
      BY <2>4 DEF Least
    <3>. QED
      BY <2>3, <3>1, <3>2
  <2>8. new \in Loops
    BY <2>4, <2>5, <2>6, <2>7 DEF Loops
  <2>9. LoopFits(new, w \o b, o, l, cs)
    BY <2>3, <2>4, <2>5, <2>7, <2>8 DEF LoopFits
  <2>. QED
    BY <2>9 DEF new, b, c
<1>. QED
  BY <1>2, <1>3, <1>4, <1>5, <1>6 DEF Loops

LEMMA LoopReads ==
  ASSUME FuseAssumption, NEW cs \in Seq(DOMAIN BytesOf), sizes \subseteq DOMAIN BytesOf,
         NEW o \in Nat, NEW l \in Nat \ {0}
  PROVE  LET loop  == read_data(cs, o, l)
             whole == FlattenSeq([i \in DOMAIN cs |-> BytesOf[cs[i]]])
         IN  whole \in Seq(Nat) /\ LoopFits(loop, whole, o, l, cs)
<1>. DEFINE k  == Len(cs)
            ss == [i \in DOMAIN cs |-> BytesOf[cs[i]]]
<1>1. k \in Nat /\ DOMAIN cs = 1 .. k /\ \A i \in 1 .. k : cs[i] \in DOMAIN BytesOf
  OBVIOUS
<1>2. ss \in Seq(Seq(Nat)) /\ Len(ss) = k /\ \A i \in 1 .. k : ss[i] = BytesOf[cs[i]]
  BY <1>1, FuseAssumption
<1>. HIDE DEF ss
<1>3. PICK W \in [0 .. k -> Seq(Nat)] :
        /\ W[0] = << >>
        /\ \A i \in 1 .. k : W[i] = W[i - 1] \o ss[i]
        /\ FlattenSeq(ss) = W[k]
  BY <1>2, FlattenIs
<1>4. PICK L : /\ L[0] = LoopStart
               /\ \A i \in 1 .. k : L[i] = read_chunk(L[i - 1], cs[i], o, l)
               /\ read_data(cs, o, l) = L[k]
  BY ReadLoopIs
<1>. DEFINE A == {i \in 0 .. k : LoopFits(L[i], W[i], o, l, cs)}
<1>5. 0 \in A
  <2>1. Slice(<< >>, o, l) = << >>
    <3>. DEFINE none == << >>
    <3>1. none \in Seq(Nat) /\ Len(none) = 0
      OBVIOUS
    <3>2. Slice(none, o, l) \in Seq(Nat)
          /\ Len(Slice(none, o, l)) = IF Len(none) <= o THEN 0 ELSE Least(l, Len(none) - o)
      BY <3>1, SliceIs, Zenon
    <3>3. Len(Slice(none, o, l)) = 0
      BY <3>1, <3>2
    <3>4. \A x \in Seq(Nat) : Len(x) = 0 => x = << >>
      OBVIOUS
    <3>. QED
      BY <3>2, <3>3, <3>4
  <2>2. LoopFits(LoopStart, << >>, o, l, cs)
    BY <2>1 DEF LoopFits, LoopStart, Loops
  <2>. QED
    BY <1>1, <1>3, <1>4, <2>2
<1>6. ASSUME NEW i \in 1 .. k, i - 1 \in A
      PROVE  i \in A
  <2>1. i - 1 \in 0 .. k /\ i \in 0 .. k /\ LoopFits(L[i - 1], W[i - 1], o, l, cs) /\ W[i - 1] \in Seq(Nat)
    <3>1. LoopFits(L[i - 1], W[i - 1], o, l, cs)
      BY <1>6
    <3>2. i - 1 \in 0 .. k /\ i \in 0 .. k
      BY <1>1
    <3>3. W[i - 1] \in Seq(Nat)
      BY <1>3, <3>2, Zenon
    <3>. QED
      BY <3>1, <3>2, <3>3, Zenon
  <2>2. LoopFits(read_chunk(L[i - 1], cs[i], o, l), W[i - 1] \o BytesOf[cs[i]], o, l, cs)
    BY <2>1, ChunkIsRead
  <2>. QED
    BY <1>2, <1>3, <1>4, <2>1, <2>2
<1>. HIDE DEF A
<1>7. 0 .. k \subseteq A
  BY <1>1, <1>5, <1>6, Induction, Zenon
<1>8. k \in 0 .. k
  BY <1>1
<1>. QED
  BY <1>3, <1>4, <1>7, <1>8 DEF A, ss

-----------------------------------------------------------------------------
(* The mount: an open file is of a generation that the opened repository   *)
(* lists, as long as the generation is there, and has its size.            *)
Generations6 == [checkpoint : BOOLEAN, file : FileShapes, there : BOOLEAN]

HandleFits ==
  handle # Unopened =>
    /\ handle.number \in DOMAIN gens6 /\ handle.size = gens6[handle.number].file.size
    /\ gens6[handle.number].there => handle.number \in opened

MountInv ==
  /\ gens6 \in Seq(Generations6) /\ Len(gens6) <= MaxGens
  /\ opened \subseteq DOMAIN gens6 /\ rootlist \subseteq opened
  /\ sizes \subseteq DOMAIN BytesOf
  /\ handle \in [number : Nat, size : Nat] /\ HandleFits
  /\ mount \in {"no", "yes", "failed"}

LEMMA BackupMounted ==
  ASSUME FuseAssumption, MountInv, NEW file \in FileShapes, NEW checkpoint \in BOOLEAN,
         backup(checkpoint, file)
  PROVE  MountInv'
<1>. DEFINE new == [checkpoint |-> checkpoint, file |-> file, there |-> TRUE]
<1>1. gens6' = Append(gens6, new) /\ new \in Generations6 /\ Len(gens6) < MaxGens
  BY DEF backup, Generations6
<1>. HIDE DEF new
<1>2. /\ gens6' \in Seq(Generations6) /\ Len(gens6') = Len(gens6) + 1
      /\ DOMAIN gens6 \subseteq DOMAIN gens6' /\ \A n \in DOMAIN gens6 : gens6'[n] = gens6[n]
  BY <1>1 DEF MountInv
<1>3. Len(gens6') <= MaxGens
  BY <1>1, <1>2, FuseAssumption DEF MountInv
<1>4. UNCHANGED <<opened, rootlist, sizes, handle, mount>>
  BY DEF backup
<1>. QED
  BY <1>2, <1>3, <1>4 DEF MountInv, HandleFits

LEMMA ForgetMounted ==
  ASSUME MountInv, NEW n \in DOMAIN gens6, forget_generation(n)
  PROVE  MountInv'
<1>1. gens6' = [gens6 EXCEPT ![n].there = FALSE]
  BY DEF forget_generation
<1>2. /\ gens6' \in Seq(Generations6) /\ Len(gens6') = Len(gens6)
      /\ DOMAIN gens6' = DOMAIN gens6
      /\ \A m \in DOMAIN gens6 : /\ gens6'[m].file = gens6[m].file
                                 /\ gens6'[m].there => gens6[m].there
  <2>. DEFINE new == [gens6[n] EXCEPT !.there = FALSE]
  <2>1. gens6[n] \in Generations6
    BY DEF MountInv
  <2>2. new \in Generations6 /\ new.file = gens6[n].file /\ ~new.there
    BY <2>1 DEF Generations6
  <2>3. gens6' = [gens6 EXCEPT ![n] = new]
    BY <1>1
  <2>. HIDE DEF new
  <2>. QED
    BY <2>2, <2>3 DEF MountInv
<1>3. UNCHANGED <<opened, rootlist, sizes, handle, mount>>
  BY DEF forget_generation
<1>. QED
  BY <1>2, <1>3 DEF MountInv, HandleFits

LEMMA OpenMounted ==
  ASSUME FuseAssumption, MountInv, NEW n \in DOMAIN gens6, open(n)
  PROVE  MountInv'
<1>1. /\ handle' = [number |-> n, size |-> gens6[n].file.size]
      /\ n \in opened /\ n \in Nat /\ gens6[n].file \in FileShapes
  <2>1. handle' = [number |-> n, size |-> gens6[n].file.size] /\ n \in rootlist
    BY DEF open
  <2>2. gens6[n] \in Generations6 /\ n \in Nat
    BY DEF MountInv
  <2>. QED
    BY <2>1, <2>2 DEF MountInv, Generations6
<1>2. handle' \in [number : Nat, size : Nat]
  BY <1>1, FuseAssumption
<1>. QED
  BY <1>1, <1>2 DEF MountInv, HandleFits, open

LEMMA ReopenMounted ==
  ASSUME MountInv, start_mount \/ root_refresh
  PROVE  MountInv'
<1>1. opened' = There /\ rootlist' = Shown /\ UNCHANGED <<gens6, sizes, handle>>
      /\ mount' \in {"no", "yes", "failed"}
  BY DEF start_mount, root_refresh, MountInv
<1>. QED
  BY <1>1 DEF MountInv, HandleFits, There, Shown

LEMMA ReleaseMounted ==
  ASSUME MountInv, release
  PROVE  MountInv'
  BY DEF MountInv, HandleFits, release, Unopened

(* A read answers rightly.                                                 *)
LEMMA ReadAnswers ==
  ASSUME FuseAssumption, MountInv, NEW o \in 0 .. MaxRead, NEW l \in 0 .. MaxRead, read(o, l)
  PROVE  MountInv' /\ ReadIsSlice'
<1>. DEFINE n     == handle.number
            cs    == gens6[n].file.chunks
            size  == gens6[n].file.size
            loop  == read_data(cs, o, l)
            whole == Whole(n)
<1>1. /\ o \in Nat /\ l \in Nat /\ UNCHANGED <<gens6, opened, rootlist, handle, mount>>
      /\ n \in DOMAIN gens6 /\ n \in Nat \ {0} /\ handle.size = size
      /\ gens6[n].there => n \in opened
      /\ gens6[n].there \in BOOLEAN
      /\ cs \in Seq(DOMAIN BytesOf) /\ size \in Nat
  <2>1. n \in DOMAIN gens6 /\ handle.size = size /\ (gens6[n].there => n \in opened)
    BY DEF read, MountInv, HandleFits
  <2>2. gens6[n] \in Generations6 /\ n \in Nat \ {0}
    BY <2>1 DEF MountInv
  <2>. QED
    BY <2>1, <2>2, FuseAssumption DEF read, Generations6
<1>2. ASSUME l # 0
      PROVE  /\ whole \in Seq(Nat) /\ loop.sizes \subseteq DOMAIN BytesOf
             /\ loop.ok => loop.output = Slice(whole, o, l)
             /\ ~loop.ok => ~gens6[n].there
  <2>1. whole = FlattenSeq([i \in DOMAIN cs |-> BytesOf[cs[i]]])
    BY DEF Whole
  <2>2. whole \in Seq(Nat) /\ LoopFits(loop, whole, o, l, cs)
    <3>. HIDE DEF cs, whole, loop
    <3>1. sizes \subseteq DOMAIN BytesOf /\ l \in Nat \ {0}
      BY <1>1, <1>2 DEF MountInv
    <3>. QED
      BY <1>1, <2>1, <3>1, LoopReads DEF loop
  <2>3. (\E j \in DOMAIN cs : cs[j] \in Removed) => ~gens6[n].there
    <3>1. ASSUME NEW j \in DOMAIN cs, cs[j] \in Removed, gens6[n].there
          PROVE  FALSE
      <4>1. n \in There /\ cs[j] \in ToSet(gens6[n].file.chunks)
        BY <1>1, <3>1 DEF There, ToSet
      <4>2. cs[j] \in ChunksIn(There)
        BY <4>1 DEF ChunksIn
      <4>. QED
        BY <3>1, <4>2 DEF Removed
    <3>. QED
      BY <3>1
  <2>. QED
    BY <2>2, <2>3 DEF LoopFits, Loops
<1>3. whole \in Seq(Nat) /\ (reply'.number = n => Whole(reply.number)' = whole)
  <2>1. sizes \subseteq DOMAIN BytesOf /\ 0 \in Nat /\ 1 \in Nat \ {0}
    BY DEF MountInv
  <2>. HIDE DEF cs
  <2>2. FlattenSeq([i \in DOMAIN cs |-> BytesOf[cs[i]]]) \in Seq(Nat)
    BY <1>1, <2>1, LoopReads
  <2>. QED
    BY <1>1, <2>2 DEF Whole, cs
<1>. DEFINE answer(ok, data) ==
              [number |-> n, offset |-> o, length |-> l, ok |-> ok, data |-> data]
<1>4. CASE l = 0 \/ o >= size
  <2>1. reply' = answer(TRUE, << >>) /\ sizes' = sizes
    BY <1>1, <1>4 DEF read, Replies
  <2>2. MountInv'
    BY <1>1, <2>1 DEF MountInv, HandleFits
  <2>. HIDE DEF whole
  <2>3. o < size => Slice(whole, o, l) = << >>
    <3>1. SUFFICES ASSUME l = 0 PROVE Slice(whole, o, l) = << >>
      BY <1>1, <1>4
    <3>2. Slice(whole, o, l) \in Seq(Nat) /\ Len(Slice(whole, o, l)) = 0
      BY <1>3, <1>1, <3>1, SliceIs DEF Least
    <3>3. \A x \in Seq(Nat) : Len(x) = 0 => x = << >>
      OBVIOUS
    <3>. QED
      BY <3>2, <3>3
  <2>4. reply'.number = n /\ reply'.offset = o /\ reply'.length = l
        /\ reply'.ok = TRUE /\ reply'.data = << >>
    BY <2>1
  <2>5. gens6'[n].file.size = size /\ (~(o >= size) => o < size)
    BY <1>1
  <2>. HIDE DEF size, n
  <2>6. ReadIsSlice'
    BY <1>3, <2>3, <2>4, <2>5 DEF ReadIsSlice, Slice
  <2>. QED
    BY <2>2, <2>6
<1>5. CASE l # 0 /\ o < size
  <2>1. \/ n \in opened /\ reply' = answer(loop.ok, IF loop.ok THEN loop.output ELSE << >>)
           /\ sizes' = loop.sizes
        \/ n \notin opened \cap There /\ reply' = answer(FALSE, << >>) /\ sizes' = sizes
    BY <1>1, <1>5 DEF read, Replies
  <2>2. MountInv'
    <3>1. sizes' \subseteq DOMAIN BytesOf
      BY <1>2, <1>5, <2>1 DEF MountInv
    <3>. QED
      BY <1>1, <3>1 DEF MountInv, HandleFits
  <2>3. ASSUME reply' = answer(loop.ok, IF loop.ok THEN loop.output ELSE << >>)
        PROVE  ReadIsSlice'
    <3>1. reply'.number = n /\ reply'.offset = o /\ reply'.length = l /\ reply'.ok = loop.ok
          /\ reply'.data = IF loop.ok THEN loop.output ELSE << >>
      BY <2>3
    <3>2. gens6' = gens6 /\ ~(o >= size) /\ size = gens6[n].file.size
      BY <1>1, <1>5
    <3>3. (loop.ok => loop.output = Slice(whole, o, l)) /\ (~loop.ok => ~gens6[n].there)
      BY <1>2, <1>5
    <3>. HIDE DEF loop, whole, n, size
    <3>. QED
      BY <1>3, <3>1, <3>2, <3>3 DEF ReadIsSlice, Slice
  <2>4. ASSUME n \notin opened \cap There, reply' = answer(FALSE, << >>)
        PROVE  ReadIsSlice'
    <3>1. ~gens6[n].there
      BY <1>1, <2>4 DEF There
    <3>. QED
      BY <1>1, <2>4, <3>1 DEF ReadIsSlice
  <2>. QED
    BY <2>1, <2>2, <2>3, <2>4
<1>. QED
  BY <1>1, <1>4, <1>5

(* What a mount has open is what the repository has, and every answer is   *)
(* the right part of the file.                                             *)
THEOREM Mounting == FuseSpec => [](MountInv /\ ReadIsSlice)
<1>1. FuseInit => MountInv /\ ReadIsSlice
  <2>1. << >> \in Seq(Generations6) /\ Len(<< >>) = 0 /\ DOMAIN << >> = {}
    OBVIOUS
  <2>. QED
    BY <2>1, FuseAssumption DEF FuseInit, MountInv, HandleFits, Unopened, ReadIsSlice, NoReply
<1>2. MountInv /\ ReadIsSlice /\ [FuseNext]_fuseVars => MountInv' /\ ReadIsSlice'
  <2>. SUFFICES ASSUME MountInv, ReadIsSlice, [FuseNext]_fuseVars
                PROVE  MountInv' /\ ReadIsSlice'
    OBVIOUS
  <2>1. CASE UNCHANGED fuseVars
    BY <2>1 DEF fuseVars, MountInv, HandleFits, ReadIsSlice, Whole
  <2>2. ASSUME reply' = NoReply
        PROVE  ReadIsSlice'
    BY <2>2 DEF ReadIsSlice, NoReply
  <2>3. CASE /\ reply' = NoReply
             /\ \/ start_mount \/ root_refresh \/ release
                \/ \E file \in FileShapes, checkpoint \in BOOLEAN : backup(checkpoint, file)
                \/ \E n \in DOMAIN gens6 : forget_generation(n) \/ open(n)
    <3>1. MountInv'
      BY <2>3, FuseAssumption, ReopenMounted, ReleaseMounted, BackupMounted, ForgetMounted,
         OpenMounted
    <3>. QED
      BY <2>2, <2>3, <3>1
  <2>4. CASE \E o, l \in 0 .. MaxRead : read(o, l)
    BY <2>4, FuseAssumption, ReadAnswers
  <2>. QED
    BY <2>1, <2>3, <2>4 DEF FuseNext
<1>. QED
  BY <1>1, <1>2, PTL DEF FuseSpec

(* Whatever the sizes of the chunks, whatever was read before and whatever *)
(* backups, forgets and refreshes happen meanwhile, a read of an open file *)
(* answers with that part of the file, and fails only once the generation  *)
(* has been forgotten.                                                     *)
THEOREM ReadingIsSlicing == FuseSpec => []ReadIsSlice
  BY Mounting, PTL

-----------------------------------------------------------------------------
Gens == [id : Nat, time : Times]

PlacesIn(s) == {s[i] : i \in DOMAIN s}

(* A fold over the generations that puts them into lists.                  *)
LEMMA LastEachGoes ==
  ASSUME NEW p, NEW s \in Seq(Gens)
  PROVE  \E L \in [0 .. Len(s) -> Seq(Gens)] :
           /\ L[0] = << >> /\ last_in_each_period(p, s) = L[Len(s)]
           /\ \A i \in 1 .. Len(s) :
                L[i] = IF L[i - 1] # << >>
                          /\ PeriodOf[p][Last(L[i - 1]).time] = PeriodOf[p][s[i].time]
                       THEN Append(Front(L[i - 1]), s[i])
                       ELSE Append(L[i - 1], s[i])
<1>. DEFINE k == Len(s)
            put(m, g) == IF m # << >> /\ PeriodOf[p][Last(m).time] = PeriodOf[p][g.time]
                           THEN Append(Front(m), g)
                           ELSE Append(m, g)
            body(it) == [t \in SUBSET DOMAIN s |->
                           IF t = {} THEN << >> ELSE put(it[t \ {Max(t)}], s[Max(t)])]
            iter == CHOOSE it : it = body(it)
            G == [i \in 1 .. k |-> [m \in Seq(Gens) |-> put(m, s[i])]]
<1>1. k \in Nat /\ DOMAIN s = 1 .. k /\ << >> \in Seq(Gens) /\ \A i \in 1 .. k : s[i] \in Gens
  OBVIOUS
<1>2. last_in_each_period(p, s) = iter[DOMAIN s]
  BY DEF last_in_each_period, FoldLeft, MapThenFoldSet
<1>3. ASSUME NEW m \in Seq(Gens), NEW i \in 1 .. k
      PROVE  put(m, s[i]) \in Seq(Gens)
  BY <1>1 DEF Front
<1>. HIDE DEF put
<1>4. G \in [1 .. k -> [Seq(Gens) -> Seq(Gens)]]
  BY <1>3
<1>5. ASSUME NEW m \in Seq(Gens), NEW i \in 1 .. k
      PROVE  G[i][m] = put(m, s[i])
  OBVIOUS
<1>. HIDE DEF G, k
<1>6. \E it : it = body(it)
  <2>1. PICK it : FoldValues(Seq(Gens), << >>, k, G, it)
    <3>1. FoldsOver(Seq(Gens), << >>, k, G)
      BY <1>1, <1>4 DEF FoldsOver
    <3>. QED
      BY <3>1, FoldUnfolds, Zenon
  <2>2. ASSUME NEW t \in SUBSET (1 .. k), t # {}
        PROVE  Max(t) \in 1 .. k /\ it[t \ {Max(t)}] \in Seq(Gens)
    <3>1. t \in SUBSET (0 .. k)
      BY <1>1
    <3>2. Max(t) \in t
      BY <1>1, <2>2, <3>1, MaxIn, Zenon
    <3>. QED
      BY <1>1, <2>1, <3>2 DEF FoldValues
  <2>3. ASSUME NEW t \in SUBSET (1 .. k)
        PROVE  it[t] = IF t = {} THEN << >> ELSE put(it[t \ {Max(t)}], s[Max(t)])
    BY <2>1, <2>2, <1>5 DEF FoldValues
  <2>4. it = [t \in SUBSET (1 .. k) |-> it[t]]
    BY <2>1 DEF FoldValues
  <2>5. it = body(it)
    BY <2>3, <2>4, <1>1
  <2>. HIDE DEF body
  <2>. QED
    BY <2>5
<1>7. \A t \in SUBSET (1 .. k) : iter[t] = IF t = {} THEN << >> ELSE put(iter[t \ {Max(t)}], s[Max(t)])
  BY <1>1, <1>6
<1>. HIDE DEF iter, body
<1>8. iter[{}] = << >>
  BY <1>7
<1>9. ASSUME NEW t \in SUBSET (1 .. k), t # {}, iter[t \ {Max(t)}] \in Seq(Gens)
      PROVE  iter[t] = G[Max(t)][iter[t \ {Max(t)}]]
  <2>1. t \in SUBSET (0 .. k)
    BY <1>1
  <2>2. Max(t) \in 1 .. k
    BY <1>1, <1>9, <2>1, MaxIn
  <2>. QED
    BY <1>5, <1>7, <1>9, <2>2
<1>10. PICK L : FoldPath(Seq(Gens), << >>, k, G, iter[1 .. k], L)
  <2>1. FoldPassesBy(Seq(Gens), << >>, k, G, iter)
    BY <1>1, <1>4, <1>8, <1>9 DEF FoldPassesBy, FoldsOver
  <2>. QED
    BY <2>1, FoldGoes, Zenon
<1>11. ASSUME NEW i \in 1 .. k
       PROVE  L[i] = put(L[i - 1], s[i])
  <2>1. i - 1 \in 0 .. k
    BY <1>1
  <2>. QED
    BY <1>5, <1>10, <2>1 DEF FoldPath
<1>12. last_in_each_period(p, s) = L[k]
  BY <1>1, <1>2, <1>10 DEF FoldPath
<1>. QED
  BY <1>10, <1>11, <1>12 DEF put, k, FoldPath
LEMMA OnlyGoes ==
  ASSUME NEW S, NEW s \in Seq(Gens)
  PROVE  \E L \in [0 .. Len(s) -> Seq(Gens)] :
           /\ L[0] = << >> /\ Only(S, s) = L[Len(s)]
           /\ \A i \in 1 .. Len(s) :
                L[i] = IF s[i] \in S THEN Append(L[i - 1], s[i]) ELSE L[i - 1]
<1>. DEFINE k == Len(s)
            put(m, g) == IF g \in S THEN Append(m, g) ELSE m
            body(it) == [t \in SUBSET DOMAIN s |->
                           IF t = {} THEN << >> ELSE put(it[t \ {Max(t)}], s[Max(t)])]
            iter == CHOOSE it : it = body(it)
            G == [i \in 1 .. k |-> [m \in Seq(Gens) |-> put(m, s[i])]]
<1>1. k \in Nat /\ DOMAIN s = 1 .. k /\ << >> \in Seq(Gens) /\ \A i \in 1 .. k : s[i] \in Gens
  OBVIOUS
<1>2. Only(S, s) = iter[DOMAIN s]
  BY DEF Only, FoldLeft, MapThenFoldSet
<1>3. ASSUME NEW m \in Seq(Gens), NEW i \in 1 .. k
      PROVE  put(m, s[i]) \in Seq(Gens)
  BY <1>1
<1>. HIDE DEF put
<1>4. G \in [1 .. k -> [Seq(Gens) -> Seq(Gens)]]
  BY <1>3
<1>5. ASSUME NEW m \in Seq(Gens), NEW i \in 1 .. k
      PROVE  G[i][m] = put(m, s[i])
  OBVIOUS
<1>. HIDE DEF G, k
<1>6. \E it : it = body(it)
  <2>1. PICK it : FoldValues(Seq(Gens), << >>, k, G, it)
    <3>1. FoldsOver(Seq(Gens), << >>, k, G)
      BY <1>1, <1>4 DEF FoldsOver
    <3>. QED
      BY <3>1, FoldUnfolds, Zenon
  <2>2. ASSUME NEW t \in SUBSET (1 .. k), t # {}
        PROVE  Max(t) \in 1 .. k /\ it[t \ {Max(t)}] \in Seq(Gens)
    <3>1. t \in SUBSET (0 .. k)
      BY <1>1
    <3>2. Max(t) \in t
      BY <1>1, <2>2, <3>1, MaxIn, Zenon
    <3>. QED
      BY <1>1, <2>1, <3>2 DEF FoldValues
  <2>3. ASSUME NEW t \in SUBSET (1 .. k)
        PROVE  it[t] = IF t = {} THEN << >> ELSE put(it[t \ {Max(t)}], s[Max(t)])
    BY <2>1, <2>2, <1>5 DEF FoldValues
  <2>4. it = [t \in SUBSET (1 .. k) |-> it[t]]
    BY <2>1 DEF FoldValues
  <2>5. it = body(it)
    BY <2>3, <2>4, <1>1
  <2>. HIDE DEF body
  <2>. QED
    BY <2>5
<1>7. \A t \in SUBSET (1 .. k) : iter[t] = IF t = {} THEN << >> ELSE put(iter[t \ {Max(t)}], s[Max(t)])
  BY <1>1, <1>6
<1>. HIDE DEF iter, body
<1>8. iter[{}] = << >>
  BY <1>7
<1>9. ASSUME NEW t \in SUBSET (1 .. k), t # {}, iter[t \ {Max(t)}] \in Seq(Gens)
      PROVE  iter[t] = G[Max(t)][iter[t \ {Max(t)}]]
  <2>1. t \in SUBSET (0 .. k)
    BY <1>1
  <2>2. Max(t) \in 1 .. k
    BY <1>1, <1>9, <2>1, MaxIn
  <2>. QED
    BY <1>5, <1>7, <1>9, <2>2
<1>10. PICK L : FoldPath(Seq(Gens), << >>, k, G, iter[1 .. k], L)
  <2>1. FoldPassesBy(Seq(Gens), << >>, k, G, iter)
    BY <1>1, <1>4, <1>8, <1>9 DEF FoldPassesBy, FoldsOver
  <2>. QED
    BY <2>1, FoldGoes, Zenon
<1>11. ASSUME NEW i \in 1 .. k
       PROVE  L[i] = put(L[i - 1], s[i])
  <2>1. i - 1 \in 0 .. k
    BY <1>1
  <2>. QED
    BY <1>5, <1>10, <2>1 DEF FoldPath
<1>12. Only(S, s) = L[k]
  BY <1>1, <1>2, <1>10 DEF FoldPath
<1>. QED
  BY <1>10, <1>11, <1>12 DEF put, k, FoldPath

PolicyRules == [count : Nat, period : Periods]

LEMMA CountIs ==
  ASSUME NEW p \in Periods, NEW s \in Seq(PolicyRules)
  PROVE  parse(s)[p] \in Nat
<1>. DEFINE k == Len(s)
            put(n, rule) == IF rule.period = p THEN rule.count ELSE n
            body(it) == [t \in SUBSET DOMAIN s |->
                           IF t = {} THEN 0 ELSE put(it[t \ {Max(t)}], s[Max(t)])]
            iter == CHOOSE it : it = body(it)
            G == [i \in 1 .. k |-> [n \in Nat |-> put(n, s[i])]]
<1>1. k \in Nat /\ DOMAIN s = 1 .. k /\ \A i \in 1 .. k : s[i] \in PolicyRules
  OBVIOUS
<1>2. parse(s)[p] = iter[DOMAIN s]
  <2>1. parse(s)[p] = FoldLeft(LAMBDA n, rule : IF rule.period = p THEN rule.count ELSE n, 0, s)
    BY DEF parse
  <2>2. FoldLeft(LAMBDA n, rule : IF rule.period = p THEN rule.count ELSE n, 0, s) = iter[DOMAIN s]
    BY DEF FoldLeft, MapThenFoldSet
  <2>. QED
    BY <2>1, <2>2
<1>3. ASSUME NEW n \in Nat, NEW i \in 1 .. k
      PROVE  put(n, s[i]) \in Nat
  BY <1>1 DEF PolicyRules
<1>. HIDE DEF put
<1>4. G \in [1 .. k -> [Nat -> Nat]]
  BY <1>3
<1>5. ASSUME NEW n \in Nat, NEW i \in 1 .. k
      PROVE  G[i][n] = put(n, s[i])
  OBVIOUS
<1>. HIDE DEF G, k
<1>6. \E it : it = body(it)
  <2>1. PICK it : FoldValues(Nat, 0, k, G, it)
    <3>1. FoldsOver(Nat, 0, k, G)
      BY <1>1, <1>4 DEF FoldsOver
    <3>. QED
      BY <3>1, FoldUnfolds, Zenon
  <2>2. ASSUME NEW t \in SUBSET (1 .. k), t # {}
        PROVE  Max(t) \in 1 .. k /\ it[t \ {Max(t)}] \in Nat
    <3>1. t \in SUBSET (0 .. k)
      BY <1>1
    <3>2. Max(t) \in t
      BY <1>1, <2>2, <3>1, MaxIn, Zenon
    <3>. QED
      BY <1>1, <2>1, <3>2 DEF FoldValues
  <2>3. ASSUME NEW t \in SUBSET (1 .. k)
        PROVE  it[t] = IF t = {} THEN 0 ELSE put(it[t \ {Max(t)}], s[Max(t)])
    BY <2>1, <2>2, <1>5 DEF FoldValues
  <2>4. it = [t \in SUBSET (1 .. k) |-> it[t]]
    BY <2>1 DEF FoldValues
  <2>5. it = body(it)
    BY <2>3, <2>4, <1>1
  <2>. HIDE DEF body
  <2>. QED
    BY <2>5
<1>7. \A t \in SUBSET (1 .. k) : iter[t] = IF t = {} THEN 0 ELSE put(iter[t \ {Max(t)}], s[Max(t)])
  BY <1>1, <1>6
<1>. HIDE DEF iter, body
<1>8. iter[{}] = 0
  BY <1>7
<1>9. ASSUME NEW t \in SUBSET (1 .. k), t # {}, iter[t \ {Max(t)}] \in Nat
      PROVE  iter[t] = G[Max(t)][iter[t \ {Max(t)}]]
  <2>1. t \in SUBSET (0 .. k)
    BY <1>1
  <2>2. Max(t) \in 1 .. k
    BY <1>1, <1>9, <2>1, MaxIn
  <2>. QED
    BY <1>5, <1>7, <1>9, <2>2
<1>10. PICK L : FoldPath(Nat, 0, k, G, iter[1 .. k], L)
  <2>1. FoldPassesBy(Nat, 0, k, G, iter)
    BY <1>1, <1>4, <1>8, <1>9 DEF FoldPassesBy, FoldsOver
  <2>. QED
    BY <2>1, FoldGoes, Zenon
<1>11. parse(s)[p] = L[k]
  BY <1>1, <1>2, <1>10 DEF FoldPath
<1>. QED
  BY <1>1, <1>10, <1>11 DEF FoldPath


-----------------------------------------------------------------------------
(* Generations in order: numbers go up and the clock does not go back.     *)
Timeline(s) ==
  /\ s \in Seq(Gens)
  /\ \A a, b \in DOMAIN s : a < b => s[a].id < s[b].id /\ s[a].time <= s[b].time

LEMMA ListIs ==
  ASSUME NEW s \in Seq(Gens)
  PROVE  /\ Len(s) \in Nat /\ DOMAIN s = 1 .. Len(s) /\ \A i \in 1 .. Len(s) : s[i] \in Gens
         /\ s # << >> => Len(s) >= 1
  OBVIOUS

LEMMA AppendIs ==
  ASSUME NEW s \in Seq(Gens), NEW g \in Gens
  PROVE  /\ Append(s, g) \in Seq(Gens) /\ Len(Append(s, g)) = Len(s) + 1
         /\ \A i \in 1 .. Len(s) : Append(s, g)[i] = s[i]
         /\ Append(s, g)[Len(s) + 1] = g
  OBVIOUS

LEMMA FrontIs ==
  ASSUME NEW s \in Seq(Gens), s # << >>
  PROVE  /\ Front(s) \in Seq(Gens) /\ Len(Front(s)) = Len(s) - 1
         /\ \A i \in 1 .. Len(s) - 1 : Front(s)[i] = s[i]
         /\ Last(s) = s[Len(s)]
<1>1. Len(s) \in Nat /\ Len(s) >= 1 /\ \A i \in 1 .. Len(s) : s[i] \in Gens
  OBVIOUS
<1>2. Front(s) = [i \in 1 .. Len(s) - 1 |-> s[i]]
  BY <1>1 DEF Front
<1>3. [i \in 1 .. Len(s) - 1 |-> s[i]] \in Seq(Gens) /\ Len([i \in 1 .. Len(s) - 1 |-> s[i]]) = Len(s) - 1
  BY <1>1
<1>. QED
  BY <1>2, <1>3 DEF Last

LEMMA SetIs ==
  ASSUME NEW s \in Seq(Gens)
  PROVE  ToSet(s) = {s[i] : i \in 1 .. Len(s)} /\ ToSet(s) \subseteq Gens
  BY ListIs DEF ToSet

(* What is left of generations in order is in order, and is what it is     *)
(* meant to be.                                                            *)
LEMMA OnlyIs ==
  ASSUME NEW S, NEW s, Timeline(s)
  PROVE  Timeline(Only(S, s)) /\ ToSet(Only(S, s)) = ToSet(s) \cap S
<1>1. /\ s \in Seq(Gens) /\ Len(s) \in Nat /\ \A i \in 1 .. Len(s) : s[i] \in Gens
      /\ \A a, b \in 1 .. Len(s) : a < b => s[a].id < s[b].id /\ s[a].time <= s[b].time
  BY ListIs DEF Timeline
<1>2. PICK L \in [0 .. Len(s) -> Seq(Gens)] :
        /\ L[0] = << >> /\ Only(S, s) = L[Len(s)]
        /\ \A i \in 1 .. Len(s) : L[i] = IF s[i] \in S THEN Append(L[i - 1], s[i]) ELSE L[i - 1]
  BY <1>1, OnlyGoes
<1>. DEFINE Taken(i) == {s[j] : j \in 1 .. i} \cap S
            Good(i)  == Timeline(L[i]) /\ ToSet(L[i]) = Taken(i)
            A == {i \in 0 .. Len(s) : Good(i)}
<1>3. 0 \in A
  <2>1. 0 \in 0 .. Len(s) /\ Taken(0) = {}
    BY <1>1
  <2>2. Timeline(<< >>) /\ ToSet(<< >>) = {}
    BY DEF Timeline, ToSet
  <2>. QED
    BY <1>2, <2>1, <2>2
<1>4. ASSUME NEW i \in 1 .. Len(s), i - 1 \in A
      PROVE  i \in A
  <2>1. /\ Timeline(L[i - 1]) /\ ToSet(L[i - 1]) = Taken(i - 1) /\ i \in 0 .. Len(s) /\ i - 1 \in 0 .. Len(s)
        /\ L[i - 1] \in Seq(Gens)
    BY <1>1, <1>2, <1>4
  <2>2. {s[j] : j \in 1 .. i} = {s[j] : j \in 1 .. (i - 1)} \cup {s[i]}
    <3>1. 1 .. i = (1 .. (i - 1)) \cup {i}
      BY <1>1
    <3>. QED
      BY <3>1, Zenon
  <2>3. CASE s[i] \notin S
    BY <1>2, <2>1, <2>2, <2>3
  <2>4. CASE s[i] \in S
    <3>. DEFINE m == L[i - 1]
                n == Append(m, s[i])
    <3>1. /\ n \in Seq(Gens) /\ Len(n) = Len(m) + 1 /\ Len(m) \in Nat
          /\ (\A a \in 1 .. Len(m) : n[a] = m[a]) /\ n[Len(m) + 1] = s[i]
      BY <1>1, <2>1, AppendIs, ListIs
    <3>. HIDE DEF n
    <3>2. DOMAIN n = 1 .. Len(n) /\ DOMAIN m = 1 .. Len(m)
      BY <3>1, <2>1, ListIs
    <3>3. ASSUME NEW a \in 1 .. Len(m)
          PROVE  m[a].id < s[i].id /\ m[a].time <= s[i].time
      <4>1. m[a] \in Taken(i - 1)
        BY <2>1, SetIs
      <4>2. PICK j \in 1 .. (i - 1) : m[a] = s[j]
        BY <4>1
      <4>3. j \in 1 .. Len(s) /\ j < i
        BY <1>1
      <4>. QED
        BY <1>1, <4>2, <4>3
    <3>4. ASSUME NEW a \in DOMAIN n, NEW b \in DOMAIN n, a < b
          PROVE  n[a].id < n[b].id /\ n[a].time <= n[b].time
      <4>1. a \in 1 .. Len(m)
        BY <3>1, <3>2, <3>4
      <4>2. CASE b \in 1 .. Len(m)
        BY <2>1, <3>1, <3>2, <3>4, <4>1, <4>2 DEF Timeline
      <4>3. CASE b = Len(m) + 1
        BY <3>1, <3>3, <4>1, <4>3
      <4>. QED
        BY <3>1, <3>2, <4>2, <4>3
    <3>5. Timeline(n)
      BY <3>1, <3>4 DEF Timeline
    <3>6. ToSet(n) = ToSet(m) \cup {s[i]}
      <4>1. ToSet(n) = {n[a] : a \in 1 .. Len(n)} /\ ToSet(m) = {m[a] : a \in 1 .. Len(m)}
        BY <2>1, <3>1, SetIs
      <4>. HIDE DEF m
      <4>2. 1 .. Len(n) = 1 .. Len(m) \cup {Len(m) + 1}
        BY <3>1
      <4>3. {n[a] : a \in 1 .. Len(n)} = {n[a] : a \in 1 .. Len(m)} \cup {n[Len(m) + 1]}
        BY <4>2
      <4>4. {n[a] : a \in 1 .. Len(m)} = {m[a] : a \in 1 .. Len(m)}
        BY <3>1
      <4>. QED
        BY <3>1, <4>1, <4>3, <4>4
    <3>7. L[i] = n
      BY <1>2, <2>4 DEF n
    <3>8. Taken(i) = Taken(i - 1) \cup {s[i]}
      BY <2>2, <2>4
    <3>. HIDE DEF Taken
    <3>. QED
      BY <2>1, <3>5, <3>6, <3>7, <3>8
  <2>. QED
    BY <2>3, <2>4
<1>5. Len(s) \in A
  <2>. HIDE DEF A
  <2>1. 0 .. Len(s) \subseteq A
    BY <1>1, <1>3, <1>4, Induction, Zenon
  <2>. QED
    BY <1>1, <2>1
<1>. QED
  BY <1>1, <1>2, <1>5, SetIs

-----------------------------------------------------------------------------
Per(p, g) == PeriodOf[p][g.time]

(* The generations of S that are the last in their periods, and the later  *)
(* periods.                                                                *)
LastIn(S, p, g) == \A other \in S : Per(p, other) = Per(p, g) => other.id <= g.id
LaterIn(S, p, g) == {Per(p, other) : other \in {h \in S : Per(p, h) > Per(p, g)}}

Chosen(rules, S) ==
  {g \in S : \E p \in Periods : LastIn(S, p, g) /\ Cardinality(LaterIn(S, p, g)) < rules[p]}

LEMMA PeriodsGoUp ==
  ASSUME NEW p \in Periods, NEW s, Timeline(s)
  PROVE  /\ \A a \in 1 .. Len(s) : Per(p, s[a]) \in Nat /\ s[a].id \in Nat
         /\ \A a, b \in 1 .. Len(s) : a < b => Per(p, s[a]) <= Per(p, s[b]) /\ s[a].id < s[b].id
<1>1. s \in Seq(Gens) /\ \A a \in 1 .. Len(s) : s[a].id \in Nat /\ s[a].time \in Times
  BY ListIs DEF Timeline, Gens
<1>2. DOMAIN s = 1 .. Len(s)
  BY <1>1, ListIs
<1>. QED
  BY <1>1, <1>2, PeriodsAssumption DEF Per, Timeline

(* What last_in_each_period has made of the first i generations: each is   *)
(* the last of a period, in order, and no period is left out.              *)
EachOnce(m, p, s, i) ==
  /\ m \in Seq(Gens) /\ (i > 0 => m # << >> /\ m[Len(m)] = s[i])
  /\ \A a, b \in 1 .. Len(m) : a < b => Per(p, m[a]) < Per(p, m[b])
  /\ \A a \in 1 .. Len(m) : \E j \in 1 .. i :
       m[a] = s[j] /\ \A h \in 1 .. i : Per(p, s[h]) = Per(p, s[j]) => h <= j
  /\ \A h \in 1 .. i : \E a \in 1 .. Len(m) : Per(p, m[a]) = Per(p, s[h])

LEMMA EachOnceGrows ==
  ASSUME NEW p \in Periods, NEW s, Timeline(s), NEW i \in 1 .. Len(s), NEW m,
         EachOnce(m, p, s, i - 1),
         m = << >> \/ Per(p, m[Len(m)]) # Per(p, s[i])
  PROVE  EachOnce(Append(m, s[i]), p, s, i)
<1>. DEFINE n == Append(m, s[i])
<1>1. /\ s \in Seq(Gens) /\ Len(s) \in Nat /\ s[i] \in Gens /\ m \in Seq(Gens) /\ Len(m) \in Nat
      /\ i - 1 \in Nat /\ i \in Nat
  BY ListIs DEF Timeline, EachOnce
<1>2. /\ n \in Seq(Gens) /\ Len(n) = Len(m) + 1
      /\ (\A a \in 1 .. Len(m) : n[a] = m[a]) /\ n[Len(m) + 1] = s[i]
  BY <1>1, AppendIs
<1>. HIDE DEF n
<1>3. \A a \in 1 .. Len(m) : Per(p, m[a]) < Per(p, s[i])
  <2>1. SUFFICES ASSUME NEW a \in 1 .. Len(m) PROVE Per(p, m[a]) < Per(p, s[i])
    OBVIOUS
  <2>2. PICK j \in 1 .. (i - 1) : m[a] = s[j]
    BY DEF EachOnce
  <2>3. i - 1 > 0 /\ m # << >> /\ i - 1 \in 1 .. Len(s) /\ j \in 1 .. Len(s) /\ Len(m) \in 1 .. Len(m)
    BY <1>1
  <2>4. m[Len(m)] = s[i - 1]
    BY <2>3 DEF EachOnce
  <2>5. Per(p, s[i - 1]) <= Per(p, s[i]) /\ Per(p, s[i - 1]) # Per(p, s[i])
    BY <1>1, <2>3, <2>4, PeriodsGoUp
  <2>6. Per(p, s[j]) <= Per(p, s[i - 1])
    <3>1. j = i - 1 \/ j < i - 1
      BY <1>1
    <3>. QED
      BY <2>3, <3>1, PeriodsGoUp
  <2>. QED
    BY <2>2, <2>3, <2>5, <2>6, PeriodsGoUp
<1>4. \A h \in 1 .. (i - 1) : Per(p, s[h]) # Per(p, s[i])
  <2>1. SUFFICES ASSUME NEW h \in 1 .. (i - 1) PROVE Per(p, s[h]) # Per(p, s[i])
    OBVIOUS
  <2>2. PICK a \in 1 .. Len(m) : Per(p, m[a]) = Per(p, s[h])
    BY DEF EachOnce
  <2>3. Per(p, s[h]) \in Nat /\ Per(p, s[i]) \in Nat
    BY <1>1, PeriodsGoUp
  <2>. QED
    BY <1>3, <2>2, <2>3
<1>5. \A a, b \in 1 .. Len(n) : a < b => Per(p, n[a]) < Per(p, n[b])
  <2>1. SUFFICES ASSUME NEW a \in 1 .. Len(n), NEW b \in 1 .. Len(n), a < b
                 PROVE  Per(p, n[a]) < Per(p, n[b])
    OBVIOUS
  <2>2. a \in 1 .. Len(m) /\ (b \in 1 .. Len(m) \/ b = Len(m) + 1)
    BY <1>1, <1>2, <2>1
  <2>3. CASE b \in 1 .. Len(m)
    <3>1. Per(p, m[a]) < Per(p, m[b])
      BY <2>1, <2>2, <2>3 DEF EachOnce
    <3>. QED
      BY <1>2, <2>2, <2>3, <3>1
  <2>4. CASE b = Len(m) + 1
    <3>1. n[a] = m[a] /\ n[b] = s[i]
      BY <1>2, <2>2, <2>4
    <3>. QED
      BY <1>3, <2>2, <3>1
  <2>. QED
    BY <2>2, <2>3, <2>4
<1>6. ASSUME NEW a \in 1 .. Len(n)
      PROVE  \E j \in 1 .. i :
               n[a] = s[j] /\ \A h \in 1 .. i : Per(p, s[h]) = Per(p, s[j]) => h <= j
  <2>1. CASE a = Len(m) + 1
    BY <1>1, <1>2, <2>1
  <2>2. CASE a \in 1 .. Len(m)
    <3>1. PICK j \in 1 .. (i - 1) :
            m[a] = s[j] /\ \A h \in 1 .. (i - 1) : Per(p, s[h]) = Per(p, s[j]) => h <= j
      BY <2>2 DEF EachOnce
    <3>2. \A h \in 1 .. i : h = i \/ h \in 1 .. (i - 1)
      BY <1>1
    <3>3. j \in 1 .. i /\ n[a] = s[j]
      BY <1>1, <1>2, <2>2, <3>1
    <3>. QED
      BY <1>4, <3>1, <3>2, <3>3
  <2>3. a = Len(m) + 1 \/ a \in 1 .. Len(m)
    BY <1>1, <1>2
  <2>. QED
    BY <2>1, <2>2, <2>3, Zenon
<1>7. ASSUME NEW h \in 1 .. i
      PROVE  \E a \in 1 .. Len(n) : Per(p, n[a]) = Per(p, s[h])
  <2>1. CASE h = i
    BY <1>1, <1>2, <2>1
  <2>2. CASE h \in 1 .. (i - 1)
    <3>1. PICK a \in 1 .. Len(m) : Per(p, m[a]) = Per(p, s[h])
      BY <2>2 DEF EachOnce
    <3>. QED
      BY <1>1, <1>2, <3>1
  <2>. QED
    BY <1>1, <2>1, <2>2
<1>8. n # << >> /\ n[Len(n)] = s[i]
  BY <1>1, <1>2
<1>. QED
  BY <1>2, <1>5, <1>6, <1>7, <1>8 DEF EachOnce, n

LEMMA EachOnceStays ==
  ASSUME NEW p \in Periods, NEW s, Timeline(s), NEW i \in 1 .. Len(s), NEW m,
         EachOnce(m, p, s, i - 1), m # << >>, Per(p, m[Len(m)]) = Per(p, s[i])
  PROVE  EachOnce(Append(Front(m), s[i]), p, s, i)
<1>. DEFINE f == Front(m)
            n == Append(f, s[i])
<1>1. /\ s \in Seq(Gens) /\ Len(s) \in Nat /\ s[i] \in Gens /\ m \in Seq(Gens) /\ Len(m) \in Nat
      /\ i - 1 \in Nat /\ i \in Nat /\ Len(m) >= 1
  BY ListIs DEF Timeline, EachOnce
<1>2. f \in Seq(Gens) /\ Len(f) = Len(m) - 1 /\ \A a \in 1 .. (Len(m) - 1) : f[a] = m[a]
  BY <1>1, FrontIs
<1>3. /\ n \in Seq(Gens) /\ Len(n) = Len(m)
      /\ (\A a \in 1 .. (Len(m) - 1) : n[a] = m[a]) /\ n[Len(m)] = s[i]
  <2>1. n \in Seq(Gens) /\ Len(n) = Len(f) + 1 /\ (\A a \in 1 .. Len(f) : n[a] = f[a]) /\ n[Len(f) + 1] = s[i]
    BY <1>1, <1>2, AppendIs
  <2>2. Len(f) + 1 = Len(m)
    BY <1>1, <1>2
  <2>. HIDE DEF n, f
  <2>. QED
    BY <1>2, <2>1, <2>2
<1>. HIDE DEF n, f
<1>4. ASSUME NEW a \in 1 .. Len(m)
      PROVE  /\ Per(p, n[a]) = Per(p, m[a])
             /\ a # Len(m) => a \in 1 .. (Len(m) - 1) /\ n[a] = m[a] /\ Per(p, m[a]) < Per(p, s[i])
  <2>1. a = Len(m) \/ (a \in 1 .. (Len(m) - 1) /\ a < Len(m))
    BY <1>1
  <2>2. a < Len(m) => Per(p, m[a]) < Per(p, m[Len(m)])
    BY <1>1 DEF EachOnce
  <2>. QED
    BY <1>1, <1>3, <2>1, <2>2
<1>5. \A a, b \in 1 .. Len(n) : a < b => Per(p, n[a]) < Per(p, n[b])
  BY <1>3, <1>4 DEF EachOnce
<1>6. ASSUME NEW a \in 1 .. Len(n)
      PROVE  \E j \in 1 .. i :
               n[a] = s[j] /\ \A h \in 1 .. i : Per(p, s[h]) = Per(p, s[j]) => h <= j
  <2>1. CASE a = Len(m)
    BY <1>1, <1>3, <2>1
  <2>2. CASE a # Len(m)
    <3>1. PICK j \in 1 .. (i - 1) :
            m[a] = s[j] /\ \A h \in 1 .. (i - 1) : Per(p, s[h]) = Per(p, s[j]) => h <= j
      BY <1>3 DEF EachOnce
    <3>2. \A h \in 1 .. i : h = i \/ h \in 1 .. (i - 1)
      BY <1>1
    <3>3. j \in 1 .. i /\ j \in 1 .. Len(s) /\ n[a] = s[j] /\ Per(p, s[j]) < Per(p, s[i])
      BY <1>1, <1>3, <1>4, <2>2, <3>1
    <3>4. Per(p, s[j]) # Per(p, s[i])
      BY <1>1, <3>3, PeriodsGoUp
    <3>. QED
      BY <3>1, <3>2, <3>3, <3>4
  <2>. QED
    BY <2>1, <2>2
<1>7. ASSUME NEW h \in 1 .. i
      PROVE  \E a \in 1 .. Len(n) : Per(p, n[a]) = Per(p, s[h])
  <2>1. CASE h = i
    BY <1>1, <1>3, <2>1
  <2>2. CASE h \in 1 .. (i - 1)
    <3>1. PICK a \in 1 .. Len(m) : Per(p, m[a]) = Per(p, s[h])
      BY <2>2 DEF EachOnce
    <3>. QED
      BY <1>3, <1>4, <3>1
  <2>. QED
    BY <1>1, <2>1, <2>2
<1>8. n # << >> /\ n[Len(n)] = s[i]
  BY <1>1, <1>3
<1>. QED
  BY <1>3, <1>5, <1>6, <1>7, <1>8 DEF EachOnce, n, f

LEMMA LastEachIs ==
  ASSUME NEW p \in Periods, NEW s, Timeline(s)
  PROVE  EachOnce(last_in_each_period(p, s), p, s, Len(s))
<1>1. s \in Seq(Gens) /\ Len(s) \in Nat
  BY ListIs DEF Timeline
<1>2. PICK L \in [0 .. Len(s) -> Seq(Gens)] :
        /\ L[0] = << >> /\ last_in_each_period(p, s) = L[Len(s)]
        /\ \A i \in 1 .. Len(s) :
             L[i] = IF L[i - 1] # << >>
                       /\ PeriodOf[p][Last(L[i - 1]).time] = PeriodOf[p][s[i].time]
                    THEN Append(Front(L[i - 1]), s[i])
                    ELSE Append(L[i - 1], s[i])
  BY <1>1, LastEachGoes
<1>. DEFINE A == {i \in 0 .. Len(s) : EachOnce(L[i], p, s, i)}
<1>3. 0 \in A
  <2>1. EachOnce(<< >>, p, s, 0)
    BY DEF EachOnce
  <2>. QED
    BY <1>1, <1>2, <2>1
<1>4. ASSUME NEW i \in 1 .. Len(s), i - 1 \in A
      PROVE  i \in A
  <2>1. EachOnce(L[i - 1], p, s, i - 1) /\ i \in 0 .. Len(s) /\ L[i - 1] \in Seq(Gens)
    BY <1>1, <1>2, <1>4
  <2>2. L[i - 1] # << >> => Last(L[i - 1]) = L[i - 1][Len(L[i - 1])]
    BY <2>1, FrontIs
  <2>3. CASE L[i - 1] # << >> /\ Per(p, L[i - 1][Len(L[i - 1])]) = Per(p, s[i])
    <3>1. L[i] = Append(Front(L[i - 1]), s[i])
      BY <1>2, <2>2, <2>3 DEF Per
    <3>. QED
      BY <2>1, <2>3, <3>1, EachOnceStays
  <2>4. CASE ~(L[i - 1] # << >> /\ Per(p, L[i - 1][Len(L[i - 1])]) = Per(p, s[i]))
    <3>1. L[i] = Append(L[i - 1], s[i])
      BY <1>2, <2>2, <2>4 DEF Per
    <3>. QED
      BY <2>1, <2>4, <3>1, EachOnceGrows
  <2>. QED
    BY <2>3, <2>4
<1>. HIDE DEF A
<1>5. 0 .. Len(s) \subseteq A
  BY <1>1, <1>3, <1>4, Induction, Zenon
<1>6. Len(s) \in 0 .. Len(s)
  BY <1>1
<1>. QED
  BY <1>2, <1>5, <1>6 DEF A

(* The last n of the list are those with fewer than n later periods.       *)
LEMMA LastOfIs ==
  ASSUME NEW p \in Periods, NEW s, Timeline(s), NEW n \in Nat, n > 0
  PROVE  ToSet(LastOf(last_in_each_period(p, s), n)) =
           {g \in ToSet(s) : LastIn(ToSet(s), p, g) /\ Cardinality(LaterIn(ToSet(s), p, g)) < n}
<1>. DEFINE m == last_in_each_period(p, s)
            S == ToSet(s)
<1>1. EachOnce(m, p, s, Len(s)) /\ s \in Seq(Gens) /\ Len(s) \in Nat /\ S = {s[j] : j \in 1 .. Len(s)}
  BY LastEachIs, ListIs, SetIs DEF Timeline
<1>. HIDE DEF m, S
<1>2. m \in Seq(Gens) /\ Len(m) \in Nat
  BY <1>1, ListIs DEF EachOnce
<1>3. ASSUME NEW a \in 1 .. Len(m)
      PROVE  m[a] \in S /\ LastIn(S, p, m[a]) /\ Cardinality(LaterIn(S, p, m[a])) = Len(m) - a
  <2>1. PICK j \in 1 .. Len(s) :
          m[a] = s[j] /\ \A h \in 1 .. Len(s) : Per(p, s[h]) = Per(p, s[j]) => h <= j
    BY <1>1 DEF EachOnce
  <2>2. m[a] \in S
    BY <1>1, <2>1
  <2>3. LastIn(S, p, m[a])
    <3>1. SUFFICES ASSUME NEW h \in 1 .. Len(s), Per(p, s[h]) = Per(p, s[j]) PROVE s[h].id <= s[j].id
      BY <1>1, <2>1 DEF LastIn
    <3>2. h = j \/ h < j
      BY <1>1, <2>1, <3>1
    <3>. QED
      BY <1>1, <3>2, PeriodsGoUp
  <2>. DEFINE f == [b \in (a + 1) .. Len(m) |-> Per(p, m[b])]
  <2>4. ASSUME NEW b \in 1 .. Len(m), NEW c \in 1 .. Len(m)
        PROVE  Per(p, m[b]) \in Nat /\ Per(p, m[c]) \in Nat /\ (Per(p, m[b]) < Per(p, m[c]) <=> b < c)
    <3>1. PICK i \in 1 .. Len(s), h \in 1 .. Len(s) : m[b] = s[i] /\ m[c] = s[h]
      BY <1>1 DEF EachOnce
    <3>2. Per(p, m[b]) \in Nat /\ Per(p, m[c]) \in Nat
      BY <3>1, PeriodsGoUp
    <3>3. b < c \/ b = c \/ c < b
      BY <1>2
    <3>4. (b < c => Per(p, m[b]) < Per(p, m[c])) /\ (c < b => Per(p, m[c]) < Per(p, m[b]))
      BY <1>1 DEF EachOnce
    <3>. QED
      BY <3>2, <3>3, <3>4
  <2>5. \A b \in (a + 1) .. Len(m) : b \in 1 .. Len(m) /\ a < b
    BY <1>2
  <2>6. f \in Bijection((a + 1) .. Len(m), LaterIn(S, p, m[a]))
    <3>1. \A b \in (a + 1) .. Len(m) : f[b] \in LaterIn(S, p, m[a])
      <4>1. SUFFICES ASSUME NEW b \in (a + 1) .. Len(m) PROVE Per(p, m[b]) \in LaterIn(S, p, m[a])
        OBVIOUS
      <4>2. m[b] \in S
        BY <1>1, <2>5 DEF EachOnce
      <4>3. Per(p, m[b]) > Per(p, m[a])
        BY <2>4, <2>5
      <4>. QED
        BY <4>2, <4>3 DEF LaterIn
    <3>2. \A b, c \in (a + 1) .. Len(m) : f[b] = f[c] => b = c
      <4>1. SUFFICES ASSUME NEW b \in (a + 1) .. Len(m), NEW c \in (a + 1) .. Len(m),
                            Per(p, m[b]) = Per(p, m[c])
                     PROVE  b = c
        OBVIOUS
      <4>2. ~(b < c) /\ ~(c < b)
        BY <2>4, <2>5, <4>1
      <4>. QED
        BY <4>2
    <3>3. \A v \in LaterIn(S, p, m[a]) : \E b \in (a + 1) .. Len(m) : f[b] = v
      <4>1. SUFFICES ASSUME NEW h \in S, Per(p, h) > Per(p, m[a])
                     PROVE  \E b \in (a + 1) .. Len(m) : Per(p, m[b]) = Per(p, h)
        BY DEF LaterIn
      <4>2. PICK b \in 1 .. Len(m) : Per(p, m[b]) = Per(p, h)
        BY <1>1 DEF EachOnce
      <4>3. a < b
        BY <2>4, <4>1, <4>2
      <4>4. b \in (a + 1) .. Len(m)
        BY <1>2, <4>3
      <4>. QED
        BY <4>2, <4>4
    <3>. HIDE DEF f
    <3>4. f \in [(a + 1) .. Len(m) -> LaterIn(S, p, m[a])]
      BY <3>1 DEF f
    <3>. QED
      BY <3>2, <3>3, <3>4 DEF Bijection, Injection, Surjection, IsInjective
  <2>7. IsFiniteSet((a + 1) .. Len(m)) /\ Cardinality((a + 1) .. Len(m)) = Len(m) - a
    <3>0. a + 1 \in Int /\ Len(m) \in Int
      BY <1>2
    <3>1. /\ IsFiniteSet((a + 1) .. Len(m))
          /\ Cardinality((a + 1) .. Len(m)) = IF a + 1 > Len(m) THEN 0 ELSE Len(m) - (a + 1) + 1
      BY <3>0, FS_Interval, Zenon
    <3>. QED
      BY <1>2, <3>1
  <2>8. Cardinality(LaterIn(S, p, m[a])) = Len(m) - a
    <3>1. ExistsBijection((a + 1) .. Len(m), LaterIn(S, p, m[a]))
      BY <2>6 DEF ExistsBijection
    <3>. QED
      BY <2>7, <3>1, FS_Bijection, Zenon
  <2>. QED
    BY <2>2, <2>3, <2>8
<1>4. ASSUME NEW g \in S, LastIn(S, p, g)
      PROVE  \E a \in 1 .. Len(m) : g = m[a]
  <2>1. PICK a \in 1 .. Len(m) : Per(p, m[a]) = Per(p, g)
    BY <1>1 DEF EachOnce
  <2>2. g.id <= m[a].id /\ m[a].id <= g.id
    BY <1>3, <1>4, <2>1 DEF LastIn
  <2>3. PICK i \in 1 .. Len(s), h \in 1 .. Len(s) : g = s[i] /\ m[a] = s[h]
    BY <1>1, <1>3
  <2>4. i < h \/ i = h \/ h < i
    BY <1>1
  <2>5. i = h
    BY <2>2, <2>3, <2>4, PeriodsGoUp
  <2>. QED
    BY <2>3, <2>5
<1>5. ToSet(LastOf(m, n)) = {m[a] : a \in {a \in 1 .. Len(m) : Len(m) - a < n}}
  <2>. DEFINE low == IF Len(m) > n THEN Len(m) - n + 1 ELSE 1
              t == SubSeq(m, low, Len(m))
  <2>1. low \in 1 .. (Len(m) + 1) /\ low \in Nat /\ \A a \in 1 .. Len(m) : a >= low <=> Len(m) - a < n
    BY <1>2
  <2>2. t \in Seq(Gens) /\ Len(t) = Len(m) - low + 1 /\ \A i \in 1 .. Len(t) : t[i] = m[low + i - 1]
    <3>. HIDE DEF low
    <3>1. t \in Seq(Gens) /\ Len(t) = Len(m) - low + 1
      BY <1>2, <2>1
    <3>2. ASSUME NEW i \in 1 .. Len(t) PROVE t[i] = m[low + i - 1]
      BY <1>2, <2>1, <3>1
    <3>. QED
      BY <3>1, <3>2
  <2>3. LastOf(m, n) = t
    BY DEF LastOf
  <2>. HIDE DEF t, low
  <2>4. ToSet(t) = {t[i] : i \in 1 .. Len(t)}
    BY <2>2, SetIs
  <2>5. \A i \in 1 .. Len(t) : low + i - 1 \in 1 .. Len(m) /\ low + i - 1 >= low
    BY <1>2, <2>1, <2>2
  <2>6. \A a \in 1 .. Len(m) : a >= low => a - low + 1 \in 1 .. Len(t) /\ low + (a - low + 1) - 1 = a
    BY <1>2, <2>1, <2>2
  <2>7. ToSet(t) \subseteq {m[a] : a \in {a \in 1 .. Len(m) : Len(m) - a < n}}
    BY <2>1, <2>2, <2>4, <2>5
  <2>8. ASSUME NEW a \in 1 .. Len(m), Len(m) - a < n
        PROVE  m[a] \in ToSet(t)
    <3>1. a - low + 1 \in 1 .. Len(t) /\ t[a - low + 1] = m[a]
      BY <2>1, <2>2, <2>6, <2>8
    <3>. QED
      BY <2>4, <3>1
  <2>. QED
    BY <2>3, <2>7, <2>8
<1>. QED
  BY <1>3, <1>4, <1>5 DEF m, S

LEMMA LaterFinite ==
  ASSUME NEW p \in Periods, NEW s, Timeline(s), NEW K \in SUBSET ToSet(s), NEW g \in K
  PROVE  IsFiniteSet(LaterIn(K, p, g)) /\ Cardinality(LaterIn(K, p, g)) \in Nat
<1>1. s \in Seq(Gens) /\ Len(s) \in Nat /\ ToSet(s) = {s[j] : j \in 1 .. Len(s)}
  BY ListIs, SetIs DEF Timeline
<1>2. Len(s) \in 1 .. Len(s)
  BY <1>1
<1>. DEFINE top == Per(p, s[Len(s)])
<1>3. ASSUME NEW v \in LaterIn(K, p, g)
      PROVE  v \in Nat /\ v <= top
  <2>1. PICK j \in 1 .. Len(s) : v = Per(p, s[j])
    BY <1>1 DEF LaterIn
  <2>2. j = Len(s) \/ j < Len(s)
    BY <1>1
  <2>. QED
    BY <1>2, <2>1, <2>2, PeriodsGoUp
<1>4. top \in Nat
  BY <1>2, PeriodsGoUp
<1>. HIDE DEF top
<1>5. LaterIn(K, p, g) \in SUBSET Nat /\ \A v \in LaterIn(K, p, g) : v <= top
  BY <1>3
<1>6. IsFiniteSet(LaterIn(K, p, g))
  BY <1>4, <1>5, FS_BoundedSetOfNaturals, Zenon
<1>. QED
  BY <1>6, FS_CardinalityType

LEMMA MatchIs ==
  ASSUME NEW rules \in [Periods -> Nat], NEW s, Timeline(s)
  PROVE  /\ ToSet(match(rules, s)) = Chosen(rules, ToSet(s))
         /\ match(rules, s) = Only(Chosen(rules, ToSet(s)), s)
<1>. DEFINE ps == {q \in Periods : rules[q] > 0}
            chosen == UNION {ToSet(LastOf(last_in_each_period(p, s), rules[p])) : p \in ps}
<1>1. chosen = Chosen(rules, ToSet(s))
  <2>1. ASSUME NEW p \in ps
        PROVE  ToSet(LastOf(last_in_each_period(p, s), rules[p])) =
                 {g \in ToSet(s) : LastIn(ToSet(s), p, g) /\ Cardinality(LaterIn(ToSet(s), p, g)) < rules[p]}
    BY LastOfIs
  <2>2. ASSUME NEW g \in ToSet(s), NEW p \in Periods,
               LastIn(ToSet(s), p, g), Cardinality(LaterIn(ToSet(s), p, g)) < rules[p]
        PROVE  p \in ps
    <3>1. Cardinality(LaterIn(ToSet(s), p, g)) \in Nat
      BY LaterFinite
    <3>. QED
      BY <2>2, <3>1
  <2>. HIDE DEF ps
  <2>3. ps \subseteq Periods
    BY DEF ps
  <2>. QED
    BY <2>1, <2>2, <2>3 DEF Chosen
<1>2. match(rules, s) = Only(chosen, s)
  BY DEF match
<1>. HIDE DEF chosen
<1>3. ToSet(match(rules, s)) = ToSet(s) \cap Chosen(rules, ToSet(s))
  BY <1>1, <1>2, OnlyIs
<1>4. Chosen(rules, ToSet(s)) \subseteq ToSet(s)
  BY DEF Chosen
<1>. QED
  BY <1>1, <1>2, <1>3, <1>4

-----------------------------------------------------------------------------
(* If of all generations those that the policy wants are left, it wants    *)
(* the same of those that are left: no period can be missing among the     *)
(* later ones, as the last of the missing ones would have been wanted.     *)
LEMMA LaterStay ==
  ASSUME NEW p \in Periods, NEW s, Timeline(s), NEW K \in SUBSET ToSet(s), NEW n \in Nat,
         \A g \in ToSet(s) :
           LastIn(ToSet(s), p, g) /\ Cardinality(LaterIn(ToSet(s), p, g)) < n => g \in K,
         NEW g \in K, Cardinality(LaterIn(K, p, g)) < n
  PROVE  LaterIn(ToSet(s), p, g) = LaterIn(K, p, g)
<1>. DEFINE M == ToSet(s)
<1>1. /\ s \in Seq(Gens) /\ Len(s) \in Nat /\ M = {s[j] : j \in 1 .. Len(s)}
      /\ \A h \in M : Per(p, h) \in Nat
  <2>1. s \in Seq(Gens) /\ Len(s) \in Nat /\ M = {s[j] : j \in 1 .. Len(s)}
    BY ListIs, SetIs DEF Timeline
  <2>. QED
    BY <2>1, PeriodsGoUp
<1>. HIDE DEF M
<1>2. K \subseteq M /\ g \in M
  BY DEF M
<1>3. \A h \in M : LastIn(M, p, h) /\ Cardinality(LaterIn(M, p, h)) < n => h \in K
  BY DEF M
<1>4. LaterIn(K, p, g) \subseteq LaterIn(M, p, g)
  BY <1>2 DEF LaterIn
<1>. DEFINE B == {i \in 1 .. Len(s) : Per(p, s[i]) \in LaterIn(M, p, g) \ LaterIn(K, p, g)}
<1>5. ASSUME B # {}
      PROVE  FALSE
  <2>1. B \in SUBSET (0 .. Len(s))
    BY <1>1
  <2>. HIDE DEF B
  <2>2. PICK i \in B : \A j \in B : j <= i
    BY <1>1, <1>5, <2>1, GreatestIs, Zenon
  <2>3. i \in 1 .. Len(s) /\ Per(p, s[i]) \in LaterIn(M, p, g) /\ Per(p, s[i]) \notin LaterIn(K, p, g)
    BY <2>2 DEF B
  <2>4. s[i] \in M /\ Per(p, s[i]) \in Nat /\ Per(p, g) \in Nat /\ Per(p, s[i]) > Per(p, g)
    <3>1. s[i] \in M
      BY <1>1, <2>3
    <3>. QED
      BY <1>1, <1>2, <2>3, <3>1 DEF LaterIn
  <2>5. LastIn(M, p, s[i])
    <3>1. SUFFICES ASSUME NEW j \in 1 .. Len(s), Per(p, s[j]) = Per(p, s[i])
                   PROVE  s[j].id <= s[i].id
      BY <1>1 DEF LastIn
    <3>2. j \in B
      BY <2>3, <3>1 DEF B
    <3>3. j < i \/ j = i
      BY <2>2, <2>3, <3>2
    <3>. QED
      BY <2>3, <3>3, PeriodsGoUp
  <2>6. LaterIn(M, p, s[i]) \subseteq LaterIn(K, p, g)
    <3>1. SUFFICES ASSUME NEW j \in 1 .. Len(s), Per(p, s[j]) > Per(p, s[i]),
                          Per(p, s[j]) \notin LaterIn(K, p, g)
                   PROVE  FALSE
      BY <1>1 DEF LaterIn
    <3>2. s[j] \in M /\ Per(p, s[j]) \in Nat
      BY <1>1
    <3>3. Per(p, s[j]) > Per(p, g)
      BY <2>4, <3>1, <3>2
    <3>4. Per(p, s[j]) \in LaterIn(M, p, g)
      BY <3>2, <3>3 DEF LaterIn
    <3>5. j \in B
      BY <3>1, <3>4 DEF B
    <3>6. j < i \/ j = i
      BY <2>2, <2>3, <3>5
    <3>7. Per(p, s[j]) <= Per(p, s[i])
      BY <2>3, <2>4, <3>6, PeriodsGoUp
    <3>. QED
      BY <2>4, <3>1, <3>2, <3>7
  <2>7. Cardinality(LaterIn(M, p, s[i])) < n
    <3>1. IsFiniteSet(LaterIn(K, p, g)) /\ Cardinality(LaterIn(K, p, g)) \in Nat
      BY LaterFinite
    <3>2. IsFiniteSet(LaterIn(M, p, s[i])) /\ Cardinality(LaterIn(M, p, s[i])) \in Nat
      BY <2>4, LaterFinite DEF M
    <3>3. Cardinality(LaterIn(M, p, s[i])) <= Cardinality(LaterIn(K, p, g))
      BY <2>6, <3>1, FS_Subset
    <3>. QED
      BY <3>1, <3>2, <3>3
  <2>8. s[i] \in K
    BY <1>3, <2>4, <2>5, <2>7
  <2>9. Per(p, s[i]) \in LaterIn(K, p, g)
    BY <2>4, <2>8 DEF LaterIn
  <2>. QED
    BY <2>3, <2>9
<1>6. LaterIn(M, p, g) \subseteq LaterIn(K, p, g)
  <2>1. SUFFICES ASSUME NEW h \in M, Per(p, h) > Per(p, g), Per(p, h) \notin LaterIn(K, p, g) PROVE FALSE
    BY DEF LaterIn
  <2>2. PICK j \in 1 .. Len(s) : h = s[j]
    BY <1>1
  <2>3. j \in B
    BY <2>1, <2>2 DEF LaterIn
  <2>. QED
    BY <1>5, <2>3
<1>. QED
  BY <1>4, <1>6 DEF M

LEMMA ChosenStay ==
  ASSUME NEW rules \in [Periods -> Nat], NEW s, Timeline(s), NEW K \in SUBSET ToSet(s),
         Chosen(rules, ToSet(s)) \subseteq K
  PROVE  Chosen(rules, K) = Chosen(rules, ToSet(s))
<1>. DEFINE M == ToSet(s)
<1>1. /\ s \in Seq(Gens) /\ Len(s) \in Nat /\ M = {s[j] : j \in 1 .. Len(s)}
  BY ListIs, SetIs DEF Timeline
<1>2. ASSUME NEW g \in Chosen(rules, M)
      PROVE  g \in Chosen(rules, K)
  <2>1. PICK p \in Periods : LastIn(M, p, g) /\ Cardinality(LaterIn(M, p, g)) < rules[p]
    BY DEF Chosen
  <2>2. g \in K /\ g \in M
    BY DEF Chosen
  <2>3. LastIn(K, p, g)
    BY <2>1 DEF LastIn
  <2>4. LaterIn(K, p, g) \subseteq LaterIn(M, p, g)
    BY DEF LaterIn
  <2>. HIDE DEF M
  <2>5. /\ IsFiniteSet(LaterIn(M, p, g)) /\ Cardinality(LaterIn(M, p, g)) \in Nat
        /\ Cardinality(LaterIn(K, p, g)) \in Nat
    BY <2>2, LaterFinite DEF M
  <2>6. Cardinality(LaterIn(K, p, g)) <= Cardinality(LaterIn(M, p, g))
    BY <2>4, <2>5, FS_Subset
  <2>7. Cardinality(LaterIn(K, p, g)) < rules[p]
    BY <2>1, <2>5, <2>6
  <2>. QED
    BY <2>2, <2>3, <2>7 DEF Chosen
<1>3. ASSUME NEW g \in Chosen(rules, K)
      PROVE  g \in Chosen(rules, M)
  <2>1. PICK p \in Periods : LastIn(K, p, g) /\ Cardinality(LaterIn(K, p, g)) < rules[p]
    BY DEF Chosen
  <2>2. g \in K /\ g \in M
    BY DEF Chosen
  <2>3. \A h \in M : LastIn(M, p, h) /\ Cardinality(LaterIn(M, p, h)) < rules[p] => h \in K
    BY DEF Chosen
  <2>4. LaterIn(M, p, g) = LaterIn(K, p, g)
    BY <2>1, <2>2, <2>3, LaterStay
  <2>. DEFINE B == {i \in 1 .. Len(s) : Per(p, s[i]) = Per(p, g)}
  <2>. HIDE DEF M
  <2>5. PICK i \in B : \A j \in B : j <= i
    <3>1. B \in SUBSET (0 .. Len(s)) /\ B # {}
      BY <1>1, <2>2
    <3>. HIDE DEF B
    <3>. QED
      BY <1>1, <3>1, GreatestIs, Zenon
  <2>6. i \in 1 .. Len(s) /\ Per(p, s[i]) = Per(p, g) /\ s[i] \in M
    BY <1>1, <2>5
  <2>7. LastIn(M, p, s[i])
    <3>1. SUFFICES ASSUME NEW j \in 1 .. Len(s), Per(p, s[j]) = Per(p, s[i])
                   PROVE  s[j].id <= s[i].id
      BY <1>1 DEF LastIn
    <3>2. j \in B
      BY <2>6, <3>1
    <3>3. j < i \/ j = i
      BY <2>5, <2>6, <3>2
    <3>. QED
      BY <2>6, <3>3, PeriodsGoUp
  <2>8. LaterIn(M, p, s[i]) = LaterIn(M, p, g)
    BY <2>6 DEF LaterIn
  <2>9. s[i] \in K
    BY <2>1, <2>3, <2>4, <2>6, <2>7, <2>8
  <2>10. s[i].id <= g.id /\ g.id <= s[i].id
    BY <2>1, <2>2, <2>6, <2>7, <2>9 DEF LastIn
  <2>11. g = s[i]
    <3>1. PICK j \in 1 .. Len(s) : g = s[j]
      BY <1>1, <2>2
    <3>2. j < i \/ j = i \/ i < j
      BY <2>6
    <3>3. j = i
      BY <2>6, <2>10, <3>1, <3>2, PeriodsGoUp
    <3>. QED
      BY <3>1, <3>3
  <2>. QED
    BY <2>1, <2>2, <2>4, <2>7, <2>11 DEF Chosen
<1>. QED
  BY <1>2, <1>3

-----------------------------------------------------------------------------
(* The invariant: everything that has been made and what is left of it are *)
(* in order, and nothing that the policy wants is missing.                 *)
PolicyInv ==
  /\ keep \in [Periods -> Nat]
  /\ Timeline(made) /\ \A i \in 1 .. Len(made) : made[i].id = i
  /\ Timeline(kept) /\ ToSet(kept) \subseteq ToSet(made)
  /\ Chosen(keep, ToSet(made)) \subseteq ToSet(kept)

LEMMA TimelineGrows ==
  ASSUME NEW s, Timeline(s), NEW g \in Gens,
         \A a \in 1 .. Len(s) : s[a].id < g.id /\ s[a].time <= g.time
  PROVE  Timeline(Append(s, g)) /\ ToSet(Append(s, g)) = ToSet(s) \cup {g}
<1>. DEFINE n == Append(s, g)
<1>1. /\ s \in Seq(Gens) /\ n \in Seq(Gens) /\ Len(n) = Len(s) + 1 /\ Len(s) \in Nat
      /\ (\A a \in 1 .. Len(s) : n[a] = s[a]) /\ n[Len(s) + 1] = g
  BY AppendIs, ListIs DEF Timeline
<1>. HIDE DEF n
<1>2. DOMAIN n = 1 .. Len(n) /\ DOMAIN s = 1 .. Len(s)
  BY <1>1, ListIs
<1>3. ASSUME NEW a \in DOMAIN n, NEW b \in DOMAIN n, a < b
      PROVE  n[a].id < n[b].id /\ n[a].time <= n[b].time
  <2>1. a \in 1 .. Len(s)
    BY <1>1, <1>2, <1>3
  <2>2. CASE b \in 1 .. Len(s)
    BY <1>1, <1>2, <1>3, <2>1, <2>2 DEF Timeline
  <2>3. CASE b = Len(s) + 1
    BY <1>1, <2>1, <2>3
  <2>. QED
    BY <1>1, <1>2, <2>2, <2>3
<1>4. ToSet(n) = {n[a] : a \in 1 .. Len(n)} /\ ToSet(s) = {s[a] : a \in 1 .. Len(s)}
  BY <1>1, SetIs
<1>5. 1 .. Len(n) = 1 .. Len(s) \cup {Len(s) + 1}
  BY <1>1
<1>6. ToSet(n) = ToSet(s) \cup {g}
  BY <1>1, <1>4, <1>5
<1>. QED
  BY <1>1, <1>3, <1>6 DEF Timeline, n

(* The invariant says that match keeps what is wanted.                     *)
LEMMA KeptIsWanted ==
  ASSUME PolicyInv
  PROVE  ToSet(match(keep, kept)) = Wanted
<1>1. Chosen(keep, ToSet(made)) = Wanted
  BY DEF Chosen, LastIn, LaterIn, Per, Wanted, LastInPeriod, LaterPeriods
<1>2. Chosen(keep, ToSet(kept)) = Chosen(keep, ToSet(made))
  BY ChosenStay DEF PolicyInv
<1>. QED
  BY <1>1, <1>2, MatchIs DEF PolicyInv

LEMMA PolicyStarts ==
  ASSUME PolicyInit
  PROVE  PolicyInv
<1>1. PICK o \in Options : keep = parse(o)
  BY DEF PolicyInit
<1>2. o \in Seq(PolicyRules)
  BY PeriodsAssumption DEF PolicyRules
<1>3. \A p \in Periods : parse(o)[p] \in Nat
  BY <1>2, CountIs
<1>4. keep \in [Periods -> Nat]
  <2>1. parse(o) = [p \in Periods |-> parse(o)[p]]
    BY DEF parse
  <2>. QED
    BY <1>1, <1>3, <2>1
<1>5. made = << >> /\ kept = << >> /\ Timeline(<< >>) /\ ToSet(<< >>) = {} /\ Len(<< >>) = 0
  BY DEF PolicyInit, Timeline, ToSet
<1>. QED
  BY <1>4, <1>5 DEF PolicyInv, Chosen

LEMMA MakeGenerationKeeps ==
  ASSUME PolicyInv, NEW t \in Times, MakeGeneration(t)
  PROVE  PolicyInv'
<1>. DEFINE g == [id |-> Len(made) + 1, time |-> t]
<1>1. made' = Append(made, g) /\ kept' = Append(kept, g) /\ keep' = keep
  BY DEF MakeGeneration
<1>2. /\ made \in Seq(Gens) /\ Len(made) \in Nat /\ kept \in Seq(Gens) /\ Len(kept) \in Nat
      /\ (\A i \in 1 .. Len(made) : made[i] \in Gens)
      /\ ToSet(made) = {made[i] : i \in 1 .. Len(made)} /\ ToSet(kept) = {kept[i] : i \in 1 .. Len(kept)}
  BY ListIs, SetIs DEF PolicyInv, Timeline
<1>3. g \in Gens /\ g.id = Len(made) + 1 /\ g.time = t
  BY <1>2 DEF Gens
<1>4. ASSUME NEW i \in 1 .. Len(made)
      PROVE  made[i].id < g.id /\ made[i].time <= g.time
  <2>1. made[i].id < Len(made) + 1
    BY <1>2 DEF PolicyInv
  <2>2. made # << >> /\ Last(made) = made[Len(made)] /\ Len(made) \in 1 .. Len(made)
    BY <1>2, FrontIs
  <2>3. made[Len(made)].time <= t
    BY <2>2 DEF MakeGeneration
  <2>4. made[i].time <= made[Len(made)].time
    <3>1. i = Len(made) \/ i < Len(made)
      BY <1>2
    <3>2. DOMAIN made = 1 .. Len(made)
      BY <1>2, ListIs
    <3>3. i < Len(made) => made[i].time <= made[Len(made)].time
      BY <2>2, <3>2 DEF PolicyInv, Timeline
    <3>4. made[i].time \in Nat
      BY <1>2, PeriodsAssumption DEF Gens
    <3>. QED
      BY <3>1, <3>3, <3>4
  <2>5. made[i].time \in Nat /\ made[Len(made)].time \in Nat /\ t \in Nat
    BY <1>2, <2>2, PeriodsAssumption DEF Gens
  <2>. QED
    BY <1>3, <2>1, <2>3, <2>4, <2>5
<1>5. \A a \in 1 .. Len(kept) : kept[a].id < g.id /\ kept[a].time <= g.time
  <2>1. \A a \in 1 .. Len(kept) : kept[a] \in ToSet(made)
    BY <1>2 DEF PolicyInv
  <2>. QED
    BY <1>2, <1>4, <2>1
<1>. HIDE DEF g
<1>6. /\ Timeline(made') /\ ToSet(made') = ToSet(made) \cup {g}
      /\ Timeline(kept') /\ ToSet(kept') = ToSet(kept) \cup {g}
  BY <1>1, <1>3, <1>4, <1>5, TimelineGrows DEF PolicyInv
<1>7. \A i \in 1 .. Len(made') : made'[i].id = i
  <2>1. /\ Len(made') = Len(made) + 1 /\ made'[Len(made) + 1] = g
        /\ \A i \in 1 .. Len(made) : made'[i] = made[i]
    BY <1>1, <1>2, <1>3, AppendIs
  <2>2. \A i \in 1 .. Len(made') : i \in 1 .. Len(made) \/ i = Len(made) + 1
    BY <1>2, <2>1
  <2>. QED
    BY <1>3, <2>1, <2>2 DEF PolicyInv
<1>8. ASSUME NEW h \in Chosen(keep, ToSet(made'))
      PROVE  h \in ToSet(kept')
  <2>1. SUFFICES ASSUME h # g PROVE h \in Chosen(keep, ToSet(made))
    BY <1>6 DEF PolicyInv
  <2>2. PICK p \in Periods :
          LastIn(ToSet(made'), p, h) /\ Cardinality(LaterIn(ToSet(made'), p, h)) < keep[p]
    BY DEF Chosen
  <2>3. h \in ToSet(made) /\ h \in ToSet(made') /\ ToSet(made) \subseteq ToSet(made')
    BY <1>6, <2>1 DEF Chosen
  <2>4. LastIn(ToSet(made), p, h)
    BY <2>2, <2>3 DEF LastIn
  <2>5. LaterIn(ToSet(made), p, h) \subseteq LaterIn(ToSet(made'), p, h)
    BY <2>3 DEF LaterIn
  <2>6. /\ IsFiniteSet(LaterIn(ToSet(made'), p, h)) /\ Cardinality(LaterIn(ToSet(made'), p, h)) \in Nat
        /\ Cardinality(LaterIn(ToSet(made), p, h)) \in Nat
    BY <1>6, <2>3, LaterFinite DEF PolicyInv
  <2>7. Cardinality(LaterIn(ToSet(made), p, h)) <= Cardinality(LaterIn(ToSet(made'), p, h))
    BY <2>5, <2>6, FS_Subset
  <2>8. Cardinality(LaterIn(ToSet(made), p, h)) < keep[p]
    BY <2>2, <2>6, <2>7 DEF PolicyInv
  <2>. QED
    BY <2>3, <2>4, <2>8 DEF Chosen
<1>9. ToSet(kept') \subseteq ToSet(made')
  BY <1>6 DEF PolicyInv
<1>. QED
  BY <1>1, <1>6, <1>7, <1>8, <1>9 DEF PolicyInv

LEMMA forget_some_keeps ==
  ASSUME PolicyInv, NEW n \in 1 .. MaxMade, forget_some(n)
  PROVE  PolicyInv'
<1>. DEFINE chosen == Only(choose_genids_to_remove, kept)
            gone   == ToSet(SubSeq(chosen, 1, n))
<1>1. keep' = keep /\ made' = made /\ kept' = Only(ToSet(kept) \ gone, kept)
  BY DEF forget_some
<1>2. /\ Timeline(chosen) /\ ToSet(chosen) = ToSet(kept) \cap choose_genids_to_remove
      /\ chosen \in Seq(Gens) /\ Len(chosen) \in Nat /\ ToSet(chosen) = {chosen[i] : i \in 1 .. Len(chosen)}
  BY OnlyIs, ListIs, SetIs DEF PolicyInv, Timeline
<1>. HIDE DEF chosen
<1>3. n \in Nat /\ n >= 1 /\ n <= Len(chosen)
  <2>1. ToSet(chosen) = choose_genids_to_remove
    BY <1>2 DEF choose_genids_to_remove
  <2>. DEFINE f == [i \in 1 .. Len(chosen) |-> chosen[i]]
  <2>2. f \in Surjection(1 .. Len(chosen), ToSet(chosen))
    BY <1>2 DEF Surjection
  <2>3. ExistsSurjection(1 .. Len(chosen), ToSet(chosen))
    BY <2>2 DEF ExistsSurjection
  <2>4. IsFiniteSet(1 .. Len(chosen))
    <3>1. 1 \in Int /\ Len(chosen) \in Int
      BY <1>2
    <3>. QED
      BY <3>1, FS_Interval
  <2>5. IsFiniteSet(ToSet(chosen))
    BY <2>2, <2>4, FS_Surjection
  <2>6. Cardinality(ToSet(chosen)) <= Len(chosen) /\ Cardinality(ToSet(chosen)) \in Nat
    BY <1>2, <2>3, <2>5, FS_SurjCardinalityBound, FS_CardinalityType
  <2>7. n \in 1 .. Cardinality(ToSet(chosen))
    BY <2>1 DEF forget_some
  <2>. QED
    BY <1>2, <2>6, <2>7
<1>4. gone \subseteq choose_genids_to_remove
  <2>1. \A i \in 1 .. n : SubSeq(chosen, 1, n)[i] \in ToSet(chosen)
    BY <1>2, <1>3
  <2>2. SubSeq(chosen, 1, n) \in Seq(Gens) /\ Len(SubSeq(chosen, 1, n)) = n
    BY <1>2, <1>3
  <2>. DEFINE t == SubSeq(chosen, 1, n)
  <2>. HIDE DEF t
  <2>3. ToSet(t) = {t[i] : i \in 1 .. n}
    BY <2>2, SetIs DEF t
  <2>4. \A i \in 1 .. n : t[i] \in choose_genids_to_remove
    BY <1>2, <2>1 DEF t
  <2>5. gone = ToSet(t)
    BY DEF t
  <2>. QED
    BY <2>3, <2>4, <2>5
<1>5. gone \cap Wanted = {}
  BY <1>4, KeptIsWanted DEF choose_genids_to_remove
<1>. HIDE DEF gone
<1>6. Timeline(kept') /\ ToSet(kept') = ToSet(kept) \cap (ToSet(kept) \ gone)
  BY <1>1, OnlyIs DEF PolicyInv
<1>7. Chosen(keep, ToSet(made)) = Wanted
  BY DEF Chosen, LastIn, LaterIn, Per, Wanted, LastInPeriod, LaterPeriods
<1>. QED
  BY <1>1, <1>5, <1>6, <1>7 DEF PolicyInv

(* Whatever the rules, the clock and the periods, and wherever forgets     *)
(* die: what forget keeps of the generations that are left is what the     *)
(* policy wants of all that there have been.                               *)
THEOREM PolicyHolds == PolicySpec => []PolicyIsKept
<1>1. PolicyInit => PolicyInv
  BY PolicyStarts
<1>2. PolicyInv /\ [PolicyNext]_policyVars => PolicyInv'
  <2>1. ASSUME PolicyInv, PolicyNext PROVE PolicyInv'
    BY <2>1, MakeGenerationKeeps, forget_some_keeps DEF PolicyNext
  <2>2. ASSUME PolicyInv, UNCHANGED policyVars PROVE PolicyInv'
    BY <2>2 DEF PolicyInv, policyVars
  <2>. QED
    BY <2>1, <2>2
<1>3. PolicyInv => PolicyIsKept
  BY KeptIsWanted DEF PolicyIsKept
<1>. QED
  BY <1>1, <1>2, <1>3, PTL DEF PolicySpec
-----------------------------------------------------------------------------
(* What restore writes                                                     *)

(* The file while restore_chunks writes it: after i chunks, all of them or *)
(* all up to zeroes that are a hole at the end.                            *)
OpenFiles == [data : Seq(Nat), pos : Nat, hole : BOOLEAN]

HasWrittenChunks(f, cs, i) ==
  /\ f \in OpenFiles /\ f.pos = i /\ Len(f.data) <= i
  /\ \A j \in 1 .. i : store[cs[j]] = IF j <= Len(f.data) THEN f.data[j] ELSE Zero
  /\ f.hole <=> Len(f.data) < i

LEMMA NumbersIn ==
  ASSUME NEW n \in Nat, NEW f, DOMAIN f = 1 .. n, f = [i \in 1 .. n |-> f[i]],
         \A i \in 1 .. n : f[i] \in Nat
  PROVE  f \in Seq(Nat) /\ Len(f) = n
  OBVIOUS

IsLonger(w, f, byte, m) ==
  /\ w \in OpenFiles /\ w.pos = f.pos + 1 /\ w.hole = FALSE
  /\ Len(w.data) = m /\ DOMAIN w.data = 1 .. m
  /\ \A j \in 1 .. m : w.data[j] = IF j = f.pos + 1 THEN byte
                                   ELSE IF j <= Len(f.data) THEN f.data[j] ELSE Zero

LEMMA WriteIs ==
  ASSUME NEW f \in OpenFiles, NEW byte \in Nat, f.pos >= Len(f.data)
  PROVE  IsLonger(Write(f, byte), f, byte, f.pos + 1)
<1>. DEFINE m == f.pos + 1
            w == Write(f, byte)
            d == [i \in 1 .. m |-> IF i = f.pos + 1 THEN byte
                                   ELSE IF i <= Len(f.data) THEN f.data[i] ELSE Zero]
<1>1. f.data \in Seq(Nat) /\ f.pos \in Nat /\ Len(f.data) \in Nat
  BY DEF OpenFiles
<1>2. m \in Nat
  BY <1>1
<1>3. w = [data |-> d, pos |-> f.pos + 1, hole |-> FALSE]
  <2>1. (IF f.pos < Len(f.data) THEN Len(f.data) ELSE f.pos + 1) = m
    BY <1>1
  <2>. QED
    BY <2>1, Zenon DEF Write
<1>4. ASSUME NEW j \in 1 .. m
      PROVE  d[j] \in Nat
  BY <1>1, <1>2 DEF Zero
<1>5. \A j \in 1 .. m : d[j] = IF j = f.pos + 1 THEN byte
                               ELSE IF j <= Len(f.data) THEN f.data[j] ELSE Zero
  OBVIOUS
<1>6. DOMAIN d = 1 .. m /\ d = [i \in 1 .. m |-> d[i]]
  OBVIOUS
<1>. HIDE DEF m, d, w
<1>7. d \in Seq(Nat) /\ Len(d) = m
  BY <1>2, <1>4, <1>6, NumbersIn, Zenon
<1>8. w \in OpenFiles
  BY <1>1, <1>3, <1>7 DEF OpenFiles
<1>9. w.data = d /\ w.pos = f.pos + 1 /\ w.hole = FALSE
  BY <1>3
<1>10. IsLonger(w, f, byte, m)
  BY <1>5, <1>6, <1>7, <1>8, <1>9 DEF IsLonger
<1>. QED
  BY <1>10, Zenon DEF m, w

LEMMA WriteInFiles ==
  ASSUME NEW f \in OpenFiles, NEW byte \in Nat
  PROVE  Write(f, byte) \in OpenFiles
<1>. DEFINE m == IF f.pos < Len(f.data) THEN Len(f.data) ELSE f.pos + 1
            d == [i \in 1 .. m |-> IF i = f.pos + 1 THEN byte
                                   ELSE IF i <= Len(f.data) THEN f.data[i] ELSE Zero]
<1>1. f.data \in Seq(Nat) /\ f.pos \in Nat /\ Len(f.data) \in Nat
  BY DEF OpenFiles
<1>2. m \in Nat
  BY <1>1
<1>3. Write(f, byte) = [data |-> d, pos |-> f.pos + 1, hole |-> FALSE]
  BY DEF Write
<1>4. ASSUME NEW j \in 1 .. m
      PROVE  d[j] \in Nat
  BY <1>1, <1>2 DEF Zero
<1>5. DOMAIN d = 1 .. m /\ d = [i \in 1 .. m |-> d[i]]
  OBVIOUS
<1>. HIDE DEF m, d
<1>6. d \in Seq(Nat)
  BY <1>2, <1>4, <1>5, NumbersIn, Zenon
<1>. QED
  BY <1>1, <1>3, <1>6 DEF OpenFiles

LEMMA SeekIs ==
  ASSUME NEW f \in OpenFiles
  PROVE  Seek(f) \in OpenFiles /\ Seek(f).data = f.data /\ Seek(f).pos = f.pos + 1
         /\ Seek(f).hole = TRUE
  BY DEF Seek, OpenFiles

(* The states of the file along the chunks.                                *)
IsReadable(cs, k) ==
  k \in Nat /\ DOMAIN cs = 1 .. k /\ \A i \in 1 .. k : store[cs[i]] \in Nat

ChunkPath(L, cs, k) ==
  /\ L \in [0 .. k -> OpenFiles] /\ L[0] = NewFile /\ write_chunks(cs) = L[k]
  /\ \A i \in 1 .. k : L[i] = restore_chunk(L[i - 1], cs[i])

LEMMA ChunksGo ==
  ASSUME NEW k, NEW cs, IsReadable(cs, k)
  PROVE  \E L : ChunkPath(L, cs, k)
<1>. k \in Nat /\ DOMAIN cs = 1 .. k /\ \A i \in 1 .. k : store[cs[i]] \in Nat
  BY DEF IsReadable
<1>. DEFINE X == OpenFiles
            body(it) == [t \in SUBSET DOMAIN cs |->
                           IF t = {} THEN NewFile ELSE restore_chunk(it[t \ {Max(t)}], cs[Max(t)])]
            iter == CHOOSE it : it = body(it)
            G == [i \in 1 .. k |-> [m \in X |-> restore_chunk(m, cs[i])]]
<1>1. NewFile \in X
  <2>1. << >> \in Seq(Nat)
    OBVIOUS
  <2>. QED
    BY <2>1 DEF NewFile, OpenFiles
<1>2. write_chunks(cs) = iter[DOMAIN cs]
  BY DEF write_chunks, FoldLeft, MapThenFoldSet
<1>3. ASSUME NEW m \in X, NEW i \in 1 .. k
      PROVE  restore_chunk(m, cs[i]) \in X
  <2>1. store[cs[i]] \in Nat
    OBVIOUS
  <2>. QED
    BY <2>1, WriteInFiles, SeekIs DEF restore_chunk
<1>. HIDE DEF X
<1>4. G \in [1 .. k -> [X -> X]]
  BY <1>3
<1>5. ASSUME NEW m \in X, NEW i \in 1 .. k
      PROVE  G[i][m] = restore_chunk(m, cs[i])
  OBVIOUS
<1>. HIDE DEF G
<1>6. \E it : it = body(it)
  <2>1. PICK it : FoldValues(X, NewFile, k, G, it)
    <3>1. FoldsOver(X, NewFile, k, G)
      BY <1>1, <1>4 DEF FoldsOver
    <3>. QED
      BY <3>1, FoldUnfolds, Zenon
  <2>2. ASSUME NEW t \in SUBSET (1 .. k), t # {}
        PROVE  Max(t) \in 1 .. k /\ it[t \ {Max(t)}] \in X
    <3>1. t \in SUBSET (0 .. k)
      OBVIOUS
    <3>2. Max(t) \in t
      BY <2>2, <3>1, MaxIn, Zenon
    <3>. QED
      BY <2>1, <3>2 DEF FoldValues
  <2>3. ASSUME NEW t \in SUBSET (1 .. k)
        PROVE  it[t] = IF t = {} THEN NewFile ELSE restore_chunk(it[t \ {Max(t)}], cs[Max(t)])
    BY <2>1, <2>2, <1>5 DEF FoldValues
  <2>4. it = [t \in SUBSET (1 .. k) |-> it[t]]
    BY <2>1 DEF FoldValues
  <2>5. it = body(it)
    BY <2>3, <2>4
  <2>. HIDE DEF body
  <2>. QED
    BY <2>5
<1>7. \A t \in SUBSET (1 .. k) :
        iter[t] = IF t = {} THEN NewFile ELSE restore_chunk(iter[t \ {Max(t)}], cs[Max(t)])
  BY <1>6
<1>. HIDE DEF iter, body
<1>8. iter[{}] = NewFile
  BY <1>7
<1>9. ASSUME NEW t \in SUBSET (1 .. k), t # {}, iter[t \ {Max(t)}] \in X
      PROVE  iter[t] = G[Max(t)][iter[t \ {Max(t)}]]
  <2>1. t \in SUBSET (0 .. k)
    OBVIOUS
  <2>2. Max(t) \in 1 .. k
    BY <1>9, <2>1, MaxIn
  <2>. QED
    BY <1>5, <1>7, <1>9, <2>2
<1>10. PICK L : FoldPath(X, NewFile, k, G, iter[1 .. k], L)
  <2>1. FoldPassesBy(X, NewFile, k, G, iter)
    BY <1>1, <1>4, <1>8, <1>9 DEF FoldPassesBy, FoldsOver
  <2>. QED
    BY <2>1, FoldGoes, Zenon
<1>11. ASSUME NEW i \in 1 .. k
       PROVE  L[i] = restore_chunk(L[i - 1], cs[i])
  <2>1. i - 1 \in 0 .. k
    OBVIOUS
  <2>. QED
    BY <1>5, <1>10, <2>1 DEF FoldPath
<1>. QED
  BY <1>2, <1>10, <1>11 DEF FoldPath, X, ChunkPath

LEMMA RestoresData ==
  ASSUME NEW k, NEW cs, IsReadable(cs, k)
  PROVE  restore_chunks(cs) = Contents(cs)
<1>. k \in Nat /\ DOMAIN cs = 1 .. k /\ \A i \in 1 .. k : store[cs[i]] \in Nat
  BY DEF IsReadable
<1>0. PICK L : ChunkPath(L, cs, k)
  BY ChunksGo, Zenon
<1>1. /\ L \in [0 .. k -> OpenFiles] /\ L[0] = NewFile /\ write_chunks(cs) = L[k]
      /\ \A i \in 1 .. k : L[i] = restore_chunk(L[i - 1], cs[i])
  BY <1>0 DEF ChunkPath
<1>. DEFINE A == {i \in 0 .. k : HasWrittenChunks(L[i], cs, i)}
<1>2. 0 \in A
  <2>1. 0 \in 0 .. k /\ 1 .. 0 = {}
    OBVIOUS
  <2>2. L[0] \in OpenFiles /\ L[0].data = << >> /\ L[0].pos = 0 /\ L[0].hole = FALSE
    <3>1. L[0] \in OpenFiles /\ L[0] = NewFile
      BY <1>1, <2>1
    <3>. QED
      BY <3>1 DEF NewFile
  <2>3. Len(L[0].data) = 0
    BY <2>2
  <2>4. HasWrittenChunks(L[0], cs, 0)
    BY <2>1, <2>2, <2>3 DEF HasWrittenChunks
  <2>. QED
    BY <2>1, <2>4
<1>3. ASSUME NEW i \in 1 .. k, i - 1 \in A
      PROVE  i \in A
  <2>. DEFINE f == L[i - 1]
              new == L[i]
              c == store[cs[i]]
  <2>1. i - 1 \in 0 .. k /\ i \in 0 .. k /\ i \in Nat /\ i - 1 \in Nat /\ (i - 1) + 1 = i
    OBVIOUS
  <2>2. HasWrittenChunks(f, cs, i - 1)
    BY <1>3
  <2>3. new = restore_chunk(f, cs[i])
    BY <1>1
  <2>4. c \in Nat
    OBVIOUS
  <2>. HIDE DEF f, new
  <2>5. /\ f \in OpenFiles /\ f.pos = i - 1 /\ Len(f.data) <= i - 1 /\ Len(f.data) \in Nat
        /\ \A j \in 1 .. (i - 1) : store[cs[j]] = IF j <= Len(f.data) THEN f.data[j] ELSE Zero
    <3>1. /\ f \in OpenFiles /\ f.pos = i - 1 /\ Len(f.data) <= i - 1
          /\ \A j \in 1 .. (i - 1) : store[cs[j]] = IF j <= Len(f.data) THEN f.data[j] ELSE Zero
      BY <2>2, Zenon DEF HasWrittenChunks
    <3>2. Len(f.data) \in Nat
      BY <3>1 DEF OpenFiles
    <3>. QED
      BY <3>1, <3>2, Zenon
  <2>6. CASE c = Zero
    <3>1. new = Seek(f)
      BY <2>3, <2>6 DEF restore_chunk
    <3>2. new \in OpenFiles /\ new.data = f.data /\ new.pos = i /\ new.hole = TRUE
      BY <2>1, <2>5, <3>1, SeekIs
    <3>3. ASSUME NEW j \in 1 .. i
          PROVE  store[cs[j]] = IF j <= Len(f.data) THEN f.data[j] ELSE Zero
      <4>1. CASE j = i
        BY <2>1, <2>5, <2>6, <4>1
      <4>2. CASE j # i
        BY <2>1, <2>5, <4>2
      <4>. QED
        BY <4>1, <4>2
    <3>4. HasWrittenChunks(new, cs, i)
      BY <2>1, <2>5, <3>2, <3>3 DEF HasWrittenChunks
    <3>. QED
      BY <2>1, <3>4 DEF new
  <2>7. CASE c # Zero
    <3>1. new = Write(f, c)
      BY <2>3, <2>7 DEF restore_chunk
    <3>2. f.pos >= Len(f.data) /\ f.pos + 1 = i
      BY <2>1, <2>5
    <3>3. /\ new \in OpenFiles /\ new.pos = i /\ new.hole = FALSE /\ Len(new.data) = i
          /\ \A j \in 1 .. i : new.data[j] = IF j = i THEN c
                                            ELSE IF j <= Len(f.data) THEN f.data[j] ELSE Zero
      <4>. HIDE DEF c
      <4>1. IsLonger(new, f, c, i)
        BY <2>4, <2>5, <3>1, <3>2, WriteIs
      <4>. QED
        BY <3>2, <4>1 DEF IsLonger
    <3>4. ASSUME NEW j \in 1 .. i
          PROVE  store[cs[j]] = new.data[j]
      <4>1. CASE j = i
        BY <3>3, <4>1
      <4>2. CASE j # i
        <5>1. j \in 1 .. (i - 1)
          BY <2>1, <4>2
        <5>2. new.data[j] = IF j <= Len(f.data) THEN f.data[j] ELSE Zero
          BY <3>3, <4>2
        <5>. QED
          BY <2>5, <5>1, <5>2
      <4>. QED
        BY <4>1, <4>2
    <3>5. HasWrittenChunks(new, cs, i)
      BY <2>1, <3>3, <3>4 DEF HasWrittenChunks
    <3>. QED
      BY <2>1, <3>5 DEF new
  <2>. QED
    BY <2>6, <2>7
<1>. HIDE DEF A
<1>4. 0 .. k \subseteq A
  BY <1>2, <1>3, Induction, Zenon
<1>. DEFINE done == write_chunks(cs)
<1>5. HasWrittenChunks(done, cs, k)
  BY <1>1, <1>4 DEF A
<1>. HIDE DEF done
<1>6. /\ done \in OpenFiles /\ done.pos = k /\ Len(done.data) \in Nat /\ Len(done.data) <= k
      /\ done.data \in Seq(Nat)
      /\ \A j \in 1 .. k : store[cs[j]] = IF j <= Len(done.data) THEN done.data[j] ELSE Zero
      /\ done.hole <=> Len(done.data) < k
  BY <1>5 DEF HasWrittenChunks, OpenFiles
<1>7. Contents(cs) = [i \in 1 .. k |-> store[cs[i]]]
  BY DEF Contents
<1>8. CASE done.hole
  <2>. DEFINE back == [done EXCEPT !.pos = @ - 1]
              w == Write(back, Zero)
  <2>1. done = [data |-> done.data, pos |-> done.pos, hole |-> done.hole] /\ k > 0 /\ Len(done.data) <= k - 1
    BY <1>6, <1>8 DEF OpenFiles
  <2>2. back = [data |-> done.data, pos |-> k - 1, hole |-> done.hole]
    BY <1>6, <2>1
  <2>3. back \in OpenFiles /\ back.data = done.data /\ back.pos = k - 1
    BY <1>6, <2>1, <2>2 DEF OpenFiles
  <2>4. restore_chunks(cs) = w.data
    BY <1>6, <1>8, <2>1 DEF restore_chunks, done
  <2>. HIDE DEF back, w
  <2>5. back.pos >= Len(back.data) /\ back.pos + 1 = k
    BY <1>6, <2>1, <2>3
  <2>6. /\ w \in OpenFiles /\ Len(w.data) = k /\ DOMAIN w.data = 1 .. k
        /\ \A j \in 1 .. k : w.data[j] = IF j = k THEN Zero
                                          ELSE IF j <= Len(back.data) THEN back.data[j] ELSE Zero
    <3>1. Zero \in Nat
      BY DEF Zero
    <3>2. IsLonger(w, back, Zero, k)
      BY <2>3, <2>5, <3>1, WriteIs DEF w
    <3>. QED
      BY <2>5, <3>2 DEF IsLonger
  <2>7. \A j \in 1 .. k : w.data[j] = store[cs[j]]
    BY <1>6, <2>1, <2>3, <2>6
  <2>8. w.data = [j \in 1 .. k |-> w.data[j]]
    BY <2>6 DEF OpenFiles
  <2>. QED
    BY <1>7, <2>4, <2>7, <2>8
<1>9. CASE ~done.hole
  <2>1. Len(done.data) = k
    BY <1>6, <1>9
  <2>2. \A j \in 1 .. k : done.data[j] = store[cs[j]]
    BY <1>6, <2>1
  <2>3. done.data = [j \in 1 .. k |-> done.data[j]]
    BY <1>6, <2>1
  <2>4. restore_chunks(cs) = done.data
    BY <1>9 DEF restore_chunks, done
  <2>. QED
    BY <1>7, <2>2, <2>3, <2>4
<1>. QED
  BY <1>8, <1>9

-----------------------------------------------------------------------------
(* Restore walks a generation upwards                                      *)

Files  == DOMAIN gens[gen].files
Walked == Files \ todo

(* The chunks and the makedirs of restore.                                 *)
LEMMA AncestorsAre ==
  /\ Ancestors[Top] = {}
  /\ \A p \in DOMAIN DirOf \ {Top} : Ancestors[p] = {DirOf[p]} \cup Ancestors[DirOf[p]]
<1>. DEFINE D == DOMAIN DirOf
            under(p) == {d \in D : IsUnder(p, d)}
            F == [p \in D |-> IF p = Top THEN {} ELSE under(DirOf[p])]
<1>1. Top \in D /\ \A p \in D : DirOf[p] \in D
  BY PathsAssumption
<1>2. ASSUME NEW p \in D, p # Top
      PROVE  under(p) = {p} \cup under(DirOf[p])
  <2>1. p \in under(p)
    BY DEF IsUnder
  <2>2. ASSUME NEW d \in D, IsUnder(DirOf[p], d)
        PROVE  IsUnder(p, d)
    BY <1>2, <2>2 DEF IsUnder, Upwards
  <2>3. ASSUME NEW d \in D, IsUnder(p, d)
        PROVE  d \in {p} \cup under(DirOf[p])
    <3>. DEFINE S == {p} \cup under(DirOf[p])
    <3>1. ASSUME NEW q \in S, q # Top
          PROVE  DirOf[q] \in S
      <4>1. CASE q = p
        BY <1>1, <4>1 DEF IsUnder
      <4>2. CASE q # p
        <5>1. q \in D /\ IsUnder(DirOf[p], q) /\ DirOf[q] \in D
          BY <1>1, <4>2
        <5>2. IsUnder(DirOf[p], DirOf[q])
          BY <3>1, <5>1 DEF IsUnder, Upwards
        <5>. QED
          BY <5>1, <5>2
      <4>. QED
        BY <4>1, <4>2
    <3>2. Upwards(S) /\ S \in SUBSET D /\ p \in S
      BY <3>1 DEF Upwards
    <3>. HIDE DEF S
    <3>3. d \in S
      BY <2>3, <3>2 DEF IsUnder
    <3>. QED
      BY <3>3 DEF S
  <2>. QED
    BY <2>1, <2>2, <2>3
<1>3. under(Top) = {Top}
  <2>1. Upwards({Top}) /\ {Top} \in SUBSET D
    BY <1>1 DEF Upwards
  <2>2. Top \in under(Top)
    BY <1>1 DEF IsUnder
  <2>3. \A d \in under(Top) : d \in {Top}
    BY <2>1 DEF IsUnder
  <2>. QED
    BY <2>2, <2>3
<1>4. ASSUME NEW p \in D
      PROVE  F[p] = IF p = Top THEN {} ELSE {DirOf[p]} \cup F[DirOf[p]]
  <2>1. CASE p = Top
    BY <2>1
  <2>2. CASE p # Top /\ DirOf[p] = Top
    BY <1>1, <1>3, <2>2
  <2>3. CASE p # Top /\ DirOf[p] # Top
    <3>1. F[p] = under(DirOf[p]) /\ F[DirOf[p]] = under(DirOf[DirOf[p]])
      BY <1>1, <2>3
    <3>. QED
      BY <1>1, <1>2, <2>3, <3>1
  <2>. QED
    BY <2>1, <2>2, <2>3
<1>5. F = [p \in D |-> IF p = Top THEN {} ELSE {DirOf[p]} \cup F[DirOf[p]]]
  BY <1>4
<1>. HIDE DEF F
<1>6. \E f : f = [p \in D |-> IF p = Top THEN {} ELSE {DirOf[p]} \cup f[DirOf[p]]]
  BY <1>5
<1>7. Ancestors = [p \in D |-> IF p = Top THEN {} ELSE {DirOf[p]} \cup Ancestors[DirOf[p]]]
  BY <1>6 DEF Ancestors
<1>. QED
  BY <1>1, <1>7

(* What has not been walked is closed upwards, so are the directories that *)
(* are made.                                                               *)
LEMMA AncestorsWait ==
  ASSUME NEW S \in SUBSET DOMAIN DirOf, Upwards(S), NEW p \in S
  PROVE  Ancestors[p] \subseteq S
<1>. DEFINE Bad == {q \in S : ~(Ancestors[q] \subseteq S)}
<1>1. Top \notin Bad
  BY AncestorsAre
<1>2. ASSUME NEW q \in Bad, q # Top
      PROVE  DirOf[q] \in Bad
  <2>1. DirOf[q] \in S
    BY <1>2 DEF Upwards
  <2>2. Ancestors[q] = {DirOf[q]} \cup Ancestors[DirOf[q]]
    BY <1>2, AncestorsAre
  <2>. QED
    BY <2>1, <2>2
<1>3. Upwards(Bad) /\ Bad \in SUBSET DOMAIN DirOf
  BY <1>2 DEF Upwards
<1>. HIDE DEF Bad
<1>4. ASSUME p \in Bad
      PROVE  FALSE
  BY <1>1, <1>3, <1>4, PathsAssumption
<1>. QED
  BY <1>4 DEF Bad

(* The walk is at the directories last.                                    *)
WalkFits ==
  /\ gen \in DOMAIN gens /\ todo \subseteq Files /\ Upwards(todo)
  /\ Top \in DOMAIN names

LEMMA FilesAre ==
  ASSUME Kept, WalkFits
  PROVE  /\ IsTree(gens[gen].files) /\ Files \subseteq DOMAIN DirOf /\ IsFiniteSet(Files)
         /\ \A p \in Files : p \in RegularFiles(gen) <=> Entry(p).kind = "file"
         /\ RegularFiles(gen) \subseteq Files /\ Top \notin RegularFiles(gen)
<1>1. IsTree(gens[gen].files)
  BY DEF Kept, WalkFits
<1>2. Files \subseteq DOMAIN DirOf /\ Entry(Top).kind = "dir"
  BY <1>1 DEF IsTree, Files, Entry
<1>3. IsFiniteSet(Files)
  BY <1>2, FS_Subset, PathsAssumption
<1>. QED
  BY <1>1, <1>2, <1>3 DEF RegularFiles, Entry, Files

(* Nothing that has been walked is touched again.                          *)
LEMMA WalkedStay ==
  ASSUME Kept, WalkFits, NEW p \in todo, NEW l \in DOMAIN inodes \ todo
  PROVE  /\ l \in DOMAIN Directories(p) /\ Directories(p)[l] = inodes[l]
         /\ p # Top => /\ l \in DOMAIN Touched(Directories(p), {DirOf[p]})
                       /\ Touched(Directories(p), {DirOf[p]})[l] = inodes[l]
<1>1. todo \in SUBSET DOMAIN DirOf /\ Upwards(todo)
  BY FilesAre DEF WalkFits
<1>2. MissingDirs(p) \subseteq todo \ {Top}
  BY <1>1, AncestorsWait DEF MissingDirs, Exists, WalkFits
<1>3. l \notin MissingDirs(p) /\ l \notin {DirOf[d] : d \in MissingDirs(p)}
  BY <1>1, <1>2 DEF Upwards
<1>4. l \in DOMAIN Directories(p) /\ Directories(p)[l] = inodes[l]
  BY <1>3 DEF Directories, Touched
<1>5. p # Top => l # DirOf[p]
  BY <1>1 DEF Upwards
<1>. QED
  BY <1>4, <1>5 DEF Touched

(* A step that walks p: the name p is made, for the inode n.               *)
Makes(p, n) ==
  /\ command = "restore" /\ todo' = todo \ {p}
  /\ UNCHANGED <<gens, store, damage, command, gen, result>>
  /\ DOMAIN names \subseteq DOMAIN names' /\ p \in DOMAIN names' /\ names'[p] = n
  /\ \A q \in DOMAIN names \ {p} : names'[q] = names[q]
  /\ \A l \in DOMAIN inodes \ todo : l \in DOMAIN inodes' /\ inodes'[l] = inodes[l]

(* A step that writes an inode too.                                        *)
MakesNew(p, kind, mtime, data) ==
  /\ Makes(p, p) /\ p \in DOMAIN inodes'
  /\ inodes'[p] = [kind |-> kind, data |-> data, mtime |-> mtime]

LEMMA NamesPut ==
  ASSUME NEW p, NEW n, names' = Put(DirNames(p), p, n)
  PROVE  /\ DOMAIN names \subseteq DOMAIN names' /\ p \in DOMAIN names' /\ names'[p] = n
         /\ \A q \in DOMAIN names \ {p} : names'[q] = names[q]
<1>1. DOMAIN names \subseteq DOMAIN DirNames(p) /\ \A q \in DOMAIN names : DirNames(p)[q] = names[q]
  BY DEF DirNames
<1>2. PICK f : f = DirNames(p)
  OBVIOUS
<1>3. PICK new : new = Put(f, p, n)
  OBVIOUS
<1>4. DOMAIN new = DOMAIN f \cup {p} /\ new[p] = n /\ \A j \in DOMAIN f \ {p} : new[j] = f[j]
  BY <1>3 DEF Put
<1>5. new = names'
  BY <1>2, <1>3
<1>. QED
  BY <1>1, <1>2, <1>4, <1>5

LEMMA InodesPut ==
  ASSUME Kept, WalkFits, NEW p \in todo, NEW f, NEW v, inodes' = Put(f, p, v),
         f = Directories(p) \/ (p # Top /\ f = Touched(Directories(p), {DirOf[p]}))
  PROVE  /\ \A l \in DOMAIN inodes \ todo : l \in DOMAIN inodes' /\ inodes'[l] = inodes[l]
         /\ p \in DOMAIN inodes' /\ inodes'[p] = v
<1>1. \A l \in DOMAIN inodes \ todo : l \in DOMAIN f /\ f[l] = inodes[l]
  BY WalkedStay
<1>2. PICK new : new = Put(f, p, v)
  OBVIOUS
<1>3. DOMAIN new = DOMAIN f \cup {p} /\ new[p] = v /\ \A j \in DOMAIN f \ {p} : new[j] = f[j]
  BY <1>2 DEF Put
<1>. QED
  BY <1>1, <1>2, <1>3

LEMMA NewIsMade ==
  ASSUME Kept, WalkFits, NEW p \in todo, NEW kind, NEW mtime, NEW data, NEW f,
         f = Directories(p) \/ (p # Top /\ f = Touched(Directories(p), {DirOf[p]})),
         inodes' = Put(f, p, [kind |-> kind, data |-> data, mtime |-> mtime]),
         names' = Put(DirNames(p), p, p), todo' = todo \ {p}, command = "restore",
         UNCHANGED <<gens, store, damage, command, gen, result>>
  PROVE  MakesNew(p, kind, mtime, data)
<1>1. /\ DOMAIN names \subseteq DOMAIN names' /\ p \in DOMAIN names' /\ names'[p] = p
      /\ \A q \in DOMAIN names \ {p} : names'[q] = names[q]
  BY NamesPut
<1>2. /\ \A l \in DOMAIN inodes \ todo : l \in DOMAIN inodes' /\ inodes'[l] = inodes[l]
      /\ p \in DOMAIN inodes' /\ inodes'[p] = [kind |-> kind, data |-> data, mtime |-> mtime]
  BY InodesPut
<1>. QED
  BY <1>1, <1>2 DEF MakesNew, Makes

LEMMA DirMakes ==
  ASSUME Kept, WalkFits, NEW p \in todo, restore_dir(p)
  PROVE  /\ MakesNew(p, "dir", Entry(p).mtime, << >>) /\ Entry(p).kind = "dir"
         /\ UNCHANGED <<links, failed>>
<1>1. p = Top => Exists(p)
  BY DEF Exists, WalkFits
<1>. DEFINE f == IF Exists(p) THEN Directories(p) ELSE Touched(Directories(p), {DirOf[p]})
<1>2. f = Directories(p) \/ (p # Top /\ f = Touched(Directories(p), {DirOf[p]}))
  <2>1. CASE Exists(p)
    BY <2>1 DEF Exists
  <2>2. CASE ~Exists(p)
    BY <1>1, <2>2 DEF Exists
  <2>. QED
    BY <2>1, <2>2
<1>3. /\ inodes' = Put(f, p, [kind |-> "dir", data |-> << >>, mtime |-> Entry(p).mtime])
      /\ names' = Put(DirNames(p), p, p) /\ todo' = todo \ {p} /\ command = "restore"
      /\ UNCHANGED <<gens, store, damage, command, gen, result>>
      /\ UNCHANGED <<links, failed>> /\ Entry(p).kind = "dir"
  BY DEF restore_dir, restVars
<1>. HIDE DEF f
<1>. QED
  BY <1>2, <1>3, NewIsMade

LEMMA SymlinkMakes ==
  ASSUME Kept, WalkFits, NEW p \in todo, restore_symlink(p)
  PROVE  /\ MakesNew(p, "symlink", Entry(p).mtime, << >>) /\ Entry(p).kind = "symlink"
         /\ UNCHANGED <<links, failed>>
<1>1. p # Top
  BY FilesAre DEF restore_symlink, IsTree, Entry
<1>2. /\ inodes' = Put(Touched(Directories(p), {DirOf[p]}), p,
                       [kind |-> "symlink", data |-> << >>, mtime |-> Entry(p).mtime])
      /\ names' = Put(DirNames(p), p, p) /\ todo' = todo \ {p} /\ command = "restore"
      /\ UNCHANGED <<gens, store, damage, command, gen, result>>
      /\ UNCHANGED <<links, failed>> /\ Entry(p).kind = "symlink"
  BY DEF restore_symlink, restVars
<1>. QED
  BY <1>1, <1>2, NewIsMade

LEMMA FileMakes ==
  ASSUME Kept, WalkFits, NEW p \in todo, restore_first_link(p)
  PROVE  LET e     == Entry(p)
             whole == AllReadable(e.chunks)
         IN  /\ MakesNew(p, "file", IF whole THEN e.mtime ELSE Now,
                          IF whole THEN restore_chunks(e.chunks) ELSE WrittenPart(e.chunks))
             /\ e.kind = "file" /\ FirstLink(p)
             /\ links' = IF e.nlink > 1 THEN Put(links, e.ino, [path |-> p, nlink |-> e.nlink])
                         ELSE links
             /\ failed' = (failed \/ ~whole \/ Contents(e.chunks) # e.md5)
<1>. DEFINE whole == AllReadable(Entry(p).chunks)
            data  == IF whole THEN restore_chunks(Entry(p).chunks) ELSE WrittenPart(Entry(p).chunks)
            mtime == IF whole THEN Entry(p).mtime ELSE Now
<1>1. p # Top
  BY FilesAre DEF restore_first_link, IsTree, Entry
<1>2. /\ inodes' = Put(Touched(Directories(p), {DirOf[p]}), p,
                       [kind |-> "file", data |-> data, mtime |-> mtime])
      /\ names' = Put(DirNames(p), p, p) /\ todo' = todo \ {p} /\ command = "restore"
      /\ UNCHANGED <<gens, store, damage, command, gen, result>>
  BY DEF restore_first_link, restVars
<1>3. /\ Entry(p).kind = "file" /\ FirstLink(p)
      /\ links' = IF Entry(p).nlink > 1
                  THEN Put(links, Entry(p).ino, [path |-> p, nlink |-> Entry(p).nlink]) ELSE links
      /\ failed' = (failed \/ ~whole \/ Contents(Entry(p).chunks) # Entry(p).md5)
  BY DEF restore_first_link
<1>4. MakesNew(p, "file", mtime, data)
  <2>. HIDE DEF data, mtime
  <2>. QED
    BY <1>1, <1>2, NewIsMade
<1>. QED
  BY <1>3, <1>4, Zenon

LEMMA HardlinkMakes ==
  ASSUME Kept, WalkFits, NEW p \in todo, restore_hardlink(p)
  PROVE  LET i == Entry(p).ino
         IN  /\ Makes(p, names[links[i].path]) /\ Entry(p).kind = "file" /\ ~FirstLink(p)
             /\ links' = IF links[i].nlink <= 2 THEN [n \in DOMAIN links \ {i} |-> links[n]]
                         ELSE [links EXCEPT ![i].nlink = @ - 1]
             /\ UNCHANGED failed
<1>1. p # Top
  BY FilesAre DEF restore_hardlink, IsTree, Entry
<1>2. inodes' = Touched(Directories(p), {DirOf[p]})
      /\ names' = Put(DirNames(p), p, names[links[Entry(p).ino].path])
  BY DEF restore_hardlink
<1>3. \A l \in DOMAIN inodes \ todo : l \in DOMAIN inodes' /\ inodes'[l] = inodes[l]
  BY <1>1, <1>2, WalkedStay
<1>4. Makes(p, names[links[Entry(p).ino].path])
  BY <1>2, <1>3, NamesPut DEF restore_hardlink, Makes, restVars
<1>5. /\ Entry(p).kind = "file" /\ ~FirstLink(p) /\ UNCHANGED failed
      /\ links' = IF links[Entry(p).ino].nlink <= 2
                  THEN [n \in DOMAIN links \ {Entry(p).ino} |-> links[n]]
                  ELSE [links EXCEPT ![Entry(p).ino].nlink = @ - 1]
  BY DEF restore_hardlink
<1>. QED
  BY <1>4, <1>5, Zenon

(* Such a step moves the walk on by p.                                     *)
LEMMA WalksOn ==
  ASSUME Kept, WalkFits, NEW p \in todo, NEW n, Makes(p, n), Kids(p) \cap todo = {}
  PROVE  /\ WalkFits' /\ Files' = Files /\ p \in Files /\ p \notin Walked
         /\ Walked' = Walked \cup {p}
<1>1. /\ Files' = Files /\ p \in Files /\ gens' = gens /\ gen' = gen /\ todo' = todo \ {p}
      /\ Top \in DOMAIN names'
  BY DEF Makes, Files, WalkFits
<1>2. ASSUME NEW q \in todo', q # Top
      PROVE  DirOf[q] \in todo'
  <2>1. DirOf[q] \in todo
    BY <1>1, <1>2 DEF WalkFits, Upwards
  <2>2. DirOf[q] # p
    BY <1>1, <1>2 DEF Kids, WalkFits, Files
  <2>. QED
    BY <1>1, <2>1, <2>2
<1>3. WalkFits'
  BY <1>1, <1>2 DEF WalkFits, Upwards
<1>. QED
  BY <1>1, <1>3 DEF Walked, WalkFits

-----------------------------------------------------------------------------
(* What restore has made of what it has walked                             *)

(* A name is that of the inode made for it, or for another name of it.     *)
NameFits(q) ==
  /\ q \in DOMAIN names /\ names[q] \in Walked /\ names[names[q]] = names[q]
  /\ names[q] \in DOMAIN inodes
  /\ \/ names[q] = q
     \/ q \in RegularFiles(gen) /\ names[q] \in RegularFiles(gen) /\ SameInode(q, names[q])

NamesFit == \A q \in Walked : NameFits(q)

(* What has been made is what was backed up, unless there are errors.      *)
InodeFits(l) ==
  /\ inodes[l].kind = Entry(l).kind
  /\ ~failed => /\ inodes[l].mtime = Entry(l).mtime
                /\ Entry(l).kind = "file" => inodes[l].data = Entry(l).md5

InodesFit == \A l \in Walked : names[l] = l => InodeFits(l)

(* The first of the links to an inode, and how many are left.              *)
LinkFits(i) ==
  LET l == links[i].path
  IN  /\ l \in Walked /\ l \in RegularFiles(gen) /\ names[l] = l
      /\ Entry(l).nlink > 1 /\ Entry(l).ino = i
      /\ links[i] = [path |-> l, nlink |-> links[i].nlink]
      /\ links[i].nlink \in Nat /\ links[i].nlink > 1
      /\ ~Mistaken(l) =>
           Cardinality(NamesOf(l) \cap Walked) + links[i].nlink = Entry(l).nlink + 1

LinksFit == \A i \in DOMAIN links : LinkFits(i)

(* All names of an inode so far are links to one file; it is forgotten     *)
(* when there are no more.                                                 *)
AlikeFits(q) ==
  /\ Entry(q).ino \in DOMAIN links => links[Entry(q).ino].path = names[q]
  /\ Entry(q).ino \notin DOMAIN links => NamesOf(q) \subseteq Walked
  /\ \A r \in NamesOf(q) \cap Walked : names[r] = names[q]

AlikeFit ==
  \A q \in Walked : q \in RegularFiles(gen) /\ Entry(q).nlink > 1 /\ ~Mistaken(q) => AlikeFits(q)

(* Why there are errors.                                                   *)
Excused == UsedChunks(gen) \cap damage # {} \/ Unfinished(gen) # {}

NlinksFit == \A g \in DOMAIN gens : \A p \in RegularFiles(g) : gens[g].files[p].nlink \in Nat \ {0}

WalkInv ==
  /\ WalkFits /\ NamesFit /\ InodesFit /\ LinksFit /\ AlikeFit
  /\ failed => Excused

RestoreInv ==
  /\ NlinksFit
  /\ command = "none" => links = << >>
  /\ command = "restore" \/ result = "restored" => WalkInv
  /\ result = "restored" => todo = {}

-----------------------------------------------------------------------------
(* Names of one inode.                                                     *)
LEMMA NamesAre ==
  ASSUME NEW p \in RegularFiles(gen), Entry(p).nlink > 1
  PROVE  /\ p \in NamesOf(p) /\ NamesOf(p) \subseteq RegularFiles(gen)
         /\ \A q \in NamesOf(p) : /\ NamesOf(q) = NamesOf(p) /\ q \in RegularFiles(gen)
                                 /\ Entry(q).nlink > 1 /\ Entry(q).ino = Entry(p).ino
         /\ \A q \in RegularFiles(gen) : Entry(q).nlink > 1 /\ Entry(q).ino = Entry(p).ino => q \in NamesOf(p)
  BY DEF NamesOf, SameInode

LEMMA MistakenAlike ==
  ASSUME NEW p \in RegularFiles(gen), Entry(p).nlink > 1, ~Mistaken(p), NEW q \in NamesOf(p)
  PROVE  /\ ~Mistaken(q) /\ Entry(q).md5 = Entry(p).md5 /\ Entry(q).mtime = Entry(p).mtime
         /\ ~(Entry(q).nlink < Cardinality(NamesOf(p)))
<1>1. \A r \in NamesOf(p) : /\ Entry(r).md5 = Entry(p).md5 /\ Entry(r).mtime = Entry(p).mtime
                           /\ ~(Entry(r).nlink < Cardinality(NamesOf(p)))
  BY DEF Mistaken
<1>2. NamesOf(q) = NamesOf(p)
  BY NamesAre
<1>. QED
  BY <1>1, <1>2 DEF Mistaken

LEMMA SameEntries ==
  ASSUME gens' = gens, gen' = gen
  PROVE  /\ RegularFiles(gen)' = RegularFiles(gen) /\ UsedChunks(gen)' = UsedChunks(gen)
         /\ Unfinished(gen)' = Unfinished(gen) /\ Files' = Files
         /\ \A p : Entry(p)' = Entry(p) /\ NamesOf(p)' = NamesOf(p) /\ (Mistaken(p)' <=> Mistaken(p))
<1>1. /\ RegularFiles(gen)' = RegularFiles(gen) /\ UsedChunks(gen)' = UsedChunks(gen)
      /\ Unfinished(gen)' = Unfinished(gen) /\ Files' = Files
  BY DEF RegularFiles, UsedChunks, Unfinished, Files
<1>2. \A p : Entry(p)' = Entry(p)
  BY DEF Entry
<1>3. \A p : NamesOf(p)' = NamesOf(p)
  BY <1>1, <1>2 DEF NamesOf, SameInode
<1>4. \A p : Mistaken(p)' <=> Mistaken(p)
  BY <1>2, <1>3 DEF Mistaken
<1>. QED
  BY <1>1, <1>2, <1>3, <1>4

LEMMA NewFits ==
  ASSUME Kept, WalkFits, NamesFit, InodesFit, NEW p \in todo, Kids(p) \cap todo = {},
         NEW mtime, NEW data, MakesNew(p, Entry(p).kind, mtime, data), failed => failed',
         ~failed' => mtime = Entry(p).mtime /\ (Entry(p).kind = "file" => data = Entry(p).md5)
  PROVE  NamesFit' /\ InodesFit'
<1>1. /\ Makes(p, p) /\ p \in DOMAIN inodes'
      /\ inodes'[p] = [kind |-> Entry(p).kind, data |-> data, mtime |-> mtime]
  BY DEF MakesNew
<1>2. /\ p \notin Walked /\ Walked' = Walked \cup {p}
  BY <1>1, WalksOn
<1>3. /\ p \in DOMAIN names' /\ names'[p] = p /\ gens' = gens /\ gen' = gen
      /\ \A q \in Walked : q \in DOMAIN names' /\ names'[q] = names[q]
      /\ \A l \in Walked \cap DOMAIN inodes : l \in DOMAIN inodes' /\ inodes'[l] = inodes[l]
  BY <1>1, <1>2 DEF Makes, NamesFit, NameFits, Walked
<1>4. RegularFiles(gen)' = RegularFiles(gen) /\ \A q : Entry(q)' = Entry(q)
  BY <1>3, SameEntries
<1>5. ASSUME NEW q \in Walked
      PROVE  NameFits(q)'
  <2>1. NameFits(q) /\ names'[q] = names[q] /\ q \in DOMAIN names'
    BY <1>3 DEF NamesFit
  <2>2. names'[names[q]] = names[names[q]] /\ names[q] \in DOMAIN inodes'
    BY <1>3, <2>1 DEF NameFits
  <2>. QED
    BY <1>2, <1>4, <2>1, <2>2 DEF NameFits, SameInode
<1>55. NameFits(p)'
  BY <1>1, <1>2, <1>3 DEF NameFits
<1>6. NamesFit'
  BY <1>2, <1>5, <1>55 DEF NamesFit
<1>7. ASSUME NEW l \in Walked, names[l] = l
      PROVE  InodeFits(l)'
  <2>1. InodeFits(l) /\ inodes'[l] = inodes[l]
    BY <1>3, <1>7 DEF InodesFit, NamesFit, NameFits
  <2>. QED
    BY <1>4, <2>1 DEF InodeFits
<1>8. InodeFits(p)'
  BY <1>1, <1>4 DEF InodeFits
<1>9. InodesFit'
  BY <1>2, <1>3, <1>7, <1>8 DEF InodesFit
<1>. QED
  BY <1>6, <1>9

(* What is known of links to other files stays.                            *)
LEMMA OthersStayLinked ==
  ASSUME Kept, WalkFits, NamesFit, LinksFit, AlikeFit, NEW p \in todo, Kids(p) \cap todo = {},
         NEW n, Makes(p, n)
  PROVE  /\ \A i \in DOMAIN links :
              links'[i] = links[i] /\ p \notin NamesOf(links[i].path) => LinkFits(i)'
         /\ \A q \in Walked \cap RegularFiles(gen) :
              /\ Entry(q).nlink > 1 /\ ~Mistaken(q) /\ p \notin NamesOf(q)
              /\ Entry(q).ino \in DOMAIN links' <=> Entry(q).ino \in DOMAIN links
              /\ Entry(q).ino \in DOMAIN links => links'[Entry(q).ino] = links[Entry(q).ino]
              => AlikeFits(q)'
<1>1. /\ p \notin Walked /\ Walked' = Walked \cup {p} /\ gens' = gens /\ gen' = gen
  BY WalksOn DEF Makes
<1>2. \A q \in Walked : q \in DOMAIN names' /\ names'[q] = names[q]
  BY <1>1 DEF Makes, NamesFit, NameFits
<1>3. /\ RegularFiles(gen)' = RegularFiles(gen)
      /\ \A q : Entry(q)' = Entry(q) /\ NamesOf(q)' = NamesOf(q) /\ (Mistaken(q)' <=> Mistaken(q))
  BY <1>1, SameEntries
<1>4. \A q : p \notin NamesOf(q) => NamesOf(q) \cap Walked' = NamesOf(q) \cap Walked
  BY <1>1
<1>5. ASSUME NEW i \in DOMAIN links, links'[i] = links[i], p \notin NamesOf(links[i].path)
      PROVE  LinkFits(i)'
  <2>1. LinkFits(i)
    BY DEF LinksFit
  <2>. QED
    BY <1>1, <1>2, <1>3, <1>4, <1>5, <2>1 DEF LinkFits
<1>6. ASSUME NEW q \in Walked \cap RegularFiles(gen), Entry(q).nlink > 1, ~Mistaken(q),
             p \notin NamesOf(q), Entry(q).ino \in DOMAIN links' <=> Entry(q).ino \in DOMAIN links,
             Entry(q).ino \in DOMAIN links => links'[Entry(q).ino] = links[Entry(q).ino]
      PROVE  AlikeFits(q)'
  <2>1. AlikeFits(q)
    BY <1>6 DEF AlikeFit
  <2>. QED
    BY <1>1, <1>2, <1>3, <1>4, <1>6, <2>1 DEF AlikeFits
<1>. QED
  BY <1>5, <1>6

(* What has one name only does not matter to the links.                    *)
LEMMA OtherLinksFit ==
  ASSUME Kept, WalkFits, NamesFit, LinksFit, AlikeFit, NEW p \in todo, Kids(p) \cap todo = {},
         NEW n, Makes(p, n), links' = links, ~(p \in RegularFiles(gen) /\ Entry(p).nlink > 1)
  PROVE  LinksFit' /\ AlikeFit'
<1>1. /\ Walked' = Walked \cup {p} /\ gens' = gens /\ gen' = gen
  BY WalksOn DEF Makes
<1>2. /\ RegularFiles(gen)' = RegularFiles(gen)
      /\ \A q : Entry(q)' = Entry(q) /\ (Mistaken(q)' <=> Mistaken(q))
  BY <1>1, SameEntries
<1>3. \A q : p \notin NamesOf(q)
  BY DEF NamesOf, SameInode
<1>4. \A i \in DOMAIN links : LinkFits(i)'
  BY <1>3, OthersStayLinked
<1>5. \A q \in Walked \cap RegularFiles(gen) :
        Entry(q).nlink > 1 /\ ~Mistaken(q) => AlikeFits(q)'
  BY <1>3, OthersStayLinked
<1>6. LinksFit'
  BY <1>4 DEF LinksFit
<1>7. AlikeFit'
  BY <1>1, <1>2, <1>5 DEF AlikeFit
<1>. QED
  BY <1>6, <1>7

LEMMA FirstLinksFit ==
  ASSUME Kept, NlinksFit, WalkFits, NamesFit, LinksFit, AlikeFit, NEW p \in todo, Kids(p) \cap todo = {},
         Makes(p, p), p \in RegularFiles(gen), Entry(p).nlink > 1, Entry(p).ino \notin DOMAIN links,
         links' = Put(links, Entry(p).ino, [path |-> p, nlink |-> Entry(p).nlink])
  PROVE  LinksFit' /\ AlikeFit'
<1>0. PICK ino : ino = Entry(p).ino
  OBVIOUS
<1>1. /\ p \notin Walked /\ Walked' = Walked \cup {p} /\ gens' = gens /\ gen' = gen /\ names'[p] = p
  BY WalksOn DEF Makes
<1>2. /\ RegularFiles(gen)' = RegularFiles(gen)
      /\ \A q : Entry(q)' = Entry(q) /\ NamesOf(q)' = NamesOf(q) /\ (Mistaken(q)' <=> Mistaken(q))
  BY <1>1, SameEntries
<1>3. /\ DOMAIN links' = DOMAIN links \cup {ino} /\ links'[ino] = [path |-> p, nlink |-> Entry(p).nlink]
      /\ \A i \in DOMAIN links : links'[i] = links[i]
  BY <1>0 DEF Put
<1>4. Entry(p).nlink \in Nat
  BY DEF NlinksFit, WalkFits, Entry
<1>5. ASSUME NEW q \in NamesOf(p) \cap Walked
      PROVE  Mistaken(p) /\ Mistaken(q)
  <2>1. /\ q \in RegularFiles(gen) /\ Entry(q).nlink > 1 /\ Entry(q).ino = ino
        /\ NamesOf(q) = NamesOf(p) /\ p \in NamesOf(q)
    BY <1>0, NamesAre
  <2>2. Mistaken(q)
    BY <1>0, <1>1, <2>1 DEF AlikeFit, AlikeFits
  <2>. QED
    BY <2>1, <2>2, MistakenAlike
<1>6. ~Mistaken(p) => NamesOf(p) \cap Walked' = {p}
  BY <1>1, <1>5, NamesAre
<1>7. LinkFits(ino)'
  <2>1. ~Mistaken(p) => Cardinality(NamesOf(p) \cap Walked') = 1
    BY <1>6, FS_Singleton
  <2>2. links'[ino].path = p /\ links'[ino].nlink = Entry(p).nlink
    BY <1>3
  <2>3. /\ p \in Walked' /\ p \in RegularFiles(gen)' /\ names'[p] = p
        /\ Entry(p)'.nlink > 1 /\ Entry(p)'.ino = ino
        /\ links'[ino] = [path |-> p, nlink |-> links'[ino].nlink]
    BY <1>0, <1>1, <1>2, <1>3
  <2>4. ~Mistaken(p)' => Cardinality(NamesOf(p)' \cap Walked') + links'[ino].nlink = Entry(p)'.nlink + 1
    <3>1. Entry(p)' = Entry(p) /\ NamesOf(p)' = NamesOf(p)
      BY <1>2
    <3>2. ~Mistaken(p)' => ~Mistaken(p)
      BY <1>2, Zenon
    <3>3. 1 + links'[ino].nlink = Entry(p).nlink + 1
      BY <1>4, <2>2
    <3>. QED
      BY <2>1, <3>1, <3>2, <3>3, Zenon
  <2>. QED
    BY <1>4, <2>2, <2>3, <2>4 DEF LinkFits
<1>8. ASSUME NEW i \in DOMAIN links
      PROVE  LinkFits(i)'
  <2>1. Entry(links[i].path).ino = i /\ i # ino
    BY <1>0 DEF LinksFit, LinkFits
  <2>2. p \notin NamesOf(links[i].path)
    BY <1>0, <2>1 DEF NamesOf, SameInode
  <2>. QED
    BY <1>3, <2>2, OthersStayLinked
<1>9. ASSUME NEW q \in Walked \cap RegularFiles(gen), Entry(q).nlink > 1, ~Mistaken(q)
      PROVE  AlikeFits(q)'
  <2>1. q \notin NamesOf(p)
    BY <1>5, <1>9
  <2>2. Entry(q).ino # ino
    BY <1>0, <1>9, <2>1, NamesAre
  <2>3. p \notin NamesOf(q)
    BY <1>0, <2>2 DEF NamesOf, SameInode
  <2>4. /\ Entry(q).ino \in DOMAIN links' <=> Entry(q).ino \in DOMAIN links
        /\ Entry(q).ino \in DOMAIN links => links'[Entry(q).ino] = links[Entry(q).ino]
    BY <1>3, <2>2
  <2>. QED
    BY <1>9, <2>3, <2>4, OthersStayLinked
<1>10. ASSUME ~Mistaken(p)
       PROVE  AlikeFits(p)'
  <2>1. links'[ino].path = p /\ ino \in DOMAIN links'
    BY <1>3
  <2>. QED
    BY <1>0, <1>1, <1>2, <1>6, <1>10, <2>1 DEF AlikeFits
<1>11. LinksFit'
  BY <1>3, <1>7, <1>8 DEF LinksFit
<1>12. AlikeFit'
  BY <1>1, <1>2, <1>9, <1>10 DEF AlikeFit
<1>. QED
  BY <1>11, <1>12

(* One name more for an inode that has been restored.                      *)
LEMMA HardlinksFit ==
  ASSUME Kept, NlinksFit, WalkFits, NamesFit, InodesFit, LinksFit, AlikeFit, NEW p \in todo,
         Kids(p) \cap todo = {}, NEW ino, ino = Entry(p).ino, NEW l, l = links[ino].path,
         Makes(p, names[l]), p \in RegularFiles(gen), Entry(p).nlink > 1,
         ino \in DOMAIN links, failed' = failed,
         links' = IF links[ino].nlink <= 2 THEN [n \in DOMAIN links \ {ino} |-> links[n]]
                  ELSE [links EXCEPT ![ino].nlink = @ - 1]
  PROVE  NamesFit' /\ InodesFit' /\ LinksFit' /\ AlikeFit'
<1>. DEFINE n == links[ino].nlink
<1>1. /\ l \in Walked /\ l \in RegularFiles(gen) /\ names[l] = l
      /\ Entry(l).nlink > 1 /\ Entry(l).ino = ino /\ n \in Nat /\ n > 1
      /\ links[ino] = [path |-> l, nlink |-> n]
      /\ ~Mistaken(l) => Cardinality(NamesOf(l) \cap Walked) + n = Entry(l).nlink + 1
  BY DEF LinksFit, LinkFits
<1>2. /\ p \notin Walked /\ Walked' = Walked \cup {p} /\ gens' = gens /\ gen' = gen /\ names'[p] = l
      /\ p \in DOMAIN names' /\ p \in Files
  BY <1>1, WalksOn DEF Makes
<1>3. /\ \A q \in Walked : q \in DOMAIN names' /\ names'[q] = names[q]
      /\ \A k \in Walked \cap DOMAIN inodes : k \in DOMAIN inodes' /\ inodes'[k] = inodes[k]
  BY <1>2 DEF Makes, NamesFit, NameFits, Walked
<1>4. /\ RegularFiles(gen)' = RegularFiles(gen)
      /\ \A q : Entry(q)' = Entry(q) /\ NamesOf(q)' = NamesOf(q) /\ (Mistaken(q)' <=> Mistaken(q))
  BY <1>2, SameEntries
<1>5. NamesFit'
  <2>1. ASSUME NEW q \in Walked
        PROVE  NameFits(q)'
    <3>1. NameFits(q) /\ names'[q] = names[q] /\ q \in DOMAIN names'
      BY <1>3 DEF NamesFit
    <3>2. names'[names[q]] = names[names[q]] /\ names[q] \in DOMAIN inodes'
      BY <1>3, <3>1 DEF NameFits
    <3>. QED
      BY <1>2, <1>4, <3>1, <3>2 DEF NameFits, SameInode
  <2>2. NameFits(p)'
    <3>1. l \in DOMAIN inodes' /\ names'[l] = l
      BY <1>1, <1>3 DEF NamesFit, NameFits
    <3>2. SameInode(p, l)'
      BY <1>1, <1>4 DEF SameInode
    <3>. QED
      BY <1>1, <1>2, <1>4, <3>1, <3>2 DEF NameFits
  <2>. QED
    BY <1>2, <2>1, <2>2 DEF NamesFit
<1>6. InodesFit'
  <2>1. ASSUME NEW k \in Walked, names[k] = k
        PROVE  InodeFits(k)'
    <3>1. InodeFits(k) /\ inodes'[k] = inodes[k]
      BY <1>3, <2>1 DEF InodesFit, NamesFit, NameFits
    <3>. QED
      BY <1>4, <3>1 DEF InodeFits
  <2>2. names'[p] # p
    BY <1>1, <1>2
  <2>. QED
    BY <1>2, <1>3, <2>1, <2>2 DEF InodesFit
<1>7. /\ NamesOf(p) = NamesOf(l) /\ p \in NamesOf(l) /\ l \in NamesOf(p)
      /\ \A q \in RegularFiles(gen) : Entry(q).nlink > 1 /\ Entry(q).ino = ino => q \in NamesOf(l)
  BY <1>1, NamesAre
<1>8. ASSUME ~Mistaken(l)
      PROVE  Cardinality(NamesOf(l) \cap Walked') + n = Entry(l).nlink + 2
             /\ Cardinality(NamesOf(l) \cap Walked') \in Nat /\ Entry(l).nlink \in Nat
  <2>1. IsFiniteSet(NamesOf(l)) /\ NamesOf(l) \cap Walked \in SUBSET NamesOf(l)
    BY FilesAre, FS_Subset DEF NamesOf
  <2>2. IsFiniteSet(NamesOf(l) \cap Walked)
    BY <2>1, FS_Subset
  <2>3. NamesOf(l) \cap Walked' = (NamesOf(l) \cap Walked) \cup {p} /\ p \notin NamesOf(l) \cap Walked
    BY <1>2, <1>7
  <2>4. Cardinality(NamesOf(l) \cap Walked') = Cardinality(NamesOf(l) \cap Walked) + 1
    BY <2>2, <2>3, FS_AddElement
  <2>5. Cardinality(NamesOf(l) \cap Walked) \in Nat
    BY <2>2, FS_CardinalityType
  <2>6. Entry(l).nlink \in Nat
    BY <1>1 DEF NlinksFit, WalkFits, Entry
  <2>. QED
    BY <1>1, <1>8, <2>4, <2>5, <2>6
<1>9. ASSUME NEW i \in DOMAIN links, i # ino
      PROVE  i \in DOMAIN links' /\ links'[i] = links[i] /\ LinkFits(i)'
  <2>1. i \in DOMAIN links' /\ links'[i] = links[i]
    BY <1>9
  <2>2. Entry(links[i].path).ino = i
    BY DEF LinksFit, LinkFits
  <2>3. p \notin NamesOf(links[i].path)
    BY <1>9, <2>2 DEF NamesOf, SameInode
  <2>. QED
    BY <2>1, <2>3, OthersStayLinked
<1>10. ASSUME ino \in DOMAIN links'
       PROVE  LinkFits(ino)' /\ links'[ino].path = l
  <2>1. n > 2 /\ links' = [links EXCEPT ![ino].nlink = @ - 1]
    BY <1>1, <1>10
  <2>2. links'[ino] = [path |-> l, nlink |-> n - 1]
    <3>1. links'[ino] = [links[ino] EXCEPT !.nlink = @ - 1]
      BY <2>1
    <3>. QED
      BY <1>1, <3>1
  <2>3. links'[ino].path = l /\ links'[ino].nlink = n - 1 /\ n - 1 \in Nat /\ n - 1 > 1
    BY <1>1, <2>1, <2>2
  <2>4. ~Mistaken(l)' => Cardinality(NamesOf(l)' \cap Walked') + links'[ino].nlink = Entry(l)'.nlink + 1
    <3>1. Entry(l)' = Entry(l) /\ NamesOf(l)' = NamesOf(l)
      BY <1>4
    <3>2. ~Mistaken(l)' => ~Mistaken(l)
      BY <1>4, Zenon
    <3>3. ~Mistaken(l) => Cardinality(NamesOf(l) \cap Walked') + links'[ino].nlink = Entry(l).nlink + 1
      BY <1>1, <1>8, <2>3
    <3>. QED
      BY <3>1, <3>2, <3>3, Zenon
  <2>5. /\ l \in Walked' /\ l \in RegularFiles(gen)' /\ names'[l] = l
        /\ Entry(l)'.nlink > 1 /\ Entry(l)'.ino = ino
        /\ links'[ino] = [path |-> l, nlink |-> links'[ino].nlink]
    BY <1>1, <1>2, <1>3, <1>4, <2>2, <2>3
  <2>. QED
    BY <2>3, <2>4, <2>5 DEF LinkFits
<1>11. ASSUME ino \notin DOMAIN links', ~Mistaken(l)
       PROVE  NamesOf(l) \subseteq Walked'
  <2>1. n = 2
    BY <1>1, <1>11
  <2>2. Cardinality(NamesOf(l) \cap Walked') = Entry(l).nlink
    BY <1>1, <1>8, <1>11, <2>1
  <2>3. ~(Entry(l).nlink < Cardinality(NamesOf(l)))
    BY <1>1, <1>11, NamesAre, MistakenAlike
  <2>4. IsFiniteSet(NamesOf(l)) /\ NamesOf(l) \cap Walked' \in SUBSET NamesOf(l)
    BY FilesAre, FS_Subset DEF NamesOf
  <2>5. /\ Cardinality(NamesOf(l) \cap Walked') <= Cardinality(NamesOf(l))
        /\ Cardinality(NamesOf(l)) = Cardinality(NamesOf(l) \cap Walked') => NamesOf(l) = NamesOf(l) \cap Walked'
        /\ Cardinality(NamesOf(l)) \in Nat
    BY <2>4, FS_Subset, FS_CardinalityType
  <2>6. Cardinality(NamesOf(l)) = Cardinality(NamesOf(l) \cap Walked')
    BY <1>8, <1>11, <2>2, <2>3, <2>5
  <2>. QED
    BY <2>5, <2>6
<1>12. ASSUME NEW q \in NamesOf(l), ~Mistaken(q), q \in Walked'
       PROVE  AlikeFits(q)'
  <2>1. /\ q \in RegularFiles(gen) /\ Entry(q).nlink > 1 /\ Entry(q).ino = ino
        /\ NamesOf(q) = NamesOf(l) /\ l \in NamesOf(q)
    BY <1>1, <1>12, NamesAre
  <2>2. ~Mistaken(l)
    BY <1>12, <2>1, MistakenAlike
  <2>3. ASSUME NEW r \in NamesOf(l) \cap Walked
        PROVE  names'[r] = l
    <3>1. names[r] = names[l]
      BY <1>1, <2>2, <2>3 DEF AlikeFit, AlikeFits
    <3>. QED
      BY <1>1, <1>3, <3>1
  <2>4. \A r \in NamesOf(l) \cap Walked' : names'[r] = l
    BY <1>2, <2>3
  <2>5. names'[q] = l
    BY <1>12, <2>4
  <2>6. Entry(q)' = Entry(q) /\ NamesOf(q)' = NamesOf(l)
    BY <1>4, <2>1
  <2>. QED
    BY <1>10, <1>11, <2>1, <2>2, <2>4, <2>5, <2>6 DEF AlikeFits
<1>13. ASSUME NEW q \in Walked \cap RegularFiles(gen), Entry(q).nlink > 1, ~Mistaken(q), q \notin NamesOf(l)
       PROVE  AlikeFits(q)'
  <2>1. Entry(q).ino # ino
    BY <1>7, <1>13
  <2>2. p \notin NamesOf(q)
    BY <2>1 DEF NamesOf, SameInode
  <2>3. /\ Entry(q).ino \in DOMAIN links' <=> Entry(q).ino \in DOMAIN links
        /\ Entry(q).ino \in DOMAIN links => links'[Entry(q).ino] = links[Entry(q).ino]
    BY <2>1
  <2>. QED
    BY <1>13, <2>2, <2>3, OthersStayLinked
<1>14. LinksFit'
  <2>1. DOMAIN links' \subseteq DOMAIN links
    OBVIOUS
  <2>. QED
    BY <1>9, <1>10, <2>1 DEF LinksFit
<1>15. AlikeFit'
  <2>1. ASSUME NEW q \in Walked', q \in RegularFiles(gen), Entry(q).nlink > 1, ~Mistaken(q)
        PROVE  AlikeFits(q)'
    BY <1>2, <1>7, <1>12, <1>13, <2>1
  <2>. QED
    BY <1>4, <2>1 DEF AlikeFit
<1>. QED
  BY <1>5, <1>6, <1>14, <1>15

(* What a regular file gets, and what is wrong if it is not that.          *)
LEMMA FileIsRestored ==
  ASSUME Kept, WalkFits, NEW p \in RegularFiles(gen)
  PROVE  LET e     == Entry(p)
             whole == AllReadable(e.chunks)
         IN  /\ whole => restore_chunks(e.chunks) = Contents(e.chunks)
             /\ ~whole \/ Contents(e.chunks) # e.md5 => Excused
<1>. DEFINE list == Entry(p).chunks
<1>1. /\ gen \in DOMAIN gens /\ p \in DOMAIN gens[gen].files /\ list = gens[gen].files[p].chunks
      /\ list \in Seq(DOMAIN store) /\ ToSet(list) \subseteq UsedChunks(gen)
  BY FilesAre DEF WalkFits, Kept, Files, Entry, UsedChunks
<1>2. PICK k \in Nat : k = Len(list) /\ DOMAIN list = 1 .. k /\ \A i \in 1 .. k : list[i] \in DOMAIN store
  BY <1>1
<1>3. ASSUME AllReadable(list)
      PROVE  restore_chunks(list) = Contents(list)
  <2>1. \A i \in 1 .. k : store[list[i]] \in Nat
    BY <1>2, <1>3, StoredAssumption DEF AllReadable, Readable
  <2>2. IsReadable(list, k)
    BY <1>2, <2>1 DEF IsReadable
  <2>. QED
    BY <2>2, RestoresData
<1>4. ASSUME ~AllReadable(list)
      PROVE  Excused
  <2>1. PICK i \in 1 .. k : store[list[i]] \notin Bytes
    BY <1>2, <1>4 DEF AllReadable, Readable
  <2>2. list[i] \in damage
    BY <1>2, <2>1 DEF Kept, Intact
  <2>3. list[i] \in ToSet(list)
    BY <1>2 DEF ToSet
  <2>. QED
    BY <1>1, <2>2, <2>3 DEF Excused
<1>5. ASSUME Contents(list) # Entry(p).md5
      PROVE  Excused
  <2>1. \/ gens[gen].files[p].md5 = NoSum
        \/ ToSet(list) \cap damage # {}
    BY <1>1, <1>5 DEF Kept, Intact, Entry
  <2>2. CASE gens[gen].files[p].md5 = NoSum
    BY <2>2 DEF Excused, Unfinished
  <2>3. CASE ToSet(list) \cap damage # {}
    BY <1>1, <2>3 DEF Excused
  <2>. QED
    BY <2>1, <2>2, <2>3
<1>. QED
  BY <1>3, <1>4, <1>5, Zenon

LEMMA ExcusedStays ==
  ASSUME Excused, NEW p, NEW n, Makes(p, n)
  PROVE  Excused'
<1>1. gens' = gens /\ gen' = gen /\ damage' = damage
  BY DEF Makes
<1>. QED
  BY <1>1, SameEntries DEF Excused

LEMMA PlainWalks ==
  ASSUME Kept, NlinksFit, WalkInv, NEW p \in todo, restore_dir(p) \/ restore_symlink(p)
  PROVE  WalkInv'
<1>1. WalkFits /\ NamesFit /\ InodesFit /\ LinksFit /\ AlikeFit /\ (failed => Excused)
  BY DEF WalkInv
<1>2. Kids(p) \cap todo = {}
  BY DEF restore_dir, restore_symlink, IsNext
<1>3. /\ MakesNew(p, Entry(p).kind, Entry(p).mtime, << >>) /\ Entry(p).kind # "file"
      /\ links' = links /\ failed' = failed
  BY <1>1, DirMakes, SymlinkMakes
<1>4. Makes(p, p)
  BY <1>3 DEF MakesNew
<1>5. WalkFits'
  BY <1>1, <1>2, <1>4, WalksOn
<1>6. NamesFit' /\ InodesFit'
  BY <1>1, <1>2, <1>3, NewFits
<1>7. p \notin RegularFiles(gen)
  BY <1>3 DEF RegularFiles, Entry
<1>8. LinksFit' /\ AlikeFit'
  BY <1>1, <1>2, <1>3, <1>4, <1>7, OtherLinksFit
<1>9. failed' => Excused'
  BY <1>1, <1>3, <1>4, ExcusedStays
<1>. QED
  BY <1>5, <1>6, <1>8, <1>9 DEF WalkInv

LEMMA FileWalks ==
  ASSUME Kept, NlinksFit, WalkInv, NEW p \in todo, restore_first_link(p)
  PROVE  WalkInv'
<1>. DEFINE e     == Entry(p)
            whole == AllReadable(e.chunks)
            data  == IF whole THEN restore_chunks(e.chunks) ELSE WrittenPart(e.chunks)
            mtime == IF whole THEN e.mtime ELSE Now
<1>1. WalkFits /\ NamesFit /\ InodesFit /\ LinksFit /\ AlikeFit /\ (failed => Excused)
  BY DEF WalkInv
<1>2. Kids(p) \cap todo = {}
  BY DEF restore_first_link, IsNext
<1>3. /\ MakesNew(p, e.kind, mtime, data) /\ e.kind = "file" /\ FirstLink(p)
      /\ links' = IF e.nlink > 1 THEN Put(links, e.ino, [path |-> p, nlink |-> e.nlink])
                  ELSE links
      /\ failed' = (failed \/ ~whole \/ Contents(e.chunks) # e.md5)
  BY <1>1, FileMakes
<1>4. Makes(p, p)
  BY <1>3 DEF MakesNew
<1>5. p \in RegularFiles(gen)
  BY <1>1, <1>3, FilesAre DEF WalkFits
<1>6. /\ whole => restore_chunks(e.chunks) = Contents(e.chunks)
      /\ ~whole \/ Contents(e.chunks) # e.md5 => Excused
  BY <1>1, <1>5, FileIsRestored
<1>7. ~failed' => mtime = e.mtime /\ data = e.md5
  BY <1>3, <1>6
<1>8. failed' => Excused'
  BY <1>1, <1>3, <1>4, <1>6, ExcusedStays
<1>9. failed => failed'
  BY <1>3
<1>. HIDE DEF data, mtime, whole
<1>10. WalkFits'
  BY <1>1, <1>2, <1>4, WalksOn
<1>11. NamesFit' /\ InodesFit'
  BY <1>1, <1>2, <1>3, <1>7, <1>9, NewFits
<1>12. LinksFit' /\ AlikeFit'
  <2>1. CASE e.nlink > 1
    <3>1. e.nlink \in Nat
      BY <1>1, <1>5 DEF NlinksFit, WalkFits, Entry
    <3>2. e.ino \notin DOMAIN links
      BY <1>3, <2>1, <3>1 DEF FirstLink
    <3>3. links' = Put(links, e.ino, [path |-> p, nlink |-> e.nlink])
      BY <1>3, <2>1
    <3>. QED
      BY <1>1, <1>2, <1>4, <1>5, <2>1, <3>2, <3>3, FirstLinksFit
  <2>2. CASE ~(e.nlink > 1)
    <3>1. links' = links
      BY <1>3, <2>2
    <3>. QED
      BY <1>1, <1>2, <1>4, <2>2, <3>1, OtherLinksFit
  <2>. QED
    BY <2>1, <2>2
<1>. QED
  BY <1>8, <1>10, <1>11, <1>12 DEF WalkInv

LEMMA HardlinkWalks ==
  ASSUME Kept, NlinksFit, WalkInv, NEW p \in todo, restore_hardlink(p)
  PROVE  WalkInv'
<1>1. WalkFits /\ NamesFit /\ InodesFit /\ LinksFit /\ AlikeFit /\ (failed => Excused)
  BY DEF WalkInv
<1>2. Kids(p) \cap todo = {}
  BY DEF restore_hardlink, IsNext
<1>3. PICK ino, l : ino = Entry(p).ino /\ l = links[ino].path
  OBVIOUS
<1>4. /\ Makes(p, names[l]) /\ Entry(p).kind = "file" /\ ~FirstLink(p) /\ failed' = failed
      /\ links' = IF links[ino].nlink <= 2 THEN [n \in DOMAIN links \ {ino} |-> links[n]]
                  ELSE [links EXCEPT ![ino].nlink = @ - 1]
  BY <1>1, <1>3, HardlinkMakes
<1>5. p \in RegularFiles(gen)
  BY <1>1, <1>4, FilesAre DEF WalkFits
<1>6. ino \in DOMAIN links /\ Entry(p).nlink # 1
  BY <1>3, <1>4 DEF FirstLink
<1>7. Entry(p).nlink > 1
  BY <1>1, <1>5, <1>6 DEF NlinksFit, WalkFits, Entry
<1>8. WalkFits'
  BY <1>1, <1>2, <1>4, WalksOn
<1>9. NamesFit' /\ InodesFit' /\ LinksFit' /\ AlikeFit'
  BY <1>1, <1>2, <1>3, <1>4, <1>5, <1>6, <1>7, HardlinksFit
<1>10. failed' => Excused'
  BY <1>1, <1>4, ExcusedStays
<1>. QED
  BY <1>8, <1>9, <1>10 DEF WalkInv

LEMMA RestoreStarts ==
  ASSUME Kept, RestoreInv, VerifyInv, NEW g \in DOMAIN gens, restore_starts(g)
  PROVE  WalkInv'
<1>1. /\ gen' = g /\ gens' = gens /\ todo' = DOMAIN gens[g].files /\ links' = << >> /\ ~failed'
      /\ Top \in DOMAIN names'
  <2>1. /\ gen' = g /\ gens' = gens /\ todo' = DOMAIN gens[g].files /\ links' = links /\ failed' = failed
        /\ names' = [p \in {Top} |-> p] /\ command = "none"
    BY DEF restore_starts, Starts, restVars
  <2>2. Top \in DOMAIN names'
    BY <2>1
  <2>. QED
    BY <2>1, <2>2 DEF RestoreInv, VerifyInv
<1>2. Files' = todo' /\ Walked' = {}
  BY <1>1 DEF Files, Walked
<1>3. Upwards(todo')
  BY <1>1 DEF Kept, IsTree, Upwards
<1>4. WalkFits'
  BY <1>1, <1>2, <1>3 DEF WalkFits, Upwards
<1>5. DOMAIN links' = {}
  BY <1>1
<1>. QED
  BY <1>1, <1>2, <1>4, <1>5 DEF WalkInv, NamesFit, InodesFit, LinksFit, AlikeFit

LEMMA WalkInvSame ==
  ASSUME WalkInv,
         UNCHANGED <<gens, damage, gen, todo, names, inodes, links, failed>>
  PROVE  WalkInv'
<1>1. /\ RegularFiles(gen)' = RegularFiles(gen) /\ Files' = Files /\ Walked' = Walked
      /\ \A p : Entry(p)' = Entry(p) /\ NamesOf(p)' = NamesOf(p) /\ (Mistaken(p)' <=> Mistaken(p))
  BY SameEntries DEF Walked
<1>2. WalkFits'
  BY <1>1 DEF WalkInv, WalkFits
<1>3. NamesFit'
  BY <1>1 DEF WalkInv, NamesFit, NameFits, SameInode
<1>4. InodesFit'
  BY <1>1 DEF WalkInv, InodesFit, InodeFits
<1>5. LinksFit'
  BY <1>1 DEF WalkInv, LinksFit, LinkFits
<1>6. AlikeFit'
  BY <1>1 DEF WalkInv, AlikeFit, AlikeFits
<1>7. failed' => Excused'
  BY SameEntries DEF WalkInv, Excused
<1>. QED
  BY <1>2, <1>3, <1>4, <1>5, <1>6, <1>7 DEF WalkInv

LEMMA RestoreInvHolds ==
  ASSUME Kept, VerifyInv, RestoreInv, [AtRestNext]_atRestVars
  PROVE  RestoreInv'
<1>1. NlinksFit'
  <2>1. gens' = gens
    BY KeptHolds
  <2>2. \A g : RegularFiles(g)' = RegularFiles(g)
    BY <2>1 DEF RegularFiles
  <2>. QED
    BY <2>1, <2>2 DEF RestoreInv, NlinksFit
<1>2. CASE UNCHANGED atRestVars
  <2>1. /\ UNCHANGED <<gens, damage, command, gen, todo, names, inodes, links, failed, result>>
    BY <1>2 DEF atRestVars, restVars, restoreVars
  <2>. QED
    BY <1>1, <2>1, WalkInvSame DEF RestoreInv
<1>3. CASE FsckNext /\ UNCHANGED restoreVars
  <2>1. /\ command \in {"none", "fsck"} /\ command' \in {"fsck", "over"} /\ result = "none" /\ result' = "none"
    BY <1>3, FsckIsElsewhere DEF VerifyInv, restoreVars
  <2>. QED
    BY <1>1, <2>1 DEF RestoreInv
<1>4. CASE Damage /\ UNCHANGED <<fsckVars, restoreVars>>
  <2>1. /\ damage = {} /\ UNCHANGED <<gens, command>>
        /\ UNCHANGED <<gen, todo, names, inodes, links, failed, result>>
    BY <1>4 DEF Damage, restoreVars
  <2>2. ASSUME WalkInv PROVE WalkInv'
    <3>1. /\ RegularFiles(gen)' = RegularFiles(gen) /\ Files' = Files /\ Walked' = Walked
          /\ \A p : Entry(p)' = Entry(p) /\ NamesOf(p)' = NamesOf(p) /\ (Mistaken(p)' <=> Mistaken(p))
      BY <2>1, SameEntries DEF Walked
    <3>2. WalkFits'
      BY <2>1, <2>2, <3>1 DEF WalkInv, WalkFits
    <3>3. NamesFit'
      BY <2>1, <2>2, <3>1 DEF WalkInv, NamesFit, NameFits, SameInode
    <3>4. InodesFit'
      BY <2>1, <2>2, <3>1 DEF WalkInv, InodesFit, InodeFits
    <3>5. LinksFit'
      BY <2>1, <2>2, <3>1 DEF WalkInv, LinksFit, LinkFits
    <3>6. AlikeFit'
      BY <2>1, <2>2, <3>1 DEF WalkInv, AlikeFit, AlikeFits
    <3>7. failed' => Excused'
      BY <2>1, <2>2, SameEntries DEF WalkInv, Excused
    <3>. QED
      BY <3>2, <3>3, <3>4, <3>5, <3>6, <3>7 DEF WalkInv
  <2>. QED
    BY <1>1, <2>1, <2>2 DEF RestoreInv
<1>5. CASE RestoreNext
  <2>1. ASSUME NEW g \in DOMAIN gens, restore_starts(g) PROVE RestoreInv'
    <3>1. command' = "restore" /\ result' = "none"
      BY <2>1 DEF restore_starts, Starts, VerifyInv
    <3>. QED
      BY <1>1, <2>1, <3>1, RestoreStarts DEF RestoreInv
  <2>2. ASSUME NEW g \in DOMAIN gens, verify_starts(g) PROVE RestoreInv'
    <3>1. command' = "verify" /\ result' = "none"
      BY <2>2 DEF verify_starts, Starts, VerifyInv
    <3>. QED
      BY <1>1, <3>1 DEF RestoreInv
  <2>3. ASSUME NEW p \in todo,
               restore_dir(p) \/ restore_first_link(p) \/ restore_hardlink(p) \/ restore_symlink(p)
        PROVE  RestoreInv'
    <3>1. command = "restore" /\ UNCHANGED <<command, result>> /\ result = "none"
      BY <2>3 DEF restore_dir, restore_first_link, restore_hardlink, restore_symlink, VerifyInv
    <3>2. NlinksFit /\ WalkInv
      BY <3>1 DEF RestoreInv
    <3>3. WalkInv'
      BY <2>3, <3>2, PlainWalks, FileWalks, HardlinkWalks
    <3>. QED
      BY <1>1, <3>1, <3>3 DEF RestoreInv
  <2>4. ASSUME NEW p \in todo, verify_file(p) PROVE RestoreInv'
    <3>1. command' \in {"verify", "over"} /\ result' \in {"none", "died"}
      BY <2>4 DEF verify_file, VerifyInv
    <3>. QED
      BY <1>1, <3>1 DEF RestoreInv
  <2>5. CASE command_ends
    <3>1. /\ command \in {"restore", "verify"} /\ todo = {} /\ command' = "over"
          /\ result' = IF command = "restore" THEN "restored" ELSE "verified"
          /\ UNCHANGED <<gens, damage, gen, todo, names, inodes, links, failed>>
      BY <2>5 DEF command_ends, restVars
    <3>. QED
      BY <1>1, <3>1, WalkInvSame DEF RestoreInv
  <2>. QED
    BY <1>5, <2>1, <2>2, <2>3, <2>4, <2>5 DEF RestoreNext
<1>. QED
  BY <1>2, <1>3, <1>4, <1>5 DEF AtRestNext

LEMMA RestoreInvStarts ==
  ASSUME RestInit, RestoreInit
  PROVE  RestoreInv
<1>1. PICK r \in Repositories : gens = r.gens /\ store = r.store
  BY DEF RestInit
<1>2. NlinksFit
  BY <1>1, RepositoriesAssumption DEF NlinksFit, RegularFiles, HasChunks
<1>. QED
  BY <1>2 DEF RestoreInv, RestInit, RestoreInit

LEMMA RestoreInvTells ==
  ASSUME Kept, RestoreInv
  PROVE  RestoreIsRight
<1> SUFFICES ASSUME result = "restored"
             PROVE  IF failed THEN \/ UsedChunks(gen) \cap damage # {}
                                   \/ Unfinished(gen) # {}
                    ELSE \A p \in DOMAIN gens[gen].files :
                           (p \in RegularFiles(gen) /\ Mistaken(p)) \/ RestoredRight(p)
  BY DEF RestoreIsRight
<1>1. /\ todo = {} /\ WalkFits /\ NamesFit /\ InodesFit /\ LinksFit /\ AlikeFit
      /\ failed => Excused
  BY DEF RestoreInv, WalkInv
<1>2. Walked = Files /\ Files = DOMAIN gens[gen].files
  BY <1>1 DEF Walked, Files
<1>3. ASSUME ~failed, NEW p \in Files, ~(p \in RegularFiles(gen) /\ Mistaken(p))
      PROVE  RestoredRight(p)
  <2>. DEFINE l == names[p]
  <2>1. NameFits(p) /\ l \in Files /\ names[l] = l /\ InodeFits(l) /\ p \in DOMAIN names
    BY <1>1, <1>2 DEF NamesFit, NameFits, InodesFit
  <2>2. l = p \/ /\ p \in RegularFiles(gen) /\ l \in RegularFiles(gen) /\ Entry(p).nlink > 1
                 /\ l \in NamesOf(p) /\ ~Mistaken(p)
    BY <1>3, <2>1 DEF NameFits, SameInode, NamesOf
  <2>3. /\ Entry(l).kind = Entry(p).kind /\ Entry(l).mtime = Entry(p).mtime
        /\ Entry(p).kind = "file" => Entry(l).md5 = Entry(p).md5
    BY <2>2, MistakenAlike DEF RegularFiles, Entry
  <2>4. /\ inodes[l].kind = Entry(p).kind /\ inodes[l].mtime = Entry(p).mtime
        /\ Entry(p).kind = "file" => inodes[l].data = Entry(p).md5
    BY <1>3, <2>1, <2>3 DEF InodeFits
  <2>5. ASSUME NEW q \in RegularFiles(gen), p \in RegularFiles(gen), names[p] = names[q]
        PROVE  p = q \/ SameInode(p, q)
    <3>1. NameFits(q)
      BY <1>1, <1>2, FilesAre DEF NamesFit
    <3>. QED
      BY <2>1, <2>5, <3>1 DEF NameFits, SameInode
  <2>6. ASSUME NEW q \in RegularFiles(gen), p \in RegularFiles(gen), SameInode(p, q)
        PROVE  names[p] = names[q]
    <3>1. q \in NamesOf(p) /\ Entry(p).nlink > 1 /\ q \in Walked
      BY <1>1, <1>2, <2>6, FilesAre DEF NamesOf, SameInode
    <3>2. AlikeFits(p)
      BY <1>1, <1>2, <1>3, <2>6, <3>1 DEF AlikeFit
    <3>. QED
      BY <3>1, <3>2 DEF AlikeFits
  <2>7. Entry(p).kind = "file" => p \in RegularFiles(gen)
    BY <1>1, FilesAre
  <2>. QED
    BY <2>1, <2>4, <2>5, <2>6, <2>7 DEF RestoredRight
<1>. QED
  BY <1>1, <1>2, <1>3 DEF Excused

(* A restore that ends without errors has restored every file of the       *)
(* generation with its kind, contents, modification time and other names,  *)
(* and errors have a cause, for any repository and any damage before or    *)
(* while it runs.                                                          *)
THEOREM RestoreTells == AtRestSpec => []RestoreIsRight
<1>. DEFINE RInv == Kept /\ VerifyInv /\ RestoreInv
<1>1. AtRestInit => RInv
  <2>1. RestInit /\ RestoreInit => VerifyInv
    BY DEF RestInit, RestoreInit, VerifyInv
  <2>. QED
    BY <2>1, KeptStarts, RestoreInvStarts DEF AtRestInit
<1>2. RInv /\ [AtRestNext]_atRestVars => RInv'
  BY KeptHolds, VerifyInvHolds, RestoreInvHolds
<1>3. RInv => RestoreIsRight
  BY RestoreInvTells
<1>. HIDE DEF RInv
<1>. QED
  BY <1>1, <1>2, <1>3, PTL DEF AtRestSpec
=============================================================================
