--------------------------------- MODULE Fsck ---------------------------------
(***************************************************************************)
(* The fsck command (plugins/fsck_plugin.py): a list of work items, each   *)
(* of which checks one thing and puts the items it finds at the front of   *)
(* the list.  What was seen in the end tells which chunks nobody uses.     *)
(* The B-tree checks of the larch library are left out.                    *)
(***************************************************************************)
EXTENDS AtRest

CONSTANTS
  Clients,   \* names of clients
  Settings   \* sets of fsck settings that are tried

ASSUME ClientsAssumption ==
  /\ IsFiniteSet(Clients)
  /\ \A r \in Repositories : \A g \in DOMAIN r.gens : r.gens[g].client \in Clients

VARIABLES
  work,      \* the work items, next first
  final,     \* whether CheckForExtraChunks is still in final_items
  settings,  \* the fsck settings that are on
  seen,      \* chunkids_seen
  summers,   \* the checksummers of files: <<generation, path>> -> what was added
  alarms,    \* the errors that have been reported
  outcome    \* of the last fsck: "none", "clean", "errors" or "died"

fsckVars == <<work, final, settings, seen, summers, alarms, outcome>>

Item(what, client, g, path, c) ==
  [what |-> what, client |-> client, gen |-> g, path |-> path, chunk |-> c]
Nothing == "none"

FsckInit ==
  /\ work = << >> /\ final = FALSE /\ settings = {} /\ seen = {}
  /\ summers = << >> /\ alarms = {} /\ outcome = "none"

Removing == settings \cap {"rm-unused", "fix"} # {}

(* Faulty variant: the last generations are enough to know what is used.   *)
FaultyPartial == {"ignore-chunks", "skip-files", "skip-dirs", "skip-generations", "ignore-client"}

Partial == {"ignore-chunks", "skip-files", "skip-dirs", "skip-generations",
            "last-generation-only", "ignore-client"}

(* fsck.  lock_everything keeps other clients out.                         *)
fsck_starts ==
  /\ Starts("fsck")
  /\ settings' \in Settings
  /\ work' = <<Item("repository", Nothing, 0, Top, Nothing)>>
  /\ final' = (settings' \cap Partial = {})
  /\ UNCHANGED <<restVars, seen, summers, alarms, outcome>>

(* The first item has been done: more are put in front of the others, and  *)
(* when none is left the final items follow.                               *)
Working(what) == command = "fsck" /\ work # << >> /\ Head(work).what = what

Done(more) ==
  LET rest == more \o Tail(work)
  IN  /\ work' = IF rest = << >> /\ final
                 THEN <<Item("extra", Nothing, 0, Top, Nothing)>> ELSE rest
      /\ final' = (final /\ rest # << >>)
      /\ UNCHANGED <<gens, store, damage, command, settings, outcome, before>>

Alarm(what, holds) == alarms' = IF holds THEN alarms \cup {what} ELSE alarms

GenerationsOf(client) == {g \in DOMAIN gens : gens[g].client = client}

(* CheckRepository.                                                        *)
check_repository ==
  /\ Working("repository")
  /\ Done(<<Item("clientlist", Nothing, 0, Top, Nothing)>>)
  /\ UNCHANGED <<sums, seen, summers, alarms>>

(* CheckClientlist.  --fsck-ignore-client names one client.                *)
check_clientlist ==
  /\ Working("clientlist")
  /\ LET ignored == IF "ignore-client" \in settings THEN {CHOOSE c \in Clients : TRUE} ELSE {}
         checked == SetToSeq(Clients \ ignored)
     IN  Done([i \in DOMAIN checked |-> Item("client", checked[i], 0, Top, Nothing)])
  /\ UNCHANGED <<sums, seen, summers, alarms>>

(* CheckClient; its generation ids are different in this model, and their  *)
(* order makes no difference.                                              *)
check_client ==
  /\ Working("client")
  /\ LET client == Head(work).client
         all    == GenerationsOf(client)
         some   == IF "skip-generations" \in settings THEN {}
                   ELSE IF "last-generation-only" \in settings
                   THEN {g \in all : \A h \in all : h <= g} ELSE all
         order  == SetToSeq(some)
     IN  Done([i \in DOMAIN order |-> Item("generation", client, order[i], Top, Nothing)])
  /\ UNCHANGED <<sums, seen, summers, alarms>>

(* CheckGeneration.                                                        *)
check_generation ==
  /\ Working("generation")
  /\ Done(IF "skip-dirs" \in settings THEN << >>
           ELSE <<[Head(work) EXCEPT !.what = "dir"]>>)
  /\ UNCHANGED <<sums, seen, summers, alarms>>

(* Faulty variant: directories are not gone into.                          *)
FaultyDirectory ==
  /\ Working("dir")
  /\ LET item  == Head(work)
         files == gens[item.gen].files
         order == SetToSeq({p \in DOMAIN files \ {Top} :
                              DirOf[p] = item.path /\ files[p].kind # "dir"})
     IN  Done([i \in DOMAIN order |-> [item EXCEPT !.path = order[i], !.what = "file"]])
  /\ UNCHANGED <<sums, seen, summers, alarms>>

(* CheckDirectory; the order of its files makes no difference.             *)
check_directory ==
  /\ Working("dir")
  /\ LET item  == Head(work)
         files == gens[item.gen].files
         kids  == {p \in DOMAIN files \ {Top} : DirOf[p] = item.path}
         kept  == IF "skip-files" \in settings
                  THEN {p \in kids : files[p].kind = "dir"} ELSE kids
         order == SetToSeq(kept)
     IN  Done([i \in DOMAIN order |->
                  [item EXCEPT !.path = order[i],
                               !.what = IF files[order[i]].kind = "dir" THEN "dir" ELSE "file"]])
  /\ UNCHANGED <<sums, seen, summers, alarms>>

(* CheckFile: its chunks, and then its checksum.                           *)
check_file ==
  /\ Working("file")
  /\ LET item   == Head(work)
         entry  == gens[item.gen].files[item.path]
         key    == <<item.gen, item.path>>
         chunks == [i \in DOMAIN entry.chunks |->
                      [item EXCEPT !.what = "chunk", !.chunk = entry.chunks[i]]]
         sum    == IF "skip-checksums" \in settings THEN << >>
                   ELSE <<[item EXCEPT !.what = "checksum"]>>
     IN  IF entry.kind = "file" /\ "ignore-chunks" \notin settings
         THEN /\ Done(chunks \o sum)
              /\ summers' = [k \in DOMAIN summers \cup {key} |->
                               IF k = key THEN << >> ELSE summers[k]]
         ELSE Done(<< >>) /\ UNCHANGED summers
  /\ UNCHANGED <<sums, seen, alarms>>

(* validate_chunk_content: a chunk that is not in the chunklist is assumed *)
(* to be right.                                                            *)
validate_chunk_content(c) == c \in DOMAIN sums => store[c] = sums[c]

(* Faulty variant: without checksums a chunk is not even noticed.          *)
FaultyChunk ==
  /\ Working("chunk")
  /\ LET item == Head(work)
         c    == item.chunk
         key  == <<item.gen, item.path>>
         read == store[c] # Lost /\ "skip-checksums" \notin settings
     IN  /\ read => Readable(c)
         /\ summers' = IF read THEN [summers EXCEPT ![key] = Append(@, store[c])]
                       ELSE summers
         /\ alarms' = alarms
              \cup (IF store[c] = Lost THEN {<<"missing", c>>} ELSE {})
              \cup (IF read /\ ~validate_chunk_content(c) THEN {<<"corrupted", c>>} ELSE {})
         /\ seen' = IF read THEN seen \cup {c} ELSE seen
  /\ Done(<< >>)
  /\ UNCHANGED sums

(* CheckChunk.                                                             *)
check_chunk ==
  /\ Working("chunk")
  /\ LET item == Head(work)
         c    == item.chunk
         key  == <<item.gen, item.path>>
         read == store[c] # Lost /\ "skip-checksums" \notin settings
     IN  /\ read => Readable(c)
         /\ summers' = IF read THEN [summers EXCEPT ![key] = Append(@, store[c])]
                       ELSE summers
         /\ alarms' = alarms
              \cup (IF store[c] = Lost THEN {<<"missing", c>>} ELSE {})
              \cup (IF read /\ ~validate_chunk_content(c) THEN {<<"corrupted", c>>} ELSE {})
         /\ seen' = seen \cup {c}
  /\ Done(<< >>)
  /\ UNCHANGED sums

(* The exception a chunk raises that cannot be read ends fsck; nothing     *)
(* catches it, and the locks stay.                                         *)
fsck_dies ==
  /\ Working("chunk")
  /\ store[Head(work).chunk] = Garbled /\ "skip-checksums" \notin settings
  /\ work' = << >> /\ final' = FALSE
  /\ outcome' = "died" /\ command' = "over"
  /\ summers' = << >>
  /\ UNCHANGED <<restVars, settings, seen, alarms, before>>

(* CheckFileChecksum.                                                      *)
check_file_checksum ==
  /\ Working("checksum")
  /\ LET item == Head(work)
         key  == <<item.gen, item.path>>
     IN  /\ Alarm(<<"checksum", key>>, summers[key] # gens[item.gen].files[item.path].md5)
         /\ summers' = [k \in DOMAIN summers \ {key} |-> summers[k]]
  /\ Done(<< >>)
  /\ UNCHANGED <<sums, seen>>

(* CheckForExtraChunks: remove_chunk_from_indexes_for_all_clients; the     *)
(* chunk itself stays.                                                     *)
check_extra_chunks ==
  /\ Working("extra")
  /\ LET unseen == get_chunk_ids \ seen
     IN  IF Removing
         THEN /\ sums' = [c \in DOMAIN sums \ unseen |-> sums[c]]
              /\ UNCHANGED alarms
         ELSE /\ alarms' = alarms \cup {<<"unused", c>> : c \in unseen}
              /\ UNCHANGED sums
  /\ Done(<< >>)
  /\ UNCHANGED <<seen, summers>>

fsck_ends ==
  /\ command = "fsck" /\ work = << >>
  /\ outcome' = IF alarms = {} THEN "clean" ELSE "errors"
  /\ command' = "over"
  /\ UNCHANGED <<restVars, work, final, settings, seen, summers, alarms, before>>

FsckNext ==
  \/ fsck_starts \/ fsck_ends \/ fsck_dies
  \/ check_repository \/ check_clientlist \/ check_client \/ check_generation
  \/ check_directory \/ check_file \/ check_chunk \/ check_file_checksum
  \/ check_extra_chunks

FsckTypeOK ==
  /\ \A i \in DOMAIN work : work[i].gen \in DOMAIN gens \cup {0}
  /\ final \in BOOLEAN /\ settings \in Settings \cup {{}} /\ seen \subseteq DOMAIN store
  /\ DOMAIN summers \subseteq (DOMAIN gens) \X (DOMAIN DirOf)
  /\ outcome \in {"none", "clean", "errors", "died"}

-----------------------------------------------------------------------------
(* fsck checks everything unless a setting tells it to leave something     *)
(* out.                                                                    *)
Complete == settings \subseteq {"rm-unused", "fix"}

(* When a complete fsck ends without errors and nothing was damaged while  *)
(* it ran, every file of every generation is what was backed up: all of    *)
(* its chunks are there and its contents have its checksum.                *)
CleanFsckMeansWhole ==
  outcome = "clean" /\ Complete /\ damage = before =>
    \A g \in DOMAIN gens : \A p \in RegularFiles(g) :
      LET entry == gens[g].files[p]
      IN  AllReadable(entry.chunks) /\ Contents(entry.chunks) = entry.md5

(* fsck raises no false alarm: the contents of a file or chunk are only    *)
(* called wrong after damage, or when the file was never finished, and a   *)
(* chunk is only called unused when no generation uses it.                 *)
AlarmsAreReal ==
  \A alarm \in alarms :
    CASE alarm[1] \in {"missing", "corrupted"} -> alarm[2] \in damage
      [] alarm[1] = "checksum" ->
           \/ alarm[2][2] \in Unfinished(alarm[2][1])
           \/ ToSet(gens[alarm[2][1]].files[alarm[2][2]].chunks) \cap damage # {}
      [] OTHER -> \A g \in DOMAIN gens : alarm[2] \notin UsedChunks(g)

(* Whatever the settings, fsck --fsck-rm-unused takes no chunk that a      *)
(* generation uses out of the indexes.                                     *)
UsedStayIndexed == \A g \in DOMAIN gens : UsedChunks(g) \subseteq DOMAIN sums
=============================================================================
