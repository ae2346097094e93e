------------------------ MODULE RepositoryInterface ------------------------
(***************************************************************************)
(* What a repository promises to the commands that use it, whatever its    *)
(* format (repo_interface.py: RepositoryInterface and the tests every      *)
(* format has to pass, RepositoryInterfaceTests).                          *)
(*                                                                         *)
(* A repository has parts: the client list, the data of each client and    *)
(* the chunk indexes.  A process locks a part, works on its own copy of    *)
(* it, and commits the copy; unlocking a part forgets what has not been    *)
(* committed.  A client is known by an identity that stays the same when   *)
(* it is renamed; its data is the sequence of its generations, and of a    *)
(* generation only the chunks its files use.  The indexes are the set of   *)
(* uses that have been recorded: which client uses which chunk, found by   *)
(* which token.                                                            *)
(***************************************************************************)
EXTENDS Naturals, Sequences, FiniteSets

CONSTANTS
  Procs,    \* the processes
  Names,    \* names of clients
  Ids,      \* identities of clients
  Chunks,   \* identifiers of chunks
  Tokens    \* what prepare_chunk_for_indexes makes of contents

CONSTANTS Nobody, Dead, ListPart, IndexPart

Parts == {ListPart, IndexPart} \cup Ids

VARIABLES
  list,      \* the committed client list: name -> identity
  used,      \* identities that have been given to clients
  gens,      \* the committed generations of each client
  index,     \* the committed uses: <<chunk, token, name>>
  holder,    \* who has locked a part: a process, nobody, or one that died
  copies     \* the working copies of each process, for the parts it has locked

vars == <<list, used, gens, index, holder, copies>>

Committed(part) ==
  IF part = ListPart THEN list ELSE IF part = IndexPart THEN index ELSE gens[part]

Init ==
  /\ list = << >>
  /\ used = {}
  /\ gens = [id \in Ids |-> << >>]
  /\ index = {}
  /\ holder = [part \in Parts |-> Nobody]
  /\ copies = [p \in Procs |-> << >>]

Holds(p, part) == holder[part] = p

Without(f, x) == [y \in DOMAIN f \ {x} |-> f[y]]
With(f, x, v) == [y \in DOMAIN f \cup {x} |-> IF y = x THEN v ELSE f[y]]

-----------------------------------------------------------------------------
(* Locks.                                                                  *)

Lock(p, part) ==
  /\ holder[part] = Nobody
  /\ part \in Ids => part \in used
  /\ holder' = [holder EXCEPT ![part] = p]
  /\ copies' = [copies EXCEPT ![p] = With(@, part, Committed(part))]
  /\ UNCHANGED <<list, used, gens, index>>

Unlock(p, part) ==
  /\ Holds(p, part)
  /\ holder' = [holder EXCEPT ![part] = Nobody]
  /\ copies' = [copies EXCEPT ![p] = Without(@, part)]
  /\ UNCHANGED <<list, used, gens, index>>

Commit(p, part) ==
  /\ Holds(p, part)
  /\ list' = IF part = ListPart THEN copies[p][part] ELSE list
  /\ index' = IF part = IndexPart THEN copies[p][part] ELSE index
  /\ gens' = IF part \in Ids THEN [gens EXCEPT ![part] = copies[p][part]] ELSE gens
  /\ UNCHANGED <<used, holder, copies>>

(* The lock of a process that has died can be forced open.                 *)
Force(part) ==
  /\ holder[part] = Dead
  /\ holder' = [holder EXCEPT ![part] = Nobody]
  /\ UNCHANGED <<list, used, gens, index, copies>>

(* A process dies: its changes are lost, its locks stay.                   *)
Crash(p) ==
  /\ holder' = [part \in Parts |-> IF Holds(p, part) THEN Dead ELSE holder[part]]
  /\ copies' = [copies EXCEPT ![p] = << >>]
  /\ UNCHANGED <<list, used, gens, index>>

-----------------------------------------------------------------------------
(* Changes to the client list.                                             *)

Change(p, part, copy) ==
  /\ Holds(p, part)
  /\ copies' = [copies EXCEPT ![p][part] = copy]
  /\ UNCHANGED <<list, gens, index, holder>>

AddClient(p, n) ==
  \E id \in Ids \ used :
    /\ Holds(p, ListPart)
    /\ n \notin DOMAIN copies[p][ListPart]
    /\ used' = used \cup {id}
    /\ Change(p, ListPart, With(copies[p][ListPart], n, id))

RemoveClient(p, n) ==
  /\ Holds(p, ListPart)
  /\ n \in DOMAIN copies[p][ListPart]
  /\ Change(p, ListPart, Without(copies[p][ListPart], n))
  /\ UNCHANGED used

RenameClient(p, old, new) ==
  /\ Holds(p, ListPart)
  /\ old \in DOMAIN copies[p][ListPart]
  /\ new \notin DOMAIN copies[p][ListPart]
  /\ Change(p, ListPart,
            With(Without(copies[p][ListPart], old), new, copies[p][ListPart][old]))
  /\ UNCHANGED used

-----------------------------------------------------------------------------
(* Changes to a client.                                                    *)

(* A new generation starts as a copy of the one before it.                 *)
CreateGeneration(p, id) ==
  /\ Holds(p, id)
  /\ LET old == copies[p][id]
     IN  Change(p, id, Append(old, IF old = << >> THEN {} ELSE old[Len(old)]))
  /\ UNCHANGED used

AppendFileChunkId(p, id, c) ==
  /\ Holds(p, id)
  /\ copies[p][id] # << >>
  /\ Change(p, id, [copies[p][id] EXCEPT ![Len(copies[p][id])] = @ \cup {c}])
  /\ UNCHANGED used

RemoveGeneration(p, id) ==
  /\ Holds(p, id)
  /\ \E i \in DOMAIN copies[p][id] :
       Change(p, id, [j \in 1 .. (Len(copies[p][id]) - 1) |->
                        copies[p][id][IF j < i THEN j ELSE j + 1]])
  /\ UNCHANGED used

-----------------------------------------------------------------------------
(* Changes to the chunk indexes.                                           *)

PutChunkIntoIndexes(p, c, t, n) ==
  /\ Holds(p, IndexPart)
  /\ Change(p, IndexPart, copies[p][IndexPart] \cup {<<c, t, n>>})
  /\ UNCHANGED used

RemoveChunkFromIndexes(p, c, n) ==
  /\ Holds(p, IndexPart)
  /\ Change(p, IndexPart, {u \in copies[p][IndexPart] : u[1] # c \/ u[3] # n})
  /\ UNCHANGED used

-----------------------------------------------------------------------------
Next ==
  \/ \E p \in Procs, part \in Parts : Lock(p, part) \/ Unlock(p, part) \/ Commit(p, part)
  \/ \E part \in Parts : Force(part)
  \/ \E p \in Procs : Crash(p)
  \/ \E p \in Procs, n \in Names : AddClient(p, n) \/ RemoveClient(p, n)
  \/ \E p \in Procs, old, new \in Names : RenameClient(p, old, new)
  \/ \E p \in Procs, id \in Ids : CreateGeneration(p, id) \/ RemoveGeneration(p, id)
  \/ \E p \in Procs, id \in Ids, c \in Chunks : AppendFileChunkId(p, id, c)
  \/ \E p \in Procs, c \in Chunks, t \in Tokens, n \in Names : PutChunkIntoIndexes(p, c, t, n)
  \/ \E p \in Procs, c \in Chunks, n \in Names : RemoveChunkFromIndexes(p, c, n)

Spec == Init /\ [][Next]_vars
=============================================================================
