----------------------------- MODULE FilesProofs -----------------------------
(***************************************************************************)
(* The files of a repository, below its formats.  Who is given access to a *)
(* toplevel keeps it, and who is removed stays out: for any users and      *)
(* toplevels, with processes that die anywhere (KeysAreKept of RepoFiles). *)
(* What has been written is read back through the filters (WrittenIsRead). *)
(* And what a call has written stays (WrittenStays of VirtualFiles), for   *)
(* any number of processes and files, on all three kinds of file systems.  *)
(***************************************************************************)
EXTENDS RepoFiles, VirtualFiles, FiniteSetTheorems, TLAPS

(* RepoFiles                                                               *)

Stages    == {"off", "running", "key", "userkeys"}
Processes == [at : Stages, top : Toplevels \cup {""}, encrypt : BOOLEAN]
Tasks     == [by : Users \cup {""}, op : {"none", "add", "remove"}, key : Users \cup {""},
              left : SUBSET Toplevels, top : Toplevels \cup {""}]

TypeInv ==
  /\ exists \subseteq Toplevels
  /\ keyfile \in [Toplevels -> SUBSET Users]
  /\ userkeys \in [Toplevels -> {NoRing} \cup SUBSET Users]
  /\ process \in [Users -> Processes]
  /\ symkeys \in [Users -> SUBSET Toplevels]
  /\ task \in Tasks
  /\ granted \in [Toplevels -> SUBSET Users]
  /\ denied \in [Toplevels -> SUBSET Users]

(* Nobody can be listed, allowed or removed in a toplevel without the file *)
(* userkeys, except who is making the toplevel or has died while making it.*)
Making(u, t) == process[u].at \in {"key", "userkeys"} /\ process[u].top = t

MakingInv ==
  /\ \A u \in Users : process[u].at \in {"key", "userkeys"} => process[u].top \in exists
  /\ \A t \in Toplevels \ exists : userkeys[t] = NoRing /\ granted[t] = {} /\ denied[t] = {}
  /\ \A u \in Users, t \in Toplevels : Making(u, t) =>
       /\ userkeys[t] = NoRing /\ denied[t] = {}
       /\ granted[t] \subseteq {u}
       /\ \A v \in Users : Making(v, t) => v = u

(* The file userkeys is ahead of the file key, by the step that the key    *)
(* command is in the middle of.                                            *)
TaskInv ==
  /\ task.by # "" => task.op \in {"add", "remove"} /\ task.key \in Users
  /\ task.top # "" =>
       /\ task.by # "" /\ userkeys[task.top] # NoRing
       /\ task.op = "add" <=> task.key \in userkeys[task.top]

RingInv ==
  \A t \in Toplevels : userkeys[t] # NoRing =>
    granted[t] \subseteq userkeys[t] /\ denied[t] \cap userkeys[t] = {}

FilesInv == TypeInv /\ MakingInv /\ TaskInv /\ RingInv /\ KeysAreKept

-----------------------------------------------------------------------------

(* Nothing is made by a process that is at no stage of it.                 *)
LEMMA FewerMakers ==
  ASSUME TypeInv, MakingInv, UNCHANGED <<exists, userkeys, granted, denied>>,
         \A v \in Users : process'[v] = process[v] \/ process'[v].at \notin {"key", "userkeys"}
  PROVE  MakingInv'
  BY DEF MakingInv, Making

(* Start: a process that is making nothing yet.                            *)
LEMMA StartKeeps ==
  ASSUME FilesInv, NEW u \in Users, NEW encrypt \in BOOLEAN, Start(u, encrypt)
  PROVE  FilesInv'
<1>1. TypeInv'
  BY DEF FilesInv, Start, TypeInv, Processes, Stages
<1>2. MakingInv'
  BY FewerMakers DEF FilesInv, Start, TypeInv
<1> QED
  BY <1>1, <1>2 DEF FilesInv, Start, TaskInv, RingInv, KeysAreKept

(* End: a toplevel that was being made stays without userkeys.             *)
LEMMA EndKeeps ==
  ASSUME FilesInv, NEW u \in Users, End(u)
  PROVE  FilesInv'
<1>1. TypeInv'
  BY DEF FilesInv, End, TypeInv, Processes, Stages, Tasks, Off, NoTask
<1>2. MakingInv'
  BY FewerMakers DEF FilesInv, End, TypeInv, Off
<1>3. TaskInv'
  BY DEF FilesInv, End, TaskInv, NoTask
<1> QED
  BY <1>1, <1>2, <1>3 DEF FilesInv, End, RingInv, KeysAreKept

(* create_and_init_toplevel: nobody makes a toplevel that does not exist.  *)
LEMMA CreateKeeps ==
  ASSUME FilesInv, NEW u \in Users, NEW t \in Toplevels, create_and_init_toplevel(u, t)
  PROVE  FilesInv'
<1>1. TypeInv'
  BY DEF FilesInv, create_and_init_toplevel, Stage, TypeInv, Processes, Stages
<1>2. \A v \in Users : \/ process'[v] = process[v]
                       \/ v = u /\ process'[v].at = "key" /\ process'[v].top = t
  BY DEF FilesInv, create_and_init_toplevel, Stage, TypeInv
<1>3. MakingInv'
  BY <1>2 DEF FilesInv, create_and_init_toplevel, MakingInv, Making
<1> QED
  BY <1>1, <1>3 DEF FilesInv, create_and_init_toplevel, TaskInv, RingInv, KeysAreKept

(* write_key: the one who makes the toplevel gets access.                  *)
LEMMA WriteKeyKeeps ==
  ASSUME FilesInv, NEW u \in Users, write_key(u)
  PROVE  FilesInv'
<1> DEFINE t == process[u].top
<1>1. t \in Toplevels /\ Making(u, t)
  BY DEF FilesInv, write_key, TypeInv, MakingInv, Making
<1>2. TypeInv'
  BY <1>1 DEF FilesInv, write_key, Stage, TypeInv, Processes, Stages
<1>3. \A v \in Users : /\ process'[v].top = process[v].top
                       /\ v # u => process'[v].at = process[v].at
  BY DEF FilesInv, write_key, Stage, TypeInv
<1>4. \A s \in Toplevels : IF s = t THEN granted'[s] = {u} /\ keyfile'[s] = {u}
                           ELSE granted'[s] = granted[s] /\ keyfile'[s] = keyfile[s]
  BY <1>1 DEF FilesInv, write_key, TypeInv
<1>5. MakingInv'
  BY <1>1, <1>3, <1>4 DEF FilesInv, write_key, MakingInv, Making
<1>6. RingInv'
  BY <1>1, <1>4 DEF FilesInv, write_key, MakingInv, RingInv
<1>7. KeysAreKept'
  BY <1>1, <1>4 DEF FilesInv, write_key, MakingInv, KeysAreKept
<1> QED
  BY <1>2, <1>5, <1>6, <1>7 DEF FilesInv, write_key, TaskInv

(* write_userkeys: the ring starts with the one who has access.            *)
LEMMA WriteUserkeysKeeps ==
  ASSUME FilesInv, NEW u \in Users, write_userkeys(u)
  PROVE  FilesInv'
<1> DEFINE t == process[u].top
<1>1. t \in Toplevels /\ Making(u, t)
  BY DEF FilesInv, write_userkeys, TypeInv, MakingInv, Making
<1>2. TypeInv'
  BY <1>1 DEF FilesInv, write_userkeys, Stage, TypeInv, Processes, Stages
<1>3. process'[u].at = "running" /\ \A v \in Users \ {u} : process'[v] = process[v]
  BY DEF FilesInv, write_userkeys, Stage, TypeInv
<1>4. userkeys'[t] = {u} /\ \A s \in Toplevels \ {t} : userkeys'[s] = userkeys[s]
  BY <1>1 DEF FilesInv, write_userkeys, TypeInv
<1>5. MakingInv'
  <2>1. \A v \in Users, s \in Toplevels : Making(v, s)' => Making(v, s) /\ s # t
    BY <1>1, <1>3 DEF FilesInv, MakingInv, Making
  <2>2. t \in exists
    BY <1>1 DEF FilesInv, MakingInv, Making
  <2>3. \A v \in Users : process'[v].at \in {"key", "userkeys"} => process'[v] = process[v]
    BY <1>3
  <2>4. \A v \in Users : process'[v].at \in {"key", "userkeys"} => process'[v].top \in exists'
    BY <2>3 DEF FilesInv, write_userkeys, MakingInv
  <2>5. \A s \in Toplevels \ exists' : userkeys'[s] = NoRing /\ granted'[s] = {} /\ denied'[s] = {}
    BY <1>4, <2>2 DEF FilesInv, write_userkeys, MakingInv
  <2>6. \A v \in Users, s \in Toplevels : Making(v, s)' =>
          /\ userkeys'[s] = NoRing /\ denied'[s] = {}
          /\ granted'[s] \subseteq {v}
          /\ \A w \in Users : Making(w, s)' => w = v
    BY <1>4, <2>1 DEF FilesInv, write_userkeys, MakingInv
  <2> QED
    BY <2>4, <2>5, <2>6 DEF MakingInv
<1>6. TaskInv'
  <2>1. task.top # "" => task.top \in Toplevels \ {t}
    BY <1>1 DEF FilesInv, TypeInv, Tasks, TaskInv, MakingInv
  <2> QED
    BY <1>4, <2>1 DEF FilesInv, write_userkeys, TaskInv
<1>7. RingInv'
  BY <1>1, <1>4 DEF FilesInv, write_userkeys, MakingInv, RingInv
<1> QED
  BY <1>2, <1>5, <1>6, <1>7 DEF FilesInv, write_userkeys, KeysAreKept

(* change_userkeys: access is taken when a removal begins.                 *)
LEMMA ChangeKeeps ==
  ASSUME FilesInv, NEW u \in Users, NEW t \in Toplevels, change_userkeys(u, t)
  PROVE  FilesInv'
<1> DEFINE k == task.key
           ring == IF task.op = "add" THEN userkeys[t] \cup {k} ELSE userkeys[t] \ {k}
<1>1. task.op \in {"add", "remove"} /\ k \in Users /\ task.by # "" /\ userkeys[t] # NoRing
  BY RepoFilesAssumption DEF FilesInv, change_userkeys, CommandOf, TaskInv
<1>2. ring \in SUBSET Users /\ ring # NoRing
  BY <1>1, RepoFilesAssumption DEF FilesInv, TypeInv, NoRing
<1>3. TypeInv'
  <2>1. task' \in Tasks
    BY DEF FilesInv, change_userkeys, TaskAt, TypeInv, Tasks
  <2>2. userkeys' \in [Toplevels -> {NoRing} \cup SUBSET Users]
    BY <1>2 DEF FilesInv, change_userkeys, TypeInv
  <2>3. granted' \in [Toplevels -> SUBSET Users]
    <3>1. /\ granted \in [Toplevels -> SUBSET Users]
          /\ \/ granted' = granted
             \/ granted' = [granted EXCEPT ![t] = @ \ {task.key}]
      BY DEF FilesInv, change_userkeys, TypeInv
    <3>2. granted[t] \ {task.key} \in SUBSET Users
      BY <3>1
    <3> QED
      BY <3>1, <3>2
  <2>5. denied' \in [Toplevels -> SUBSET Users]
    <3>1. /\ denied \in [Toplevels -> SUBSET Users]
          /\ \/ denied' = denied
             \/ denied' = [denied EXCEPT ![t] = @ \ {task.key}]
      BY DEF FilesInv, change_userkeys, TypeInv
    <3>2. denied[t] \ {task.key} \in SUBSET Users
      BY <3>1
    <3> QED
      BY <3>1, <3>2
  <2>4. symkeys' \in [Users -> SUBSET Toplevels]
    BY DEF FilesInv, change_userkeys, TypeInv
  <2> QED
    BY <2>1, <2>2, <2>3, <2>4, <2>5 DEF FilesInv, change_userkeys, TypeInv
<1>4. /\ userkeys'[t] = ring
      /\ granted'[t] = IF task.op = "add" THEN granted[t] ELSE granted[t] \ {k}
      /\ denied'[t] = IF task.op = "add" THEN denied[t] \ {k} ELSE denied[t]
      /\ \A s \in Toplevels \ {t} : /\ userkeys'[s] = userkeys[s]
                                    /\ granted'[s] = granted[s] /\ denied'[s] = denied[s]
  BY DEF FilesInv, change_userkeys, TypeInv
<1>5. MakingInv'
  <2>1. t \in exists /\ \A v \in Users : ~Making(v, t)
    BY <1>1 DEF FilesInv, MakingInv
  <2>2. exists' = exists /\ process' = process
    BY DEF change_userkeys
  <2>3. \A s \in Toplevels \ {t} : /\ userkeys'[s] = userkeys[s]
                                  /\ granted'[s] = granted[s] /\ denied'[s] = denied[s]
    BY <1>4
  <2> QED
    BY <2>1, <2>2, <2>3 DEF FilesInv, MakingInv, Making
<1>6. TaskInv'
  <2>1. /\ task'.by = task.by /\ task'.op = task.op /\ task'.key = k /\ task'.top = t
    BY DEF change_userkeys, TaskAt
  <2>2. task.op = "add" <=> k \in ring
    BY <1>1
  <2>3. userkeys'[task'.top] = ring
    BY <1>4, <2>1
  <2>4. task'.op = "add" <=> task'.key \in userkeys'[task'.top]
    BY <2>1, <2>2, <2>3, Zenon
  <2>5. task'.by # "" /\ userkeys'[task'.top] # NoRing
    BY <1>1, <1>2, <2>1, <2>3
  <2>6. task'.op \in {"add", "remove"} /\ task'.key \in Users
    BY <1>1, <2>1
  <2> QED
    BY <2>4, <2>5, <2>6, Zenon DEF TaskInv
<1>7. RingInv'
  BY <1>1, <1>4 DEF FilesInv, RingInv
<1>8. KeysAreKept'
  BY <1>4 DEF FilesInv, change_userkeys, KeysAreKept
<1> QED
  BY <1>3, <1>5, <1>6, <1>7, <1>8 DEF FilesInv

(* rewrite_symmetric_key: the file key catches up with userkeys.           *)
LEMMA RewriteKeeps ==
  ASSUME FilesInv, NEW u \in Users, rewrite_symmetric_key(u)
  PROVE  FilesInv'
<1> DEFINE t == task.top
           k == task.key
<1>1. /\ task.op \in {"add", "remove"} /\ k \in Users /\ task.by # ""
      /\ t \in Toplevels /\ userkeys[t] # NoRing /\ userkeys[t] \in SUBSET Users
      /\ task.op = "add" <=> k \in userkeys[t]
  BY RepoFilesAssumption DEF FilesInv, rewrite_symmetric_key, TypeInv, Tasks, TaskInv
<1>2. TypeInv'
  <2>1. task' \in Tasks
    BY DEF FilesInv, rewrite_symmetric_key, TaskAt, TypeInv, Tasks, NoTask
  <2>2. keyfile' \in [Toplevels -> SUBSET Users]
    BY <1>1 DEF FilesInv, rewrite_symmetric_key, TypeInv
  <2>3. granted' \in [Toplevels -> SUBSET Users] /\ denied' \in [Toplevels -> SUBSET Users]
    <3>1. CASE task.op = "add"
      <4>1. granted' = [granted EXCEPT ![t] = granted[t] \cup {k}] /\ denied' = denied
        BY <3>1 DEF rewrite_symmetric_key
      <4> QED
        BY <1>1, <4>1 DEF FilesInv, TypeInv
    <3>2. CASE task.op # "add"
      <4>1. denied' = [denied EXCEPT ![t] = denied[t] \cup {k}] /\ granted' = granted
        BY <3>2 DEF rewrite_symmetric_key
      <4> QED
        BY <1>1, <4>1 DEF FilesInv, TypeInv
    <3> QED
      BY <3>1, <3>2
  <2>4. exists' = exists /\ userkeys' = userkeys /\ process' = process /\ symkeys' = symkeys
    BY DEF rewrite_symmetric_key
  <2> QED
    BY <2>1, <2>2, <2>3, <2>4 DEF FilesInv, TypeInv
<1>3. /\ keyfile'[t] = userkeys[t]
      /\ granted'[t] = IF task.op = "add" THEN granted[t] \cup {k} ELSE granted[t]
      /\ denied'[t] = IF task.op = "add" THEN denied[t] ELSE denied[t] \cup {k}
      /\ \A s \in Toplevels \ {t} : /\ keyfile'[s] = keyfile[s]
                                    /\ granted'[s] = granted[s] /\ denied'[s] = denied[s]
  BY <1>1 DEF FilesInv, rewrite_symmetric_key, TypeInv
<1>4. MakingInv'
  <2>1. t \in exists /\ \A v \in Users : ~Making(v, t)
    BY <1>1 DEF FilesInv, MakingInv
  <2>2. exists' = exists /\ userkeys' = userkeys /\ process' = process
    BY DEF rewrite_symmetric_key
  <2>3. \A s \in Toplevels \ {t} : granted'[s] = granted[s] /\ denied'[s] = denied[s]
    BY <1>3
  <2> QED
    BY <2>1, <2>2, <2>3 DEF FilesInv, MakingInv, Making
<1>5. TaskInv'
  BY <1>1 DEF FilesInv, rewrite_symmetric_key, TaskAt, TaskInv, NoTask
<1>6. granted'[t] \subseteq userkeys[t] /\ denied'[t] \cap userkeys[t] = {}
  <2>1. granted[t] \subseteq userkeys[t] /\ denied[t] \cap userkeys[t] = {}
    BY <1>1 DEF FilesInv, RingInv
  <2>2. CASE task.op = "add"
    <3>1. k \in userkeys[t]
      BY <1>1, <2>2
    <3>2. granted'[t] = granted[t] \cup {k} /\ denied'[t] = denied[t]
      BY <1>3, <2>2
    <3> QED
      BY <2>1, <3>1, <3>2
  <2>3. CASE task.op # "add"
    <3>1. k \notin userkeys[t]
      BY <1>1, <2>3
    <3>2. granted'[t] = granted[t] /\ denied'[t] = denied[t] \cup {k}
      BY <1>3, <2>3
    <3> QED
      BY <2>1, <3>1, <3>2
  <2> QED
    BY <2>2, <2>3
<1>7. RingInv'
  BY <1>3, <1>6 DEF FilesInv, rewrite_symmetric_key, RingInv
<1>8. KeysAreKept'
  BY <1>3, <1>6 DEF FilesInv, KeysAreKept
<1> QED
  BY <1>2, <1>4, <1>5, <1>7, <1>8 DEF FilesInv

(* KeyCommand: nothing has been changed yet.                               *)
LEMMA KeyCommandKeeps ==
  ASSUME FilesInv, NEW u \in Users, NEW op \in {"add", "remove"}, NEW k \in Users,
         KeyCommand(u, op, k, Toplevels)
  PROVE  FilesInv'
<1>1. TypeInv'
  BY DEF FilesInv, KeyCommand, TypeInv, Tasks
<1>2. MakingInv'
  BY FewerMakers DEF FilesInv, KeyCommand
<1>3. TaskInv'
  BY DEF FilesInv, KeyCommand, TaskInv
<1> QED
  BY <1>1, <1>2, <1>3 DEF FilesInv, KeyCommand, RingInv, KeysAreKept

(* overwrite_file and cat: only the cache of symmetric keys changes.       *)
LEMMA UseKeeps ==
  ASSUME FilesInv,
         UNCHANGED <<exists, keyfile, userkeys, process, task, granted, denied>>,
         symkeys' \in [Users -> SUBSET Toplevels]
  PROVE  FilesInv'
<1>1. TypeInv' /\ MakingInv'
  BY DEF FilesInv, TypeInv, MakingInv, Making
<1> QED
  BY <1>1 DEF FilesInv, TaskInv, RingInv, KeysAreKept

-----------------------------------------------------------------------------
(* The inductive invariant: for any users and toplevels, the types, who    *)
(* makes a toplevel, how far a key command is, and who is in the ring.     *)
THEOREM Invariance == FilesSpec => []FilesInv
<1>1. ASSUME FilesInit
      PROVE  FilesInv
  <2>1. TypeInv
    BY <1>1 DEF FilesInit, TypeInv, Processes, Stages, Tasks, Off, NoTask
  <2>2. MakingInv
    BY <1>1 DEF FilesInit, MakingInv, Making, Off
  <2>3. TaskInv
    BY <1>1 DEF FilesInit, TaskInv, NoTask
  <2>4. RingInv /\ KeysAreKept
    BY <1>1 DEF FilesInit, RingInv, KeysAreKept
  <2> QED
    BY <2>1, <2>2, <2>3, <2>4 DEF FilesInv
<1>2. ASSUME FilesInv, [FilesNext]_filesVars
      PROVE  FilesInv'
  <2>1. CASE UNCHANGED filesVars
    BY <1>2, <2>1, UseKeeps DEF FilesInv, TypeInv, filesVars
  <2>2. ASSUME NEW u \in Users, NEW encrypt \in BOOLEAN, Start(u, encrypt)
        PROVE  FilesInv'
    BY <1>2, <2>2, StartKeeps
  <2>3. ASSUME NEW u \in Users, End(u) \/ write_key(u) \/ write_userkeys(u) \/ rewrite_symmetric_key(u)
        PROVE  FilesInv'
    BY <1>2, <2>3, EndKeeps, WriteKeyKeeps, WriteUserkeysKeeps, RewriteKeeps
  <2>4. ASSUME NEW u \in Users, NEW t \in Toplevels,
               create_and_init_toplevel(u, t) \/ change_userkeys(u, t)
        PROVE  FilesInv'
    BY <1>2, <2>4, CreateKeeps, ChangeKeeps
  <2>5. ASSUME NEW u \in Users, NEW t \in DataTops, cat(u, t)
        PROVE  FilesInv'
    <3>1. symkeys' \in [Users -> SUBSET Toplevels]
      BY <1>2, <2>5, RepoFilesAssumption DEF cat, FilesInv, TypeInv
    <3> QED
      BY <1>2, <2>5, <3>1, UseKeeps DEF cat
  <2>6. ASSUME NEW u \in Users, NEW t \in DataTops, NEW compress \in BOOLEAN, NEW content \in Data,
               overwrite_file(u, t, compress, content)
        PROVE  FilesInv'
    <3>1. symkeys' \in [Users -> SUBSET Toplevels]
      BY <1>2, <2>6, RepoFilesAssumption DEF overwrite_file, FilesInv, TypeInv
    <3> QED
      BY <1>2, <2>6, <3>1, UseKeeps DEF overwrite_file
  <2>7. ASSUME NEW u \in Users, NEW op \in {"add", "remove"}, NEW k \in Users,
               KeyCommand(u, op, k, Toplevels)
        PROVE  FilesInv'
    BY <1>2, <2>7, KeyCommandKeeps
  <2> QED
    BY <1>2, <2>1, <2>2, <2>3, <2>4, <2>5, <2>6, <2>7 DEF FilesNext
<1> QED
  BY <1>1, <1>2, PTL DEF FilesSpec

(* Who has been given access to a toplevel keeps it until a remove-key     *)
(* begins on it, and who has been removed stays out until an add-key,      *)
(* wherever add_key, remove_key and toplevel_init die.                     *)
THEOREM Keeping == FilesSpec => []KeysAreKept
<1>1. FilesInv => KeysAreKept
  BY DEF FilesInv
<1> QED
  BY <1>1, Invariance, PTL

-----------------------------------------------------------------------------
(* The filters.  The folds are over the two callbacks: the first, then the *)
(* second.                                                                 *)

(* What may be in a file that has this content.                            *)
PlainForm(c) == [tag |-> "", rest |-> c]
Packed(d)    == [tag |-> "deflate", rest |-> [packed |-> d]]
SealedUp(d)  == [tag |-> "encrypt1", rest |-> [sealed |-> d]]
Forms(c)     == {PlainForm(c), Packed(PlainForm(c)), SealedUp(PlainForm(c)),
                 SealedUp(Packed(PlainForm(c)))}

LEMMA MaxIs == Max({1}) = 1 /\ Max({2}) = 2 /\ Max({1, 2}) = 2
<1>1. Max({1}) = 1 /\ Max({2}) = 2
  BY DEF Max
<1>2. \A x \in {1, 2} : (\A y \in {1, 2} : x >= y) <=> x = 2
  OBVIOUS
<1>. QED
  BY <1>1, <1>2 DEF Max

LEMMA CallbacksAre ==
  DOMAIN callbacks = {1, 2} /\ callbacks[1] = "deflate" /\ callbacks[2] = "encrypt1"
  BY DEF callbacks

(* The sets of callbacks that the folds go through.                        *)
LEMMA CallbackSets ==
  /\ \A s \in SUBSET {1, 2} : s \in {{}, {1}, {2}, {1, 2}}
  /\ {{}, {1}, {2}, {1, 2}} \subseteq SUBSET {1, 2}
  /\ {1} # {} /\ {2} # {} /\ {1, 2} # {} /\ {1} # {2} /\ {1, 2} # {1} /\ {1, 2} # {2}
  /\ {1} \ {1} = {} /\ {2} \ {2} = {} /\ {1, 2} \ {2} = {1}
<1>1. \A s \in SUBSET {1, 2} : s \in {{}, {1}, {2}, {1, 2}}
  OBVIOUS
<1>2. {1} # {2} /\ {1, 2} # {1} /\ {1, 2} # {2}
  OBVIOUS
<1>3. {1} \ {1} = {} /\ {2} \ {2} = {} /\ {1, 2} \ {2} = {1}
  OBVIOUS
<1>4. {1} # {} /\ {2} # {} /\ {1, 2} # {}
  OBVIOUS
<1>. QED
  BY <1>1, <1>2, <1>3, <1>4

WriteStep(u, compress, data, f) ==
  LET new == filter_write(f, u, compress, data)
  IN  IF new = data THEN data ELSE [tag |-> f, rest |-> new]

LEMMA TwoWrites ==
  ASSUME NEW u, NEW compress, NEW content
  PROVE  run_filter_write(u, compress, content) =
           WriteStep(u, compress, WriteStep(u, compress, PlainForm(content), "deflate"), "encrypt1")
<1>. DEFINE base == PlainForm(content)
            one  == WriteStep(u, compress, base, "deflate")
            body(it) == [s \in SUBSET DOMAIN callbacks |->
                           IF s = {} THEN base
                           ELSE WriteStep(u, compress, it[s \ {Max(s)}], callbacks[Max(s)])]
            iter == CHOOSE it : it = body(it)
<1>1. run_filter_write(u, compress, content) = iter[DOMAIN callbacks]
  BY DEF run_filter_write, FoldLeft, MapThenFoldSet, WriteStep, PlainForm
<1>2. \E it : it = body(it)
  <2>. DEFINE it == [s \in SUBSET {1, 2} |->
                       IF s = {} THEN base ELSE IF s = {1} THEN one
                       ELSE WriteStep(u, compress, IF s = {2} THEN base ELSE one, "encrypt1")]
  <2>1. \A s \in SUBSET {1, 2} :
          it[s] = IF s = {} THEN base
                  ELSE WriteStep(u, compress, it[s \ {Max(s)}], callbacks[Max(s)])
    <3>1. /\ it[{}] = base /\ it[{1}] = one
          /\ it[{2}] = WriteStep(u, compress, base, "encrypt1")
          /\ it[{1, 2}] = WriteStep(u, compress, one, "encrypt1")
      BY CallbackSets
    <3>. HIDE DEF it
    <3>. HIDE DEF one
    <3>2. ASSUME NEW s \in SUBSET {1, 2}, s # {}
          PROVE  it[s] = WriteStep(u, compress, it[s \ {Max(s)}], callbacks[Max(s)])
      <4>1. CASE s = {1}
        BY <3>1, <4>1, CallbacksAre, CallbackSets, MaxIs DEF one
      <4>2. CASE s = {2}
        BY <3>1, <4>2, CallbacksAre, CallbackSets, MaxIs
      <4>3. CASE s = {1, 2}
        BY <3>1, <4>3, CallbacksAre, CallbackSets, MaxIs
      <4>. QED
        BY <3>2, <4>1, <4>2, <4>3, CallbackSets
    <3>. QED
      BY <3>1, <3>2
  <2>2. it = body(it)
    BY <2>1, CallbacksAre
  <2>. QED
    BY <2>2
<1>3. \A s \in SUBSET {1, 2} :
        iter[s] = IF s = {} THEN base
                  ELSE WriteStep(u, compress, iter[s \ {Max(s)}], callbacks[Max(s)])
  BY <1>2, CallbacksAre
<1>. HIDE DEF iter, body
<1>4. iter[{}] = base
  BY <1>3, CallbackSets
<1>5. iter[{1}] = one
  BY <1>3, <1>4, CallbacksAre, CallbackSets, MaxIs
<1>6. iter[{1, 2}] = WriteStep(u, compress, one, "encrypt1")
  BY <1>3, <1>5, CallbacksAre, CallbackSets, MaxIs
<1>. QED
  BY <1>1, <1>6, CallbacksAre

LEMMA TwoReads ==
  ASSUME NEW u, NEW t, NEW data
  PROVE  run_filter_read(u, t, data) =
           filter_next_tag(u, t, filter_next_tag(u, t, data)).rest
<1>. DEFINE one == filter_next_tag(u, t, data)
            body(it) == [s \in SUBSET DOMAIN callbacks |->
                           IF s = {} THEN data
                           ELSE filter_next_tag(u, t, it[s \ {Max(s)}])]
            iter == CHOOSE it : it = body(it)
<1>1. run_filter_read(u, t, data) = iter[DOMAIN callbacks].rest
  BY DEF run_filter_read, FoldLeft, MapThenFoldSet
<1>2. \E it : it = body(it)
  <2>. DEFINE it == [s \in SUBSET {1, 2} |->
                       IF s = {} THEN data ELSE IF s = {1, 2} THEN filter_next_tag(u, t, one) ELSE one]
  <2>1. \A s \in SUBSET {1, 2} :
          it[s] = IF s = {} THEN data ELSE filter_next_tag(u, t, it[s \ {Max(s)}])
    <3>1. /\ it[{}] = data /\ it[{1}] = one /\ it[{2}] = one
          /\ it[{1, 2}] = filter_next_tag(u, t, one)
      BY CallbackSets
    <3>. HIDE DEF it
    <3>. HIDE DEF one
    <3>2. ASSUME NEW s \in SUBSET {1, 2}, s # {}
          PROVE  it[s] = filter_next_tag(u, t, it[s \ {Max(s)}])
      <4>1. CASE s = {1}
        BY <3>1, <4>1, CallbackSets, MaxIs DEF one
      <4>2. CASE s = {2}
        BY <3>1, <4>2, CallbackSets, MaxIs DEF one
      <4>3. CASE s = {1, 2}
        BY <3>1, <4>3, CallbackSets, MaxIs
      <4>. QED
        BY <3>2, <4>1, <4>2, <4>3, CallbackSets
    <3>. QED
      BY <3>1, <3>2
  <2>2. it = body(it)
    BY <2>1, CallbacksAre
  <2>. QED
    BY <2>2
<1>3. \A s \in SUBSET {1, 2} :
        iter[s] = IF s = {} THEN data ELSE filter_next_tag(u, t, iter[s \ {Max(s)}])
  BY <1>2, CallbacksAre
<1>. HIDE DEF iter, body
<1>4. iter[{}] = data
  BY <1>3, CallbackSets
<1>5. iter[{1}] = one
  <2>1. iter[{1}] = filter_next_tag(u, t, iter[{1} \ {Max({1})}])
    BY <1>3, CallbackSets
  <2>. QED
    BY <1>4, <2>1, CallbackSets, MaxIs
<1>. HIDE DEF one
<1>6. iter[{1, 2}] = filter_next_tag(u, t, one)
  <2>1. iter[{1, 2}] = filter_next_tag(u, t, iter[{1, 2} \ {Max({1, 2})}])
    BY <1>3, CallbackSets
  <2>. QED
    BY <1>5, <2>1, CallbackSets, MaxIs
<1>. QED
  BY <1>1, <1>6, CallbacksAre DEF one

(* What a filter makes of the data is told from the data by its tag.       *)
LEMMA WritesForms ==
  ASSUME NEW u, NEW compress, NEW content
  PROVE  run_filter_write(u, compress, content) \in Forms(content)
<1>. DEFINE plain == PlainForm(content)
            one == WriteStep(u, compress, plain, "deflate")
<1>1. \A d : [packed |-> d] # plain /\ [sealed |-> d] # plain /\ [sealed |-> d] # Packed(plain)
  BY DEF PlainForm, Packed
<1>2. one \in {plain, Packed(plain)}
  BY <1>1 DEF WriteStep, filter_write, Packed, PlainForm
<1>3. WriteStep(u, compress, one, "encrypt1") \in {one, SealedUp(one)}
  BY DEF WriteStep, filter_write, SealedUp
<1>. QED
  BY <1>2, <1>3, TwoWrites DEF Forms

LEMMA NextTags ==
  ASSUME NEW u, NEW t, NEW d
  PROVE  /\ filter_next_tag(u, t, Packed(d)) = d
         /\ filter_next_tag(u, t, SealedUp(d)) = IF HasKey(u, t) THEN d ELSE Failure
<1>1. /\ Packed(d).tag = "deflate" /\ DOMAIN Packed(d).rest = {"packed"}
      /\ Packed(d).rest.packed = d
  BY DEF Packed
<1>2. /\ SealedUp(d).tag = "encrypt1" /\ DOMAIN SealedUp(d).rest = {"sealed"}
      /\ SealedUp(d).rest.sealed = d
  BY DEF SealedUp
<1>. QED
  BY <1>1, <1>2 DEF filter_next_tag, filter_read

LEMMA ReadsForms ==
  ASSUME NEW u, NEW t, NEW c, NEW d \in Forms(c)
  PROVE  run_filter_read(u, t, d) =
           IF d.tag = "encrypt1" /\ ~HasKey(u, t) THEN "error" ELSE c
<1>1. \A x : filter_next_tag(u, t, PlainForm(x)) = PlainForm(x) /\ PlainForm(x).rest = x
             /\ PlainForm(x).tag = ""
  BY DEF filter_next_tag, PlainForm
<1>2. Failure = PlainForm("error")
  BY DEF Failure, PlainForm
<1>3. \A x : Packed(x).tag = "deflate" /\ SealedUp(x).tag = "encrypt1"
  BY DEF Packed, SealedUp
<1>4. ASSUME NEW e \in {PlainForm(c), Packed(PlainForm(c))}
      PROVE  e.tag # "encrypt1" /\ filter_next_tag(u, t, e) = PlainForm(c)
  <2>1. PlainForm(c).tag # "encrypt1" /\ filter_next_tag(u, t, PlainForm(c)) = PlainForm(c)
    BY <1>1
  <2>2. /\ Packed(PlainForm(c)).tag # "encrypt1"
        /\ filter_next_tag(u, t, Packed(PlainForm(c))) = PlainForm(c)
    BY <1>3, NextTags
  <2>. QED
    BY <2>1, <2>2
<1>5. ASSUME NEW e \in {PlainForm(c), Packed(PlainForm(c))}
      PROVE  run_filter_read(u, t, e) = c
  BY <1>1, <1>4, TwoReads
<1>6. ASSUME NEW e \in {PlainForm(c), Packed(PlainForm(c))}
      PROVE  run_filter_read(u, t, SealedUp(e)) = IF HasKey(u, t) THEN c ELSE "error"
  <2>1. filter_next_tag(u, t, SealedUp(e)) = IF HasKey(u, t) THEN e ELSE PlainForm("error")
    BY <1>2, NextTags
  <2>. QED
    BY <1>1, <1>4, <2>1, TwoReads
<1>7. SealedUp(PlainForm(c)).tag = "encrypt1" /\ SealedUp(Packed(PlainForm(c))).tag = "encrypt1"
  BY <1>3
<1>8. d \in {PlainForm(c), Packed(PlainForm(c))}
      \/ \E e \in {PlainForm(c), Packed(PlainForm(c))} : d = SealedUp(e)
  BY DEF Forms
<1>. QED
  BY <1>4, <1>5, <1>6, <1>7, <1>8

(* A file that has been written has a form of its content.                 *)
FormsInv ==
  /\ stored = [t \in DataTops |-> stored[t]]
  /\ \A t \in DataTops :
       stored[t].was # "none" => stored[t].data \in Forms(stored[t].was)

LEMMA FormsStay ==
  ASSUME FormsInv, [FilesNext]_filesVars
  PROVE  FormsInv'
<1>1. ASSUME NEW u \in Users, NEW t \in DataTops, NEW compress \in BOOLEAN, NEW content \in Data,
             overwrite_file(u, t, compress, content)
      PROVE  FormsInv'
  <2>1. stored' = [stored EXCEPT ![t] = [data |-> run_filter_write(u, compress, content),
                                         was |-> content]]
    BY <1>1 DEF overwrite_file
  <2>2. run_filter_write(u, compress, content) \in Forms(content)
    BY WritesForms
  <2>. QED
    BY <2>1, <2>2 DEF FormsInv
<1>2. ASSUME UNCHANGED stored
      PROVE  FormsInv'
  BY <1>2 DEF FormsInv
<1>. QED
  BY <1>1, <1>2 DEF FilesNext, filesVars, Start, End, write_key, write_userkeys,
     rewrite_symmetric_key, create_and_init_toplevel, change_userkeys, cat, KeyCommand

(* Whatever --compress-with and --encrypt-with were when a file was        *)
(* written and are now, cat gives back what was written; it fails only if  *)
(* the file is encrypted and the user has not been given access.           *)
THEOREM Reading == FilesSpec => []WrittenIsRead
<1>1. ASSUME FilesInit PROVE FormsInv
  <2>1. NoFile.was = "none"
    BY DEF NoFile
  <2>2. stored = [t \in DataTops |-> NoFile]
    BY <1>1 DEF FilesInit
  <2>. QED
    BY <2>1, <2>2 DEF FormsInv
<1>2. FormsInv /\ [FilesNext]_filesVars => FormsInv'
  BY FormsStay
<1>3. FilesInv /\ FormsInv => WrittenIsRead
  <2>1. SUFFICES ASSUME FilesInv, FormsInv, NEW t \in DataTops, NEW u \in Users,
                        stored[t].was # "none"
                 PROVE  LET got == run_filter_read(u, t, stored[t].data)
                        IN  \/ got = stored[t].was
                            \/ got = "error" /\ Sealed(t) /\ u \notin granted[t]
    BY DEF WrittenIsRead
  <2>2. run_filter_read(u, t, stored[t].data) =
          IF stored[t].data.tag = "encrypt1" /\ ~HasKey(u, t) THEN "error" ELSE stored[t].was
    BY <2>1, ReadsForms DEF FormsInv
  <2>3. ~HasKey(u, t) => u \notin granted[t]
    BY <2>1, RepoFilesAssumption DEF FilesInv, KeysAreKept, HasKey
  <2>. QED
    BY <2>2, <2>3 DEF Sealed
<1>. QED
  BY <1>1, <1>2, <1>3, Invariance, PTL DEF FilesSpec

-----------------------------------------------------------------------------
(* VirtualFiles                                                            *)

Pieces == UNION {Range(d) : d \in Written}
Ats    == {"idle", "tempfile", "fill", "link", "create", "rename",
           "open", "makedirs", "write", "remove"}
Calls  == [at : Ats, op : {"write", "overwrite", NoCall.op}, path : Paths \cup {NoCall.path},
           data : Seq(Pieces), temp : Nat, left : Seq(Pieces)]
Files  == [data : Written \cup {NoData}, by : SUBSET Writers]

(* The steps of each call, on each kind of file system.                    *)
CallFits(p) ==
  /\ calls[p].at = "idle" => calls[p].temp = 0 /\ calls[p].op \notin {"write", "overwrite"}
  /\ calls[p].at # "idle" =>
       /\ calls[p].path \in Paths /\ calls[p].op \in {"write", "overwrite"} /\ calls[p].data \in Written
       /\ calls[p].temp \in 1 .. begun
       /\ calls[p].op = "write" => calls[p].path \notin Roots
  /\ calls[p].at \in {"link", "create"} => calls[p].op = "write" /\ backend # "sftp"
  /\ calls[p].at \in {"open", "makedirs", "write"} => calls[p].op = "write" /\ backend = "sftp"
  /\ calls[p].at \in {"open", "makedirs"} => calls[p].left = calls[p].data
  /\ calls[p].at = "remove" => calls[p].op = "overwrite" /\ backend = "sftp"
  /\ calls[p].op = "write" /\ calls[p].at \in {"tempfile", "fill", "rename"} => backend # "sftp"

Types ==
  /\ calls \in [Writers -> Calls] /\ latest \in [Paths -> Files] /\ begun \in Nat
  /\ DOMAIN present \subseteq Paths
  /\ \A p \in Writers : CallFits(p)

(* No two calls have a temporary file of one name, and none finds one that *)
(* is there.                                                               *)
TempsFit ==
  /\ \A t \in temps :
       /\ t.name \in 1 .. begun
       /\ \A p \in Writers : calls[p].temp = t.name => t.path = calls[p].path
  /\ \A p \in Writers : CallAt(p, "remove") => NewTemp(p, calls[p].data) \in temps
  /\ \A p, q \in Writers : calls[p].temp = calls[q].temp /\ ~CallAt(p, "idle") => p = q

(* A process that has created the file for itself and is about to write it *)
(* is alone with it, ...                                                   *)
Writing(p) == CallAt(p, "write") \/ (CallAt(p, "rename") /\ calls[p].op = "write")

HasWritten(p) ==
  /\ present[calls[p].path] \in Seq(Pieces)
  /\ present[calls[p].path] \o calls[p].left = calls[p].data

WritersAlone ==
  \A p \in Writers :
    /\ Writing(p) =>
         /\ calls[p].path \in DOMAIN present /\ latest[calls[p].path] = Missing
         /\ \A q \in Writers \ {p} : calls[q].path = calls[p].path => ~Writing(q)
    /\ CallAt(p, "write") => HasWritten(p)

(* ... and so is one that replaces a file it has made, until the old file  *)
(* goes.                                                                   *)
Replacing(p) ==
  /\ calls[p].op = "overwrite" /\ calls[p].path \notin Roots
  /\ ~CallAt(p, "idle") /\ (CallAt(p, "rename") => backend # "sftp")

ReplacersAlone ==
  \A p \in Writers :
    Replacing(p) => calls[p].path \in DOMAIN present /\ latest[calls[p].path].by = {p}

(* A file has one maker, or none any more.                                 *)
OneMaker ==
  \A f \in Paths :
    latest[f].by = {} \/ (f \in DOMAIN present /\ \E p \in Writers : latest[f].by = {p})

(* A replacement that has no other name yet is left alone by all but the   *)
(* call that is to rename it.                                              *)
Rescued(f) ==
  \E t \in temps :
    /\ t.path = f /\ t.data = latest[f].data
    /\ \A p \in Writers : calls[p].temp = t.name => CallAt(p, "rename")

Kept ==
  \A f \in Paths :
    latest[f] # Missing =>
      IF f \in DOMAIN present THEN present[f] = latest[f].data
      ELSE backend = "sftp" /\ Rescued(f)

VirtualInv == Types /\ TempsFit /\ WritersAlone /\ ReplacersAlone /\ OneMaker /\ Kept

-----------------------------------------------------------------------------
(* Calls                                                                   *)

(* What is written is a sequence of pieces.                                *)
LEMMA WrittenIs == Written \subseteq Seq(Pieces)
  BY WrittenAssumption DEF Pieces

LEMMA CallIs ==
  ASSUME Types, NEW p \in Writers
  PROVE  calls[p] \in Calls /\ CallFits(p)
  BY DEF Types

(* A call that goes on is what it was but for the step it is at.           *)
LEMMA GoesIs ==
  ASSUME Types, NEW p \in Writers, NEW a \in Ats, Goes(p, a)
  PROVE  /\ calls' \in [Writers -> Calls]
         /\ calls'[p].at = a /\ calls'[p].op = calls[p].op /\ calls'[p].path = calls[p].path
         /\ calls'[p].data = calls[p].data /\ calls'[p].temp = calls[p].temp
         /\ calls'[p].left = calls[p].left
         /\ \A q \in Writers \ {p} : calls'[q] = calls[q]
  BY DEF Types, Goes, Calls

LEMMA EndsIs ==
  ASSUME Types, NEW p \in Writers, Ends(p)
  PROVE  /\ calls' \in [Writers -> Calls]
         /\ calls'[p].at = "idle" /\ calls'[p].temp = 0 /\ calls'[p].op \notin {"write", "overwrite"}
         /\ \A q \in Writers \ {p} : calls'[q] = calls[q]
<1>1. NoCall \in Calls
  BY DEF NoCall, Calls, Ats
<1>2. NoCall.at = "idle" /\ NoCall.temp = 0 /\ NoCall.op \notin {"write", "overwrite"}
  BY DEF NoCall
<1>3. calls' \in [Writers -> Calls] /\ calls'[p] = NoCall
  BY <1>1 DEF Types, Ends
<1>. QED
  BY <1>2, <1>3 DEF Types, Ends

(* A call that has succeeded makes itself known at its path.               *)
LEMMA SucceedsIs ==
  ASSUME Types, NEW p \in Writers, calls[p].at # "idle", Succeeds(p)
  PROVE  LET f == calls[p].path
         IN  /\ latest' \in [Paths -> Files]
             /\ latest'[f].data = calls[p].data
             /\ latest'[f].by = IF calls[p].op = "write" THEN latest[f].by \cup {p} ELSE {}
             /\ \A g \in Paths \ {f} : latest'[g] = latest[g]
<1> DEFINE f == calls[p].path
           new == [data |-> calls[p].data,
                   by |-> IF calls[p].op = "write" THEN latest[f].by \cup {p} ELSE {}]
<1>1. f \in Paths /\ calls[p].data \in Written /\ latest[f].by \subseteq Writers
  BY CallIs DEF CallFits, Types, Files
<1>2. latest' = [latest EXCEPT ![f] = new]
  BY DEF Succeeds
<1>3. new \in Files
  BY <1>1 DEF Files
<1>. QED
  BY <1>1, <1>2, <1>3 DEF Types

(* A call that does nothing stays fit.                                     *)
LEMMA StaysFit ==
  ASSUME NEW q \in Writers, CallFits(q), calls'[q] = calls[q], backend' = backend,
         begun \in Nat, begun' \in Nat, begun <= begun'
  PROVE  CallFits(q)'
  BY DEF CallFits

(* The types, if only p takes a step and its call fits.                    *)
LEMMA TypesStay ==
  ASSUME Types, backend' = backend, begun' \in Nat, begun <= begun',
         NEW p \in Writers, calls' \in [Writers -> Calls], CallFits(p)',
         \A q \in Writers \ {p} : calls'[q] = calls[q],
         latest' \in [Paths -> Files], DOMAIN present' \subseteq Paths
  PROVE  Types'
<1>1. \A q \in Writers : CallFits(q)'
  BY StaysFit DEF Types
<1>. QED
  BY <1>1 DEF Types

-----------------------------------------------------------------------------
(* Steps.  First those that leave the files alone.                         *)

(* Nothing has been written if the files stay, and no process becomes one  *)
(* that is alone with a file.                                              *)
LEMMA FilesStay ==
  ASSUME VirtualInv, UNCHANGED <<backend, present, latest>>, NEW p \in Writers,
         \A q \in Writers \ {p} : calls'[q] = calls[q],
         ~Writing(p)', Replacing(p)' => Replacing(p) /\ calls'[p].path = calls[p].path
  PROVE  WritersAlone' /\ ReplacersAlone' /\ OneMaker'
<1>1. \A q \in Writers \ {p} : (Writing(q)' <=> Writing(q)) /\ (Replacing(q)' <=> Replacing(q))
                             /\ (CallAt(q, "write")' <=> CallAt(q, "write"))
  BY DEF Writing, Replacing, CallAt
<1>2. ~CallAt(p, "write")'
  BY DEF Writing
<1>3. WritersAlone'
  BY <1>1, <1>2 DEF VirtualInv, WritersAlone, HasWritten
<1>4. ReplacersAlone'
  BY <1>1 DEF VirtualInv, ReplacersAlone
<1>5. OneMaker'
  BY DEF VirtualInv, OneMaker
<1>. QED
  BY <1>3, <1>4, <1>5

(* What is kept is kept if nobody touches the replacements.                *)
LEMMA KeptStays ==
  ASSUME VirtualInv, UNCHANGED <<backend, present, latest>>, NEW p \in Writers,
         \A q \in Writers \ {p} : calls'[q] = calls[q],
         \A t \in temps : (calls[p].temp = t.name => CallAt(p, "rename")) =>
            t \in temps' /\ (calls'[p].temp = t.name => CallAt(p, "rename")')
  PROVE  Kept'
<1>. SUFFICES ASSUME NEW f \in Paths, latest[f] # Missing, f \notin DOMAIN present,
                     backend = "sftp", Rescued(f)
              PROVE  Rescued(f)'
  BY DEF VirtualInv, Kept
<1>1. PICK t \in temps :
        /\ t.path = f /\ t.data = latest[f].data
        /\ \A q \in Writers : calls[q].temp = t.name => CallAt(q, "rename")
  BY DEF Rescued
<1>2. t \in temps' /\ \A q \in Writers : calls'[q].temp = t.name => CallAt(q, "rename")'
  BY <1>1 DEF CallAt
<1>. QED
  BY <1>1, <1>2 DEF Rescued

LEMMA BeginStep ==
  ASSUME VirtualInv, NEW p \in Writers, NEW f \in Paths,
         NEW op \in {"write", "overwrite"}, NEW d \in Written, begin(p, op, f, d)
  PROVE  VirtualInv'
<1> DEFINE c == [at |-> IF op = "write" /\ backend = "sftp" THEN "open" ELSE "tempfile",
                 op |-> op, path |-> f, data |-> d, temp |-> begun', left |-> d]
<1>1. /\ Types /\ begun' = begun + 1 /\ begun \in Nat /\ CallAt(p, "idle")
      /\ MayBegin(p, op, f) /\ UNCHANGED <<backend, folder, present, temps, latest>>
      /\ calls' = [calls EXCEPT ![p] = c]
  BY DEF begin, VirtualInv, Types
<1>2. c \in Calls /\ c.at \in {"open", "tempfile"} /\ c.op = op /\ c.path = f /\ c.data = d
      /\ c.left = d /\ c.temp = begun + 1 /\ (c.at = "open" <=> op = "write" /\ backend = "sftp")
  BY <1>1, WrittenIs DEF Calls, Ats
<1> HIDE DEF c
<1>3. /\ calls' \in [Writers -> Calls] /\ calls'[p] = c
      /\ \A q \in Writers \ {p} : calls'[q] = calls[q]
  BY <1>1, <1>2 DEF Types
<1>4. CallFits(p)'
  BY <1>1, <1>2, <1>3 DEF CallFits, MayBegin
<1>5. Types'
  <2>1. latest' \in [Paths -> Files] /\ DOMAIN present' \subseteq Paths
    BY <1>1 DEF Types
  <2>. QED
    BY <1>1, <1>3, <1>4, <2>1, TypesStay
<1>6. TempsFit'
  <2>1. \A t \in temps' : t.name \in 1 .. begun' /\ t.name # c.temp
    BY <1>1, <1>2 DEF VirtualInv, TempsFit
  <2>2. \A q \in Writers \ {p} : calls'[q].temp # c.temp
    <3>1. \A q \in Writers : calls[q].temp <= begun
      BY <1>1, CallIs DEF CallFits
    <3>. QED
      BY <1>1, <1>2, <1>3, <3>1
  <2>. QED
    BY <1>1, <1>2, <1>3, <2>1, <2>2 DEF VirtualInv, TempsFit, CallAt, NewTemp
<1>7. ~Writing(p)' /\ (Replacing(p)' => f \in DOMAIN present /\ latest[f].by = {p})
  <2>1. Replacing(p)' => op = "overwrite" /\ p \in latest[f].by
    BY <1>1, <1>2, <1>3 DEF Replacing, MayBegin
  <2>. QED
    BY <1>2, <1>3, <2>1 DEF Writing, CallAt, VirtualInv, OneMaker
<1>8. WritersAlone' /\ ReplacersAlone' /\ OneMaker'
  <2>1. \A q \in Writers \ {p} : (Writing(q)' <=> Writing(q)) /\ (Replacing(q)' <=> Replacing(q))
                             /\ (CallAt(q, "write")' <=> CallAt(q, "write"))
    BY <1>1, <1>3 DEF Writing, Replacing, CallAt
  <2>2. ~CallAt(p, "write")'
    BY <1>7 DEF Writing
  <2>. QED
    BY <1>1, <1>2, <1>3, <1>7, <2>1, <2>2 DEF VirtualInv, WritersAlone, ReplacersAlone, OneMaker, HasWritten
<1>9. Kept'
  <2>1. \A t \in temps : t.name # c.temp
    BY <1>1, <1>2 DEF VirtualInv, TempsFit
  <2>. QED
    BY <1>1, <1>2, <1>3, <2>1, KeptStays
<1>. QED
  BY <1>5, <1>6, <1>8, <1>9 DEF VirtualInv

(* The temporary files, if p touches none but its own.                     *)
LEMMA TempsStay ==
  ASSUME VirtualInv, NEW p \in Writers, ~CallAt(p, "idle"), begun' = begun,
         \A q \in Writers \ {p} : calls'[q] = calls[q],
         \/ /\ calls'[p].temp = calls[p].temp /\ calls'[p].path = calls[p].path
            /\ calls'[p].data = calls[p].data
         \/ calls'[p].at = "idle" /\ calls'[p].temp = 0,
         \A t \in temps' : t \in temps \/ (t.name = calls[p].temp /\ t.path = calls[p].path),
         \A t \in temps : t \in temps' \/ t.name = calls[p].temp,
         CallAt(p, "remove")' => NewTemp(p, calls[p].data) \in temps'
  PROVE  TempsFit'
<1>1. Types /\ TempsFit
  BY DEF VirtualInv
<1>2. calls[p].temp \in 1 .. begun /\ begun \in Nat
  BY <1>1 DEF Types, CallFits, CallAt
<1>3. \A q \in Writers \ {p} :
        /\ calls[q].temp # calls[p].temp /\ (~CallAt(q, "idle") => calls[q].temp # 0)
        /\ (CallAt(q, "idle")' <=> CallAt(q, "idle"))
        /\ (CallAt(q, "remove")' <=> CallAt(q, "remove"))
        /\ NewTemp(q, calls[q].data)' = NewTemp(q, calls[q].data)
  BY <1>1 DEF Types, TempsFit, CallFits, CallAt, NewTemp
<1>4. ASSUME NEW t \in temps'
      PROVE  /\ t.name \in 1 .. begun'
             /\ \A q \in Writers : calls'[q].temp = t.name => t.path = calls'[q].path
  <2>1. CASE t \in temps
    <3>1. t.name \in 1 .. begun /\ \A q \in Writers : calls[q].temp = t.name => t.path = calls[q].path
      BY <1>1, <2>1 DEF TempsFit
    <3>2. calls'[p].temp = t.name => t.path = calls'[p].path
      BY <1>2, <3>1
    <3>. QED
      BY <3>1, <3>2
  <2>2. CASE t.name = calls[p].temp /\ t.path = calls[p].path
    <3>1. calls'[p].temp = t.name => t.path = calls'[p].path
      BY <1>2, <2>2
    <3>. QED
      BY <1>2, <1>3, <2>2, <3>1
  <2>. QED
    BY <1>4, <2>1, <2>2
<1>5. \A q \in Writers : CallAt(q, "remove")' => NewTemp(q, calls[q].data)' \in temps'
  <2>1. ASSUME NEW q \in Writers \ {p}, CallAt(q, "remove")'
        PROVE  NewTemp(q, calls[q].data)' \in temps'
    <3>1. NewTemp(q, calls[q].data) \in temps /\ NewTemp(q, calls[q].data).name # calls[p].temp
      BY <1>1, <1>3, <2>1 DEF TempsFit, NewTemp
    <3>. QED
      BY <1>3, <3>1
  <2>2. CallAt(p, "remove")' => NewTemp(p, calls[p].data)' = NewTemp(p, calls[p].data)
    BY DEF CallAt, NewTemp
  <2>. QED
    BY <2>1, <2>2
<1>6. \A x, y \in Writers : calls'[x].temp = calls'[y].temp /\ ~CallAt(x, "idle")' => x = y
  <2>1. \A x, y \in Writers \ {p} : calls'[x].temp = calls'[y].temp /\ ~CallAt(x, "idle")' => x = y
    BY <1>1, <1>3 DEF TempsFit
  <2>2. \A x \in Writers \ {p} :
          /\ ~CallAt(x, "idle")' => calls'[x].temp # calls'[p].temp
          /\ ~CallAt(p, "idle")' => calls'[x].temp # calls'[p].temp
    BY <1>2, <1>3 DEF CallAt
  <2>. SUFFICES ASSUME NEW x \in Writers, NEW y \in Writers, x # y, ~CallAt(x, "idle")'
                PROVE  calls'[x].temp # calls'[y].temp
    OBVIOUS
  <2>3. CASE x = p
    BY <2>2, <2>3
  <2>4. CASE x # p /\ y = p
    BY <2>2, <2>4
  <2>5. CASE x # p /\ y # p
    BY <2>1, <2>5
  <2>. QED
    BY <2>3, <2>4, <2>5
<1>. QED
  BY <1>4, <1>5, <1>6 DEF TempsFit

(* A step of p to a, or the end of its call, that leaves the files alone.  *)
LEMMA GoesStep ==
  ASSUME VirtualInv, NEW p \in Writers, ~CallAt(p, "idle"), NEW a \in Ats \ {"idle", "write"},
         Goes(p, a), UNCHANGED <<backend, present, latest, begun>>,
         CallFits(p)', a = "rename" => calls[p].op = "overwrite" /\ backend # "sftp",
         \A t \in temps' : t \in temps \/ (t.name = calls[p].temp /\ t.path = calls[p].path),
         \A t \in temps : t \in temps' \/ (t.name = calls[p].temp /\ ~CallAt(p, "rename")),
         a = "remove" => NewTemp(p, calls[p].data) \in temps',
         ~CallAt(p, "rename")
  PROVE  VirtualInv'
<1>1. Types /\ begun \in Nat /\ DOMAIN present' \subseteq Paths /\ latest' \in [Paths -> Files]
  BY DEF VirtualInv, Types
<1>2. /\ calls' \in [Writers -> Calls]
      /\ calls'[p].at = a /\ calls'[p].op = calls[p].op /\ calls'[p].path = calls[p].path
      /\ calls'[p].data = calls[p].data /\ calls'[p].temp = calls[p].temp
      /\ \A q \in Writers \ {p} : calls'[q] = calls[q]
  BY <1>1, GoesIs
<1>3. Types'
  BY <1>1, <1>2, TypesStay
<1>4. TempsFit'
  BY <1>2, TempsStay DEF CallAt
<1>5. WritersAlone' /\ ReplacersAlone' /\ OneMaker'
  BY <1>2, FilesStay DEF Writing, Replacing, CallAt
<1>6. Kept'
  BY <1>2, KeptStays
<1>. QED
  BY <1>3, <1>4, <1>5, <1>6 DEF VirtualInv

LEMMA EndsStep ==
  ASSUME VirtualInv, NEW p \in Writers, ~CallAt(p, "idle"), Ends(p),
         UNCHANGED <<backend, present, latest, begun>>,
         \A t \in temps' : t \in temps,
         \A t \in temps : t \in temps' \/ (t.name = calls[p].temp /\ ~CallAt(p, "rename"))
  PROVE  VirtualInv'
<1>1. Types /\ begun \in Nat /\ DOMAIN present' \subseteq Paths /\ latest' \in [Paths -> Files]
  BY DEF VirtualInv, Types
<1>2. /\ calls' \in [Writers -> Calls]
      /\ calls'[p].at = "idle" /\ calls'[p].temp = 0 /\ calls'[p].op \notin {"write", "overwrite"}
      /\ \A q \in Writers \ {p} : calls'[q] = calls[q]
  BY <1>1, EndsIs
<1>3. CallFits(p)'
  BY <1>2 DEF CallFits
<1>4. Types'
  BY <1>1, <1>2, <1>3, TypesStay
<1>5. TempsFit'
  BY <1>2, TempsStay DEF CallAt
<1>6. WritersAlone' /\ ReplacersAlone' /\ OneMaker'
  BY <1>2, FilesStay DEF Writing, Replacing, CallAt
<1>7. Kept'
  <2>1. \A t \in temps : t.name # 0
    BY DEF VirtualInv, TempsFit
  <2>. QED
    BY <1>2, <2>1, KeptStays
<1>. QED
  BY <1>4, <1>5, <1>6, <1>7 DEF VirtualInv

LEMMA TempfileStep ==
  ASSUME VirtualInv, NEW p \in Writers, make_tempfile(p)
  PROVE  VirtualInv'
<1>1. /\ calls[p].at = "tempfile" /\ Types /\ CallFits(p) /\ Goes(p, "fill")
      /\ UNCHANGED <<backend, present, latest, begun>>
  BY DEF make_tempfile, CallAt, VirtualInv, Types
<1>2. CallFits(p)'
  <2>1. /\ calls'[p].at = "fill" /\ calls'[p].op = calls[p].op /\ calls'[p].path = calls[p].path
        /\ calls'[p].data = calls[p].data /\ calls'[p].temp = calls[p].temp
    BY <1>1, GoesIs DEF Ats
  <2>. QED
    BY <1>1, <2>1 DEF CallFits
<1>3. \A t \in temps' : t \in temps \/ (t.name = calls[p].temp /\ t.path = calls[p].path)
  BY DEF make_tempfile, NewTemp
<1>4. temps \subseteq temps'
  BY DEF make_tempfile
<1>. QED
  BY <1>1, <1>2, <1>3, <1>4, GoesStep DEF CallAt, Ats

(* TempOf(p) are the files with the name of p's call.                      *)
LEMMA FillStep ==
  ASSUME VirtualInv, NEW p \in Writers, fill_tempfile(p)
  PROVE  VirtualInv'
<1> DEFINE a == IF calls[p].op = "write" THEN "link"
                ELSE IF backend = "sftp" THEN "remove" ELSE "rename"
<1>1. /\ calls[p].at = "fill" /\ Types /\ CallFits(p) /\ Goes(p, a)
      /\ UNCHANGED <<backend, present, latest, begun>>
  BY DEF fill_tempfile, CallAt, VirtualInv, Types
<1>2. CallFits(p)'
  <2>1. /\ calls'[p].at = a /\ calls'[p].op = calls[p].op /\ calls'[p].path = calls[p].path
        /\ calls'[p].data = calls[p].data /\ calls'[p].temp = calls[p].temp
    BY <1>1, GoesIs DEF Ats
  <2>. QED
    BY <1>1, <2>1 DEF CallFits
<1>3. /\ \A t \in temps' : t \in temps \/ (t.name = calls[p].temp /\ t.path = calls[p].path)
      /\ \A t \in temps : t \in temps' \/ t.name = calls[p].temp
      /\ NewTemp(p, calls[p].data) \in temps'
  BY DEF fill_tempfile, NewTemp, TempOf
<1>4. a \in Ats \ {"idle", "write"} /\ (a = "rename" => calls[p].op = "overwrite" /\ backend # "sftp")
  BY <1>1 DEF Ats, CallFits
<1>. QED
  BY <1>1, <1>2, <1>3, <1>4, GoesStep DEF CallAt

LEMMA MakedirsStep ==
  ASSUME VirtualInv, NEW p \in Writers, makedirs(p)
  PROVE  VirtualInv'
<1>1. /\ calls[p].at = "makedirs" /\ Types /\ CallFits(p)
      /\ UNCHANGED <<backend, present, temps, latest, begun>>
  BY DEF makedirs, CallAt, VirtualInv, Types
<1>2. CASE Ends(p)
  BY <1>1, <1>2, EndsStep DEF CallAt
<1>3. CASE Goes(p, "open")
  <2>1. CallFits(p)'
    <3>1. /\ calls'[p].at = "open" /\ calls'[p].op = calls[p].op /\ calls'[p].path = calls[p].path
          /\ calls'[p].data = calls[p].data /\ calls'[p].temp = calls[p].temp
          /\ calls'[p].left = calls[p].left
      BY <1>1, <1>3, GoesIs DEF Ats
    <3>. QED
      BY <1>1, <3>1 DEF CallFits
  <2>. QED
    BY <1>1, <1>3, <2>1, GoesStep DEF CallAt, Ats
<1>. QED
  BY <1>2, <1>3 DEF makedirs

LEMMA DiesStep ==
  ASSUME VirtualInv, NEW p \in Writers, call_dies(p)
  PROVE  VirtualInv'
  BY EndsStep DEF call_dies

-----------------------------------------------------------------------------
(* Steps that make, replace or remove a file.  Nobody else counts on it,   *)
(* and the other files stay as they are.                                   *)
Alone(p, f) == \A q \in Writers \ {p} : calls[q].path = f => ~Writing(q) /\ ~Replacing(q)

LEMMA NewIsAlone ==
  ASSUME VirtualInv, NEW p \in Writers, NEW f \in Paths, f \notin DOMAIN present
  PROVE  Alone(p, f)
  BY DEF Alone, VirtualInv, WritersAlone, ReplacersAlone

LEMMA WriterIsAlone ==
  ASSUME VirtualInv, NEW p \in Writers, Writing(p)
  PROVE  Alone(p, calls[p].path)
<1>1. latest[calls[p].path] = Missing
  BY DEF VirtualInv, WritersAlone
<1>2. Missing.by = {}
  BY DEF Missing
<1>. QED
  BY <1>1, <1>2 DEF Alone, VirtualInv, WritersAlone, ReplacersAlone

LEMMA MakerIsAlone ==
  ASSUME VirtualInv, NEW p \in Writers, NEW f \in Paths, latest[f].by = {p}
  PROVE  Alone(p, f)
<1>1. latest[f] # Missing
  BY DEF Missing
<1>. QED
  BY <1>1 DEF Alone, VirtualInv, WritersAlone, ReplacersAlone

LEMMA RootIsAlone ==
  ASSUME VirtualInv, NEW p \in Writers, NEW f \in Roots
  PROVE  Alone(p, f)
<1>1. \A q \in Writers : Writing(q) => calls[q].path \notin Roots
  BY DEF VirtualInv, Types, CallFits, Writing, CallAt
<1>. QED
  BY <1>1 DEF Alone, Replacing

LEMMA FileStep ==
  ASSUME VirtualInv, backend' = backend, NEW p \in Writers, NEW f \in Paths, Alone(p, f),
         calls[p].path = f \/ calls[p].temp = 0,
         \A q \in Writers \ {p} : calls'[q] = calls[q],
         \A g \in Paths \ {f} :
           /\ g \in DOMAIN present' <=> g \in DOMAIN present
           /\ g \in DOMAIN present => present'[g] = present[g]
           /\ latest'[g] = latest[g],
         Writing(p)' => calls'[p].path = f /\ f \in DOMAIN present' /\ latest'[f] = Missing,
         CallAt(p, "write")' => HasWritten(p)',
         ~Replacing(p)',
         calls'[p].temp \in {calls[p].temp, 0},
         \A t \in temps : t \in temps' \/ t.name = calls[p].temp,
         latest'[f].by = {} \/ (f \in DOMAIN present' /\ latest'[f].by = {p}),
         latest'[f] # Missing =>
           IF f \in DOMAIN present' THEN present'[f] = latest'[f].data
           ELSE backend = "sftp" /\ Rescued(f)'
  PROVE  WritersAlone' /\ ReplacersAlone' /\ OneMaker' /\ Kept'
<1>1. \A q \in Writers \ {p} : (Writing(q)' <=> Writing(q)) /\ (Replacing(q)' <=> Replacing(q))
                             /\ (CallAt(q, "write")' <=> CallAt(q, "write"))
  BY DEF Writing, Replacing, CallAt
<1>2. \A q \in Writers : Writing(q) \/ Replacing(q) => calls[q].path \in Paths
  BY DEF VirtualInv, Types, CallFits, Writing, Replacing, CallAt
<1>3. \A q \in Writers : (CallAt(q, "write") => Writing(q)) /\ (CallAt(q, "write")' => Writing(q)')
  BY DEF Writing, CallAt
<1>4. WritersAlone'
  <2>1. ASSUME NEW q \in Writers \ {p}
        PROVE  /\ Writing(q)' =>
                    /\ calls'[q].path \in DOMAIN present' /\ latest'[calls'[q].path] = Missing
                    /\ \A r \in Writers \ {q} : calls'[r].path = calls'[q].path => ~Writing(r)'
               /\ CallAt(q, "write")' => HasWritten(q)'
    <3>1. CASE Writing(q)
      <4>1. calls'[q].path \in Paths \ {f} /\ calls'[q] = calls[q]
        BY <1>2, <2>1, <3>1 DEF Alone
      <4>2. \A r \in Writers \ {q, p} : calls'[r].path = calls'[q].path => ~Writing(r)'
        BY <1>1, <2>1, <3>1 DEF VirtualInv, WritersAlone
      <4>3. calls'[p].path = calls'[q].path => ~Writing(p)'
        BY <4>1
      <4>4. /\ calls[q].path \in DOMAIN present /\ latest[calls[q].path] = Missing
            /\ CallAt(q, "write") => HasWritten(q)
        BY <2>1, <3>1 DEF VirtualInv, WritersAlone
      <4>5. CallAt(q, "write")' => CallAt(q, "write")
        BY <1>1, <2>1
      <4>. QED
        BY <2>1, <4>1, <4>2, <4>3, <4>4, <4>5 DEF HasWritten
    <3>2. CASE ~Writing(q)
      BY <1>1, <1>3, <2>1, <3>2
    <3>. QED
      BY <3>1, <3>2
  <2>2. Writing(p)' => \A r \in Writers \ {p} : calls'[r].path = calls'[p].path => ~Writing(r)'
    BY <1>1 DEF Alone
  <2>. QED
    BY <1>3, <2>1, <2>2 DEF WritersAlone
<1>5. ReplacersAlone'
  <2>1. ASSUME NEW q \in Writers \ {p}, Replacing(q)'
        PROVE  calls'[q].path \in DOMAIN present' /\ latest'[calls'[q].path].by = {q}
    <3>1. calls'[q].path \in Paths \ {f} /\ calls'[q] = calls[q] /\ Replacing(q)
      BY <1>1, <1>2, <2>1 DEF Alone
    <3>. QED
      BY <2>1, <3>1 DEF VirtualInv, ReplacersAlone
  <2>. QED
    BY <2>1 DEF ReplacersAlone
<1>6. OneMaker'
  BY DEF VirtualInv, OneMaker
<1>7. Kept'
  <2>1. ASSUME NEW g \in Paths \ {f}, Rescued(g)
        PROVE  Rescued(g)'
    <3>1. PICK t \in temps :
            /\ t.path = g /\ t.data = latest[g].data
            /\ \A q \in Writers : calls[q].temp = t.name => CallAt(q, "rename")
      BY <2>1 DEF Rescued
    <3>2. t.name # 0 /\ t.name # calls[p].temp
      BY <2>1, <3>1 DEF VirtualInv, TempsFit
    <3>3. t \in temps' /\ \A q \in Writers : calls'[q].temp = t.name => CallAt(q, "rename")'
      BY <3>1, <3>2 DEF CallAt
    <3>. QED
      BY <2>1, <3>1, <3>3 DEF Rescued
  <2>2. ASSUME NEW g \in Paths \ {f}, latest'[g] # Missing
        PROVE  IF g \in DOMAIN present' THEN present'[g] = latest'[g].data
               ELSE backend' = "sftp" /\ Rescued(g)'
    BY <2>1, <2>2 DEF VirtualInv, Kept
  <2>. QED
    BY <2>2 DEF Kept
<1>. QED
  BY <1>4, <1>5, <1>6, <1>7

(* What goes with a call is its own temporary file.                        *)
LEMMA TempGone ==
  ASSUME NEW p \in Writers, temps' = temps \ TempOf(p)
  PROVE  (\A t \in temps' : t \in temps) /\ (\A t \in temps : t \in temps' \/ t.name = calls[p].temp)
  BY DEF TempOf

(* The end of a call that has made its file or has replaced it.            *)
LEMMA SuccessStep ==
  ASSUME VirtualInv, NEW p \in Writers, ~CallAt(p, "idle"), Alone(p, calls[p].path),
         calls[p].op = "write" => latest[calls[p].path].by = {},
         Succeeds(p), Ends(p), UNCHANGED <<backend, begun>>,
         DOMAIN present' = DOMAIN present \cup {calls[p].path},
         present'[calls[p].path] = calls[p].data,
         \A g \in DOMAIN present : g # calls[p].path => present'[g] = present[g],
         \A t \in temps' : t \in temps,
         \A t \in temps : t \in temps' \/ t.name = calls[p].temp
  PROVE  VirtualInv'
<1> DEFINE f == calls[p].path
<1>1. /\ Types /\ begun \in Nat /\ f \in Paths /\ calls[p].at # "idle"
      /\ DOMAIN present \subseteq Paths
  BY DEF VirtualInv, Types, CallFits, CallAt
<1>2. /\ calls' \in [Writers -> Calls]
      /\ calls'[p].at = "idle" /\ calls'[p].temp = 0 /\ calls'[p].op \notin {"write", "overwrite"}
      /\ \A q \in Writers \ {p} : calls'[q] = calls[q]
  BY <1>1, EndsIs
<1>3. /\ latest' \in [Paths -> Files]
      /\ latest'[f].data = calls[p].data
      /\ latest'[f].by = IF calls[p].op = "write" THEN latest[f].by \cup {p} ELSE {}
      /\ \A g \in Paths \ {f} : latest'[g] = latest[g]
  BY <1>1, SucceedsIs
<1>4. CallFits(p)'
  BY <1>2 DEF CallFits
<1>5. Types'
  BY <1>1, <1>2, <1>3, <1>4, TypesStay
<1>7. TempsFit'
  BY <1>2, TempsStay DEF CallAt
<1>8. ~Writing(p)' /\ ~Replacing(p)' /\ ~CallAt(p, "write")'
  BY <1>2 DEF Writing, Replacing, CallAt
<1>9. \A g \in Paths \ {f} :
        /\ g \in DOMAIN present' <=> g \in DOMAIN present
        /\ g \in DOMAIN present => present'[g] = present[g]
        /\ latest'[g] = latest[g]
  BY <1>3
<1>10. latest'[f].by = {} \/ (f \in DOMAIN present' /\ latest'[f].by = {p})
  BY <1>3
<1>11. WritersAlone' /\ ReplacersAlone' /\ OneMaker' /\ Kept'
  BY <1>1, <1>2, <1>3, <1>8, <1>9, <1>10, FileStep
<1>. QED
  BY <1>5, <1>7, <1>11 DEF VirtualInv

(* A file that is missing has no maker, except over SFTP.                  *)
LEMMA MissingIs ==
  ASSUME VirtualInv, NEW f \in Paths, f \notin DOMAIN present
  PROVE  latest[f].by = {} /\ (backend # "sftp" => latest[f] = Missing)
  BY DEF VirtualInv, OneMaker, Kept

LEMMA LinkStep ==
  ASSUME VirtualInv, NEW p \in Writers, link_temp(p)
  PROVE  VirtualInv'
<1>1. /\ calls[p].at = "link" /\ Types /\ CallFits(p) /\ calls[p].path \in Paths
      /\ UNCHANGED <<backend, begun>>
  BY DEF link_temp, CallAt, VirtualInv, Types, CallFits
<1>2. CASE backend = "local" /\ calls[p].path \notin DOMAIN present
  <2>1. /\ present' = Holding(calls[p].path, calls[p].data)
        /\ temps' = temps \ TempOf(p) /\ Succeeds(p) /\ Ends(p)
    BY <1>2 DEF link_temp
  <2>2. latest[calls[p].path].by = {} /\ Alone(p, calls[p].path)
    BY <1>1, <1>2, MissingIs, NewIsAlone
  <2>3. /\ DOMAIN present' = DOMAIN present \cup {calls[p].path}
        /\ present'[calls[p].path] = calls[p].data
        /\ \A g \in DOMAIN present : g # calls[p].path => present'[g] = present[g]
    BY <2>1 DEF Holding
  <2>. QED
    BY <1>1, <2>1, <2>2, <2>3, TempGone, SuccessStep DEF CallAt
<1>3. CASE ~(backend = "local" /\ calls[p].path \notin DOMAIN present)
  <2>1. Goes(p, "create") /\ UNCHANGED <<present, temps, latest>>
    BY <1>3 DEF link_temp
  <2>2. CallFits(p)'
    <3>1. /\ calls'[p].at = "create" /\ calls'[p].op = calls[p].op /\ calls'[p].path = calls[p].path
          /\ calls'[p].data = calls[p].data /\ calls'[p].temp = calls[p].temp
      BY <1>1, <2>1, GoesIs DEF Ats
    <3>. QED
      BY <1>1, <3>1 DEF CallFits
  <2>. QED
    BY <1>1, <2>1, <2>2, GoesStep DEF CallAt, Ats
<1>. QED
  BY <1>2, <1>3

(* A process that makes the file for itself, empty as yet: with create, or *)
(* with open over SFTP.                                                    *)
LEMMA MakeStep ==
  ASSUME VirtualInv, NEW p \in Writers, NEW a \in {"rename", "write"}, Goes(p, a),
         a = "rename" => CallAt(p, "create"), a = "write" => CallAt(p, "open"),
         calls[p].path \notin DOMAIN present, present' = Holding(calls[p].path, << >>),
         latest' = [latest EXCEPT ![calls[p].path] = Missing],
         UNCHANGED <<backend, temps, begun>>
  PROVE  VirtualInv'
<1> DEFINE f == calls[p].path
<1>1. /\ Types /\ begun \in Nat /\ f \in Paths /\ CallFits(p) /\ calls[p].at \in {"create", "open"}
      /\ DOMAIN present \subseteq Paths /\ calls[p].op = "write"
  BY DEF VirtualInv, Types, CallFits, CallAt
<1>2. /\ calls' \in [Writers -> Calls]
      /\ calls'[p].at = a /\ calls'[p].op = calls[p].op /\ calls'[p].path = calls[p].path
      /\ calls'[p].data = calls[p].data /\ calls'[p].temp = calls[p].temp
      /\ calls'[p].left = calls[p].left
      /\ \A q \in Writers \ {p} : calls'[q] = calls[q]
  BY <1>1, GoesIs DEF Ats
<1>3. CallFits(p)'
  BY <1>1, <1>2 DEF CallFits, CallAt
<1>4. Missing \in Files /\ Missing.by = {}
  BY DEF Missing, Files
<1>5. /\ latest' \in [Paths -> Files] /\ latest'[f] = Missing
      /\ \A g \in Paths \ {f} : latest'[g] = latest[g]
  BY <1>1, <1>4 DEF Types
<1>6. /\ DOMAIN present' = DOMAIN present \cup {f} /\ present'[f] = << >>
      /\ \A g \in DOMAIN present : g # f => present'[g] = present[g]
  BY DEF Holding
<1>7. Types'
  BY <1>1, <1>2, <1>3, <1>5, <1>6, TypesStay
<1>8. TempsFit'
  BY <1>1, <1>2, TempsStay DEF CallAt
<1>9. a = "write" => << >> \o calls[p].left = calls[p].data
  <2>1. calls[p].data \in Seq(Pieces)
    BY <1>1 DEF Types, Calls
  <2>. QED
    BY <1>1, <2>1 DEF CallFits, CallAt
<1>10. ~Replacing(p)'
  BY <1>1, <1>2 DEF Replacing
<1>11. Alone(p, f)
  BY <1>1, NewIsAlone
<1>12. /\ calls'[p].path = f /\ f \in DOMAIN present'
       /\ CallAt(p, "write")' => HasWritten(p)'
  <2>1. calls'[p].path = f /\ f \in DOMAIN present' /\ << >> \in Seq(Pieces)
    BY <1>2, <1>6
  <2>2. CallAt(p, "write")' => a = "write"
    BY <1>2 DEF CallAt
  <2>. QED
    BY <1>2, <1>6, <1>9, <2>1, <2>2 DEF HasWritten
<1>13. \A g \in Paths \ {f} :
         /\ g \in DOMAIN present' <=> g \in DOMAIN present
         /\ g \in DOMAIN present => present'[g] = present[g]
         /\ latest'[g] = latest[g]
  BY <1>5, <1>6
<1>14. WritersAlone' /\ ReplacersAlone' /\ OneMaker' /\ Kept'
  BY <1>1, <1>2, <1>4, <1>5, <1>10, <1>11, <1>12, <1>13, FileStep
<1>. QED
  BY <1>7, <1>8, <1>14 DEF VirtualInv

LEMMA CreateStep ==
  ASSUME VirtualInv, NEW p \in Writers, create_exclusively(p)
  PROVE  VirtualInv'
<1>1. /\ calls[p].at = "create" /\ Types /\ CallFits(p) /\ calls[p].path \in Paths
      /\ backend # "sftp" /\ UNCHANGED <<backend, latest, begun>>
  BY DEF create_exclusively, CallAt, VirtualInv, Types, CallFits
<1>2. CASE calls[p].path \notin DOMAIN present
  <2>1. latest[calls[p].path] = Missing
    BY <1>1, <1>2, MissingIs
  <2>2. latest' = [latest EXCEPT ![calls[p].path] = Missing]
    BY <1>1, <2>1 DEF Types
  <2>. QED
    BY <1>1, <1>2, <2>2, MakeStep DEF create_exclusively, CallAt
<1>3. CASE calls[p].path \in DOMAIN present
  <2>1. Ends(p) /\ present' = present /\ temps' = temps \ TempOf(p)
    BY <1>3 DEF create_exclusively
  <2>2. /\ \A t \in temps' : t \in temps
        /\ \A t \in temps : t \in temps' \/ t.name = calls[p].temp
    BY <2>1 DEF TempOf
  <2>. QED
    BY <1>1, <2>1, <2>2, EndsStep DEF CallAt
<1>. QED
  BY <1>2, <1>3

(* Who renames a temporary file is the only one to write to its path.      *)
LEMMA RenameStep ==
  ASSUME VirtualInv, NEW p \in Writers, rename_temp(p)
  PROVE  VirtualInv'
<1>1. /\ calls[p].at = "rename" /\ Types /\ CallFits(p) /\ calls[p].path \in Paths
      /\ backend # "sftp" /\ UNCHANGED <<backend, begun>>
      /\ present' = Holding(calls[p].path, calls[p].data)
      /\ temps' = temps \ TempOf(p) /\ Succeeds(p) /\ Ends(p)
      /\ calls[p].op \in {"write", "overwrite"}
  BY DEF rename_temp, CallAt, VirtualInv, Types, CallFits
<1>2. /\ DOMAIN present' = DOMAIN present \cup {calls[p].path}
      /\ present'[calls[p].path] = calls[p].data
      /\ \A g \in DOMAIN present : g # calls[p].path => present'[g] = present[g]
  BY <1>1 DEF Holding
<1>3. Alone(p, calls[p].path)
  <2>1. CASE calls[p].op = "write"
    BY <1>1, <2>1, WriterIsAlone DEF Writing, CallAt
  <2>2. CASE calls[p].op = "overwrite" /\ calls[p].path \in Roots
    BY <2>2, RootIsAlone
  <2>3. CASE calls[p].op = "overwrite" /\ calls[p].path \notin Roots
    <3>1. latest[calls[p].path].by = {p}
      BY <1>1, <2>3 DEF VirtualInv, ReplacersAlone, Replacing, CallAt
    <3>. QED
      BY <1>1, <3>1, MakerIsAlone
  <2>. QED
    BY <1>1, <2>1, <2>2, <2>3
<1>4. calls[p].op = "write" => latest[calls[p].path].by = {}
  <2>1. calls[p].op = "write" => latest[calls[p].path] = Missing
    BY <1>1 DEF VirtualInv, WritersAlone, Writing, CallAt
  <2>2. Missing.by = {}
    BY DEF Missing
  <2>. QED
    BY <2>1, <2>2
<1>. QED
  BY <1>1, <1>2, <1>3, <1>4, TempGone, SuccessStep DEF CallAt

LEMMA SftpRenameStep ==
  ASSUME VirtualInv, NEW p \in Writers, sftp_rename(p)
  PROVE  VirtualInv'
<1>1. /\ calls[p].at = "rename" /\ Types /\ CallFits(p) /\ calls[p].path \in Paths
      /\ UNCHANGED <<backend, begun>> /\ Ends(p) /\ calls[p].op = "overwrite"
  BY DEF sftp_rename, CallAt, VirtualInv, Types, CallFits
<1>2. CASE calls[p].path \in DOMAIN present
  BY <1>1, <1>2, EndsStep DEF sftp_rename, CallAt
<1>3. CASE calls[p].path \notin DOMAIN present
  <2>1. /\ present' = Holding(calls[p].path, calls[p].data)
        /\ temps' = temps \ TempOf(p) /\ Succeeds(p)
    BY <1>3 DEF sftp_rename
  <2>2. /\ DOMAIN present' = DOMAIN present \cup {calls[p].path}
        /\ present'[calls[p].path] = calls[p].data
        /\ \A g \in DOMAIN present : g # calls[p].path => present'[g] = present[g]
    BY <2>1 DEF Holding
  <2>3. Alone(p, calls[p].path)
    BY <1>1, <1>3, NewIsAlone
  <2>. QED
    BY <1>1, <2>1, <2>2, <2>3, TempGone, SuccessStep DEF CallAt
<1>. QED
  BY <1>2, <1>3

LEMMA OpenStep ==
  ASSUME VirtualInv, NEW p \in Writers, open_exclusively(p)
  PROVE  VirtualInv'
<1>1. /\ calls[p].at = "open" /\ Types /\ CallFits(p) /\ calls[p].path \in Paths
      /\ UNCHANGED <<backend, temps, begun>>
  BY DEF open_exclusively, CallAt, VirtualInv, Types, CallFits
<1>2. CASE Goes(p, "makedirs") /\ UNCHANGED <<present, latest>>
  <2>1. /\ calls'[p].at = "makedirs" /\ calls'[p].op = calls[p].op /\ calls'[p].path = calls[p].path
        /\ calls'[p].data = calls[p].data /\ calls'[p].temp = calls[p].temp
        /\ calls'[p].left = calls[p].left
    BY <1>1, <1>2, GoesIs DEF Ats
  <2>2. CallFits(p)'
    BY <1>1, <2>1 DEF CallFits
  <2>. QED
    BY <1>1, <1>2, <2>2, GoesStep DEF CallAt, Ats
<1>3. CASE Ends(p) /\ UNCHANGED <<present, latest>>
  BY <1>1, <1>3, EndsStep DEF CallAt
<1>4. CASE /\ calls[p].path \notin DOMAIN present /\ Goes(p, "write")
           /\ present' = Holding(calls[p].path, << >>)
           /\ latest' = [latest EXCEPT ![calls[p].path] = Missing]
  BY <1>1, <1>4, MakeStep DEF CallAt
<1>. QED
  BY <1>2, <1>3, <1>4 DEF open_exclusively

(* Another piece, or the end of the file.                                  *)
LEMMA OnePieceMore ==
  ASSUME NEW s \in Seq(Pieces), NEW l \in Seq(Pieces), l # << >>
  PROVE  /\ Append(s, Head(l)) \in Seq(Pieces) /\ Tail(l) \in Seq(Pieces)
         /\ Append(s, Head(l)) \o Tail(l) = s \o l
  OBVIOUS

LEMMA WritePieceStep ==
  ASSUME VirtualInv, NEW p \in Writers, write_piece(p)
  PROVE  VirtualInv'
<1> DEFINE f == calls[p].path
<1>1. /\ calls[p].at = "write" /\ Types /\ CallFits(p) /\ f \in Paths /\ calls[p] \in Calls
      /\ calls[p].op = "write" /\ begun \in Nat /\ DOMAIN present \subseteq Paths
      /\ UNCHANGED <<backend, temps, begun>>
  BY DEF write_piece, CallAt, VirtualInv, Types, CallFits
<1>2. /\ Writing(p) /\ f \in DOMAIN present /\ latest[f] = Missing /\ HasWritten(p) /\ Alone(p, f)
  BY <1>1, WriterIsAlone DEF VirtualInv, WritersAlone, Writing, CallAt
<1>3. Missing.by = {}
  BY DEF Missing
<1>4. CASE calls[p].left = << >>
  <2>1. Succeeds(p) /\ Ends(p) /\ present' = present
    BY <1>4 DEF write_piece
  <2>2. present[f] = calls[p].data
    BY <1>2, <1>4 DEF HasWritten
  <2>. QED
    BY <1>1, <1>2, <1>3, <2>1, <2>2, SuccessStep DEF CallAt
<1>5. CASE calls[p].left # << >>
  <2> DEFINE more == Append(present[f], Head(calls[p].left))
  <2>1. /\ present' = Holding(f, more) /\ latest' = latest
        /\ calls' = [calls EXCEPT ![p].left = Tail(calls[p].left)]
    BY <1>5 DEF write_piece
  <2>2. /\ more \in Seq(Pieces) /\ Tail(calls[p].left) \in Seq(Pieces)
        /\ more \o Tail(calls[p].left) = calls[p].data
    <3>1. present[f] \in Seq(Pieces) /\ calls[p].left \in Seq(Pieces)
      BY <1>1, <1>2 DEF HasWritten, Calls
    <3>. QED
      BY <1>2, <1>5, <3>1, OnePieceMore DEF HasWritten
  <2> HIDE DEF more
  <2>3. /\ calls' \in [Writers -> Calls]
        /\ calls'[p].at = "write" /\ calls'[p].op = "write" /\ calls'[p].path = f
        /\ calls'[p].data = calls[p].data /\ calls'[p].temp = calls[p].temp
        /\ calls'[p].left = Tail(calls[p].left)
        /\ \A q \in Writers \ {p} : calls'[q] = calls[q]
    BY <1>1, <2>1, <2>2 DEF Types, Calls
  <2>4. /\ DOMAIN present' = DOMAIN present /\ present'[f] = more
        /\ \A g \in DOMAIN present : g # f => present'[g] = present[g]
    BY <1>2, <2>1 DEF Holding
  <2>5. CallFits(p)'
    BY <1>1, <2>3 DEF CallFits
  <2>6. Types'
    <3>1. latest' \in [Paths -> Files]
      BY <1>1, <2>1 DEF Types
    <3>. QED
      BY <1>1, <2>3, <2>4, <2>5, <3>1, TypesStay
  <2>7. TempsFit'
    BY <1>1, <2>3, TempsStay DEF CallAt
  <2>8. ~Replacing(p)' /\ HasWritten(p)'
    BY <2>2, <2>3, <2>4 DEF Replacing, HasWritten
  <2>9. WritersAlone' /\ ReplacersAlone' /\ OneMaker' /\ Kept'
    BY <1>1, <1>2, <1>3, <2>1, <2>3, <2>4, <2>8, FileStep
  <2>. QED
    BY <2>6, <2>7, <2>9 DEF VirtualInv
<1>. QED
  BY <1>4, <1>5

(* The replacement of a removed file is its temporary file.                *)
LEMMA RemoveIfExistsStep ==
  ASSUME VirtualInv, NEW p \in Writers, remove_if_exists(p)
  PROVE  VirtualInv'
<1> DEFINE f   == calls[p].path
           new == [data |-> calls[p].data, by |-> {}]
<1>1. /\ calls[p].at = "remove" /\ Types /\ CallFits(p) /\ f \in Paths /\ calls[p].data \in Written
      /\ calls[p].op = "overwrite" /\ backend = "sftp" /\ begun \in Nat /\ DOMAIN present \subseteq Paths
      /\ UNCHANGED <<backend, temps, begun>> /\ Goes(p, "rename") /\ present' = Lacking(f)
      /\ latest' = [latest EXCEPT ![f] = new]
  BY DEF remove_if_exists, CallAt, VirtualInv, Types, CallFits
<1>2. new \in Files /\ new.data = calls[p].data /\ new.by = {}
  BY <1>1 DEF Files
<1> HIDE DEF new
<1>3. /\ calls' \in [Writers -> Calls]
      /\ calls'[p].at = "rename" /\ calls'[p].op = calls[p].op /\ calls'[p].path = calls[p].path
      /\ calls'[p].data = calls[p].data /\ calls'[p].temp = calls[p].temp
      /\ \A q \in Writers \ {p} : calls'[q] = calls[q]
  BY <1>1, GoesIs DEF Ats
<1>4. /\ latest' \in [Paths -> Files] /\ latest'[f] = new
      /\ \A g \in Paths \ {f} : latest'[g] = latest[g]
  BY <1>1, <1>2 DEF Types
<1>5. /\ DOMAIN present' = DOMAIN present \ {f}
      /\ \A g \in DOMAIN present : g # f => present'[g] = present[g]
  BY <1>1 DEF Lacking
<1>6. CallFits(p)'
  BY <1>1, <1>3 DEF CallFits
<1>7. Types'
  BY <1>1, <1>3, <1>4, <1>5, <1>6, TypesStay
<1>8. TempsFit'
  BY <1>1, <1>3, TempsStay DEF CallAt
<1>9. Alone(p, f)
  <2>1. CASE f \in Roots
    BY <2>1, RootIsAlone
  <2>2. CASE f \notin Roots
    <3>1. latest[f].by = {p}
      BY <1>1, <2>2 DEF VirtualInv, ReplacersAlone, Replacing, CallAt
    <3>. QED
      BY <1>1, <3>1, MakerIsAlone
  <2>. QED
    BY <2>1, <2>2
<1>10. Rescued(f)'
  <2> DEFINE t == NewTemp(p, calls[p].data)
  <2>1. t \in temps /\ t.path = f /\ t.data = calls[p].data /\ t.name = calls[p].temp
    BY <1>1 DEF VirtualInv, TempsFit, CallAt, NewTemp
  <2>2. \A q \in Writers : calls[q].temp = calls[p].temp => q = p
    BY <1>1 DEF VirtualInv, TempsFit, CallAt
  <2> HIDE DEF t
  <2>3. \A q \in Writers : calls'[q].temp = t.name => CallAt(q, "rename")'
    BY <1>3, <2>1, <2>2 DEF CallAt
  <2>4. t \in temps' /\ t.path = calls'[p].path /\ t.data = latest'[calls'[p].path].data
    BY <1>1, <1>2, <1>3, <1>4, <2>1
  <2>. QED
    BY <2>3, <2>4 DEF Rescued
<1>11. ~Writing(p)' /\ ~Replacing(p)' /\ ~CallAt(p, "write")'
  BY <1>1, <1>3 DEF Writing, Replacing, CallAt
<1>12. WritersAlone' /\ ReplacersAlone' /\ OneMaker' /\ Kept'
  BY <1>1, <1>2, <1>3, <1>4, <1>5, <1>9, <1>10, <1>11, FileStep
<1>. QED
  BY <1>7, <1>8, <1>12 DEF VirtualInv

LEMMA RemovePathStep ==
  ASSUME VirtualInv, NEW p \in Writers, NEW f \in Paths, remove_path(p, f)
  PROVE  VirtualInv'
<1>1. /\ calls[p].at = "idle" /\ Types /\ CallFits(p) /\ DOMAIN present \subseteq Paths
      /\ calls[p].temp = 0 /\ MayRemove(p, f)
      /\ UNCHANGED <<backend, temps, calls, begun>> /\ present' = Lacking(f)
      /\ latest' = [latest EXCEPT ![f] = Missing]
  BY DEF remove_path, CallAt, VirtualInv, Types, CallFits
<1>2. Missing \in Files /\ Missing.by = {}
  BY DEF Missing, Files
<1>3. /\ latest' \in [Paths -> Files] /\ latest'[f] = Missing
      /\ \A g \in Paths \ {f} : latest'[g] = latest[g]
  BY <1>1, <1>2 DEF Types
<1>4. /\ DOMAIN present' = DOMAIN present \ {f}
      /\ \A g \in DOMAIN present : g # f => present'[g] = present[g]
  BY <1>1 DEF Lacking
<1>5. Types'
  BY <1>1, <1>3, <1>4, TypesStay DEF Types, CallFits
<1>6. TempsFit'
  BY <1>1 DEF VirtualInv, TempsFit, CallAt, NewTemp
<1>7. Alone(p, f)
  <2>1. CASE p \in latest[f].by
    <3>1. latest[f].by = {p}
      BY <2>1 DEF VirtualInv, OneMaker
    <3>. QED
      BY <3>1, MakerIsAlone
  <2>2. CASE Undisturbed(p, f)
    BY <2>2 DEF Undisturbed, Alone
  <2>. QED
    BY <1>1, <2>1, <2>2 DEF MayRemove
<1>8. ~Writing(p)' /\ ~Replacing(p)' /\ ~CallAt(p, "write")'
  BY <1>1 DEF Writing, Replacing, CallAt
<1>9. WritersAlone' /\ ReplacersAlone' /\ OneMaker' /\ Kept'
  BY <1>1, <1>2, <1>3, <1>4, <1>7, <1>8, FileStep
<1>. QED
  BY <1>5, <1>6, <1>9 DEF VirtualInv

-----------------------------------------------------------------------------
LEMMA InvHoldsFirst == VirtualInit => VirtualInv
<1>. SUFFICES ASSUME VirtualInit
              PROVE  VirtualInv
  OBVIOUS
<1>1. NoCall \in Calls
  BY DEF NoCall, Calls, Ats
<1>2. NoCall.at = "idle" /\ NoCall.temp = 0 /\ NoCall.op \notin {"write", "overwrite"}
  BY DEF NoCall
<1>3. Missing \in Files /\ Missing.by = {}
  BY DEF Missing, Files
<1>4. /\ \A p \in Writers : calls[p] = NoCall
      /\ \A f \in Paths : latest[f] = Missing
      /\ temps = {} /\ begun = 0
  BY DEF VirtualInit
<1>5. Types
  <2>1. \A p \in Writers : CallFits(p)
    BY <1>2, <1>4 DEF CallFits
  <2>2. calls \in [Writers -> Calls] /\ latest \in [Paths -> Files]
    BY <1>1, <1>3 DEF VirtualInit
  <2>3. DOMAIN present = {}
    <3>1. present = << >>
      BY DEF VirtualInit
    <3>2. << >> \in Seq(Pieces)
      OBVIOUS
    <3>3. Len(<< >>) = 0
      OBVIOUS
    <3>4. \A s \in Seq(Pieces) : Len(s) = 0 => DOMAIN s = {}
      OBVIOUS
    <3>. QED
      BY <3>1, <3>2, <3>3, <3>4
  <2>. QED
    BY <1>4, <2>1, <2>2, <2>3 DEF Types
<1>6. TempsFit
  BY <1>2, <1>4 DEF TempsFit, CallAt
<1>7. WritersAlone /\ ReplacersAlone
  BY <1>2, <1>4 DEF WritersAlone, ReplacersAlone, Writing, Replacing, CallAt
<1>8. OneMaker /\ Kept
  BY <1>3, <1>4 DEF OneMaker, Kept
<1>. QED
  BY <1>5, <1>6, <1>7, <1>8 DEF VirtualInv

LEMMA InvStays == VirtualInv /\ [VirtualNext]_virtualVars => VirtualInv'
<1>1. ASSUME VirtualInv, VirtualNext
      PROVE  VirtualInv'
  BY <1>1, BeginStep, RemovePathStep, TempfileStep, FillStep, LinkStep, CreateStep, RenameStep,
     OpenStep, MakedirsStep, WritePieceStep, RemoveIfExistsStep, SftpRenameStep, DiesStep
     DEF VirtualNext
<1>2. ASSUME VirtualInv, UNCHANGED virtualVars
      PROVE  VirtualInv'
  <2>. USE <1>2 DEF virtualVars, VirtualInv, CallAt
  <2>1. Types'
    BY DEF Types, CallFits
  <2>2. TempsFit'
    BY DEF TempsFit, NewTemp
  <2>3. WritersAlone' /\ ReplacersAlone' /\ OneMaker'
    BY DEF WritersAlone, Writing, HasWritten, ReplacersAlone, Replacing, OneMaker
  <2>4. Kept'
    BY DEF Kept, Rescued
  <2>. QED
    BY <2>1, <2>2, <2>3, <2>4
<1>. QED
  BY <1>1, <1>2

LEMMA InvSaysIt == VirtualInv => WrittenStays
<1>. SUFFICES ASSUME VirtualInv, NEW f \in Paths
              PROVE  /\ Cardinality(latest[f].by) <= 1
                     /\ latest[f] # Missing =>
                          IF f \in DOMAIN present THEN present[f] = latest[f].data
                          ELSE backend = "sftp" /\ \E t \in temps : t.path = f /\ t.data = latest[f].data
  BY DEF WrittenStays
<1>1. Cardinality(latest[f].by) <= 1
  <2>1. latest[f].by = {} \/ \E p \in Writers : latest[f].by = {p}
    BY DEF VirtualInv, OneMaker
  <2>2. Cardinality({}) = 0
    BY FS_EmptySet
  <2>3. \A p \in Writers : Cardinality({p}) = 1
    BY FS_Singleton
  <2>. QED
    BY <2>1, <2>2, <2>3
<1>2. latest[f] # Missing =>
        IF f \in DOMAIN present THEN present[f] = latest[f].data
        ELSE backend = "sftp" /\ \E t \in temps : t.path = f /\ t.data = latest[f].data
  BY DEF VirtualInv, Kept, Rescued
<1>. QED
  BY <1>1, <1>2

(* What a call has written is found whole until another call makes the     *)
(* file anew, of those that call write_file for one path at most one       *)
(* succeeds, and a file that is replaced over SFTP is whole in a temporary *)
(* file meanwhile: however many processes write and die, on every kind of  *)
(* virtual file system (vfs.py).                                           *)
THEOREM WrittenIsKept == VirtualSpec => []WrittenStays
<1>1. VirtualSpec => []VirtualInv
  BY InvHoldsFirst, InvStays, PTL DEF VirtualSpec
<1>. QED
  BY <1>1, InvSaysIt, PTL
=============================================================================
