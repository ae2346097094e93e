---------------------------- MODULE ForgetPolicy ----------------------------
(***************************************************************************)
(* The policy of forget --keep (forget_policy.py), and what becomes of a   *)
(* client's generations when backups and forgets with one policy follow    *)
(* each other (plugins/forget_plugin.py).                                  *)
(*                                                                         *)
(* A period is told by what strftime makes of a time: PeriodOf[p][t], the  *)
(* hour, day, week, month or year of t.  Weeks, months and years do not    *)
(* nest.                                                                   *)
(***************************************************************************)
EXTENDS Naturals, Sequences, SequencesExt, FiniteSetsExt

CONSTANTS
  Times,     \* moments at which a generation can end
  PeriodOf,  \* PeriodOf[p][t]: the period of kind p that t is in
  Options,   \* the arguments of --keep: sequences of [count, period]
  MaxMade    \* bound: generations made

Periods == DOMAIN PeriodOf

ASSUME PeriodsAssumption ==
  /\ Times \subseteq Nat /\ MaxMade \in Nat
  /\ \A p \in Periods, t \in Times : PeriodOf[p][t] \in Nat
  /\ \A p \in Periods : \A t, u \in Times : t <= u => PeriodOf[p][t] <= PeriodOf[p][u]
  /\ Options \subseteq Seq([count : Nat, period : Periods])

VARIABLES
  keep,    \* the rules: how many generations for each kind of period
  made,    \* every generation there has been: [id, time]
  kept     \* those that have not been removed

policyVars == <<keep, made, kept>>

(* A kind of period may be named once; what is not named counts zero.      *)
Duplicate(optarg) ==
  \E i, j \in DOMAIN optarg : i # j /\ optarg[i].period = optarg[j].period

parse(optarg) ==
  [p \in Periods |-> FoldLeft(LAMBDA n, rule : IF rule.period = p THEN rule.count ELSE n,
                              0, optarg)]

(* Faulty variant: the earlier of two neighbours stays.                    *)
FaultyEach(p, genlist) ==
  FoldLeft(LAMBDA matches, gen :
             IF matches # << >> /\ PeriodOf[p][Last(matches).time] = PeriodOf[p][gen.time]
             THEN matches ELSE Append(matches, gen),
           << >>, genlist)

(* The generations, but of neighbours in the same period only the later.   *)
last_in_each_period(p, genlist) ==
  FoldLeft(LAMBDA matches, gen :
             IF matches # << >> /\ PeriodOf[p][Last(matches).time] = PeriodOf[p][gen.time]
             THEN Append(Front(matches), gen)
             ELSE Append(matches, gen),
           << >>, genlist)

(* genids[-n:], which is all of them when there are fewer.                 *)
LastOf(seq, n) == SubSeq(seq, IF Len(seq) > n THEN Len(seq) - n + 1 ELSE 1, Len(seq))

(* Those of the list that are in S.                                        *)
Only(S, genlist) ==
  FoldLeft(LAMBDA rest, gen : IF gen \in S THEN Append(rest, gen) ELSE rest, << >>, genlist)

match(rules, genlist) ==
  Only(UNION {ToSet(LastOf(last_in_each_period(p, genlist), rules[p])) :
                p \in {q \in Periods : rules[q] > 0}},
       genlist)

PolicyInit ==
  /\ keep \in {parse(o) : o \in {o \in Options : ~Duplicate(o)}}
  /\ made = << >> /\ kept = << >>

(* The clock does not go back between two backups.                         *)
MakeGeneration(t) ==
  /\ Len(made) < MaxMade
  /\ made # << >> => t >= Last(made).time
  /\ LET gen == [id |-> Len(made) + 1, time |-> t]
     IN  made' = Append(made, gen) /\ kept' = Append(kept, gen)
  /\ UNCHANGED keep

(* Generations are removed and committed one at a time, oldest first: a    *)
(* forget that dies has removed some of what it chose.                     *)
choose_genids_to_remove == ToSet(kept) \ ToSet(match(keep, kept))

forget_some(n) ==
  /\ n \in 1 .. Cardinality(choose_genids_to_remove)
  /\ LET chosen == Only(choose_genids_to_remove, kept)
     IN  kept' = Only(ToSet(kept) \ ToSet(SubSeq(chosen, 1, n)), kept)
  /\ UNCHANGED <<keep, made>>

PolicyNext ==
  \/ \E t \in Times : MakeGeneration(t)
  \/ \E n \in 1 .. MaxMade : forget_some(n)

PolicySpec == PolicyInit /\ [][PolicyNext]_policyVars

PolicyTypeOK ==
  /\ Len(made) <= MaxMade /\ ToSet(kept) \subseteq ToSet(made)
  /\ keep \in [Periods -> Nat]

-----------------------------------------------------------------------------
(* What the manual says of --keep: of the last n periods in which there    *)
(* has been a generation, the last one.                                    *)
LastInPeriod(p, gen) ==
  \A other \in ToSet(made) :
    PeriodOf[p][other.time] = PeriodOf[p][gen.time] => other.id <= gen.id

LaterPeriods(p, gen) ==
  {PeriodOf[p][other.time] : other \in
     {g \in ToSet(made) : PeriodOf[p][g.time] > PeriodOf[p][gen.time]}}

Wanted ==
  {gen \in ToSet(made) : \E p \in Periods :
     LastInPeriod(p, gen) /\ Cardinality(LaterPeriods(p, gen)) < keep[p]}

(* However often forget runs, and wherever it dies, the generations the    *)
(* policy wants of all that were ever made are still there, and the next   *)
(* forget that ends leaves exactly those: forgetting after every backup    *)
(* keeps no less than forgetting once.                                     *)
PolicyIsKept == ToSet(match(keep, kept)) = Wanted
=============================================================================
