---------------------------- MODULE CompileProofs ----------------------------
(***************************************************************************)
(* Proofs about recording, compiling and replaying, for every application, *)
(* every set of inputs and any number of turns.                            *)
(***************************************************************************)
EXTENDS Compile, WellFoundedInduction, SequenceTheorems, FiniteSetTheorems, TLAPS

(***************************************************************************)
(* Comprehensions over turns                                               *)
(***************************************************************************)
\* Induction, on a set of numbers.
LEMMA Least ==
  ASSUME NEW T, T \subseteq Nat, T # {}
  PROVE  \E n \in T : \A m \in T : ~(m < n)
<1>1. PICK n \in T : \A m \in T : ~ (<<m, n>> \in OpToRel(<, Nat))
  BY NatLessThanWellFounded, WFMin
<1> QED BY <1>1 DEF OpToRel

Acted(turn) == turn.ok /\ turn.kind = "act"

\* s[n] is the ok act turns of the first n.
Selects(s, turns, n) ==
  s = [k \in 0 .. n |-> IF k = 0 THEN <<>>
                        ELSE IF Acted(turns[k]) THEN Append(s[k - 1], turns[k]) ELSE s[k - 1]]

LEMMA SelectionExists ==
  ASSUME NEW turns, NEW n \in Nat
  PROVE  \E s : Selects(s, turns, n)
<1> DEFINE Without == {k \in Nat : ~ \E s : Selects(s, turns, k)}
<1>1. SUFFICES ASSUME Without # {} PROVE FALSE
  OBVIOUS
<1>2. PICK k \in Without : \A m \in Without : ~(m < k)
  BY <1>1, Least
<1>3. CASE k = 0
  <2>1. Selects([j \in 0 .. 0 |-> <<>>], turns, 0)
    BY DEF Selects
  <2> QED BY <1>3, <2>1
<1>4. CASE k > 0
  <2>1. k - 1 \in Nat /\ k - 1 < k
    BY <1>4
  <2>2. PICK s : Selects(s, turns, k - 1)
    BY <1>2, <2>1
  <2> DEFINE more == [j \in 0 .. k |-> IF j < k THEN s[j]
                        ELSE IF Acted(turns[k]) THEN Append(s[k - 1], turns[k]) ELSE s[k - 1]]
  <2>3. \A j \in 0 .. k - 1 : s[j] = IF j = 0 THEN <<>>
                        ELSE IF Acted(turns[j]) THEN Append(s[j - 1], turns[j]) ELSE s[j - 1]
    BY <2>2 DEF Selects
  <2>4. \A j \in 0 .. k : more[j] = IF j = 0 THEN <<>>
                        ELSE IF Acted(turns[j]) THEN Append(more[j - 1], turns[j]) ELSE more[j - 1]
    <3> SUFFICES ASSUME NEW j \in 0 .. k
                 PROVE  more[j] = IF j = 0 THEN <<>>
                          ELSE IF Acted(turns[j]) THEN Append(more[j - 1], turns[j]) ELSE more[j - 1]
      OBVIOUS
    <3>1. CASE j < k
      <4>1. j \in 0 .. k - 1 /\ (j # 0 => j - 1 \in 0 .. k /\ j - 1 < k)
        BY <3>1
      <4> QED BY <2>3, <3>1, <4>1
    <3>2. CASE j = k
      <4>1. k - 1 \in 0 .. k /\ k - 1 < k /\ k \in 0 .. k /\ ~(k < k)
        BY <1>4
      <4> QED BY <1>4, <3>2, <4>1
    <3> QED BY <3>1, <3>2
  <2> HIDE DEF more
  <2>5. Selects(more, turns, k)
    <3>1. more = [j \in 0 .. k |-> more[j]]
      BY DEF more
    <3> QED BY <2>4, <3>1 DEF Selects
  <2> QED BY <2>5
<1> QED BY <1>2, <1>3, <1>4

AgreeUpTo(u, v, m) == \A k \in 1 .. m : u[k] = v[k]

\* It is a function of the turns it is about.
LEMMA SelectionIsOne ==
  ASSUME NEW s, NEW t, NEW u, NEW v, NEW m \in Nat, NEW n \in Nat, m <= n,
         Selects(s, u, m), Selects(t, v, n), AgreeUpTo(u, v, m)
  PROVE  s[m] = t[m]
<1> DEFINE Differ == {k \in 0 .. m : s[k] # t[k]}
<1>1. SUFFICES ASSUME Differ # {} PROVE FALSE
  OBVIOUS
<1>2. Differ \subseteq Nat
  OBVIOUS
<1>3. PICK k \in Differ : \A j \in Differ : ~(j < k)
  BY <1>1, <1>2, Least
<1>4. /\ s[k] = IF k = 0 THEN <<>> ELSE IF Acted(u[k]) THEN Append(s[k - 1], u[k]) ELSE s[k - 1]
      /\ t[k] = IF k = 0 THEN <<>> ELSE IF Acted(v[k]) THEN Append(t[k - 1], v[k]) ELSE t[k - 1]
  <2>1. k \in 0 .. m /\ k \in 0 .. n
    OBVIOUS
  <2> HIDE DEF Differ
  <2> QED BY <2>1 DEF Selects
<1>5. CASE k > 0
  <2>1. k - 1 \in 0 .. m /\ k - 1 < k
    BY <1>5
  <2>2. s[k - 1] = t[k - 1]
    BY <1>3, <2>1
  <2>3. u[k] = v[k]
    BY <1>5 DEF AgreeUpTo
  <2> QED BY <1>3, <1>4, <2>2, <2>3
<1> QED BY <1>3, <1>4, <1>5

LEMMA KeptIsSelected ==
  ASSUME NEW run, Len(run.turns) \in Nat
  PROVE  \E s : Selects(s, run.turns, Len(run.turns)) /\ kept_acts(run) = s[Len(run.turns)]
<1> DEFINE s == CHOOSE s : Selects(s, run.turns, Len(run.turns))
<1>1. Selects(s, run.turns, Len(run.turns))
  BY SelectionExists
<1>2. kept_acts(run) = s[Len(run.turns)]
  BY DEF kept_acts, Selects, Acted
<1> QED BY <1>1, <1>2

Kept == {turn \in Turn : Acted(turn) /\ turn.act \in Acts /\ turn.expect \in Expects}

\* What the compiler keeps grows with the turns, and by proved actions only.
LEMMA KeptOfNone == ASSUME NEW run, run.turns = <<>> PROVE kept_acts(run) = <<>>
<1>1. Len(run.turns) = 0
  OBVIOUS
<1>2. PICK s : Selects(s, run.turns, 0) /\ kept_acts(run) = s[0]
  BY <1>1, KeptIsSelected
<1> QED BY <1>2 DEF Selects

LEMMA KeptOfAppend ==
  ASSUME NEW run, NEW more, NEW turn \in Turn, run.turns \in Seq(Turn), more.turns = Append(run.turns, turn)
  PROVE  kept_acts(more) = IF Acted(turn) THEN Append(kept_acts(run), turn) ELSE kept_acts(run)
<1> DEFINE n == Len(run.turns)
<1>1. /\ n \in Nat /\ Len(more.turns) = n + 1 /\ more.turns[n + 1] = turn
      /\ \A k \in 1 .. n : more.turns[k] = run.turns[k]
  BY AppendProperties, LenProperties
<1>2. PICK s : Selects(s, run.turns, n) /\ kept_acts(run) = s[n]
  BY <1>1, KeptIsSelected
<1> HIDE DEF n
<1>3. PICK t : Selects(t, more.turns, n + 1) /\ kept_acts(more) = t[n + 1]
  <2>1. Len(more.turns) \in Nat
    BY <1>1
  <2>2. PICK t : Selects(t, more.turns, Len(more.turns)) /\ kept_acts(more) = t[Len(more.turns)]
    BY <2>1, KeptIsSelected
  <2> QED BY <1>1, <2>2
<1>4. s[n] = t[n]
  <2>1. AgreeUpTo(run.turns, more.turns, n)
    BY <1>1 DEF AgreeUpTo
  <2>2. n \in Nat /\ n + 1 \in Nat /\ n <= n + 1
    BY <1>1
  <2> QED BY <1>2, <1>3, <2>1, <2>2, SelectionIsOne
<1>5. t[n + 1] = IF Acted(turn) THEN Append(t[n], turn) ELSE t[n]
  <2>1. n + 1 \in 0 .. n + 1 /\ n + 1 # 0 /\ (n + 1) - 1 = n
    BY <1>1
  <2>2. t[n + 1] = IF Acted(more.turns[n + 1]) THEN Append(t[(n + 1) - 1], more.turns[n + 1]) ELSE t[(n + 1) - 1]
    BY <1>3, <2>1 DEF Selects
  <2> QED BY <1>1, <2>1, <2>2
<1> QED BY <1>2, <1>3, <1>4, <1>5

(***************************************************************************)
(* The ids of the steps                                                    *)
(***************************************************************************)
LEMMA UniqueIsNew ==
  ASSUME NEW act \in Acts, NEW used, IsFiniteSet(used), Cardinality(used) <= MaxTurns
  PROVE  unique(StepName[act], used) \in Ids /\ unique(StepName[act], used) \notin used
<1> DEFINE name == StepName[act]
           c == Cardinality(used)
           Free == {n \in 2 .. c + 1 : Suffixed[name][n] \notin used}
<1>1. c \in Nat /\ MaxTurns \in Nat /\ name \in Named /\ name \in Ids /\ c <= MaxTurns
  BY FS_CardinalityType, NamesAssumption DEF Named
<1>2. \A m \in 2 .. c + 1 : /\ Suffixed[name][m] # name /\ Suffixed[name][m] \in Ids
                             /\ \A n \in 2 .. c + 1 : m # n => Suffixed[name][m] # Suffixed[name][n]
  <2>1. \A m \in 2 .. c + 1 : m \in 2 .. MaxTurns + 1
    BY <1>1
  <2> QED BY <1>1, <2>1, NamesAssumption
<1> HIDE DEF name, c
<1>3. CASE name \notin used
  BY <1>1, <1>3 DEF unique, name
<1>4. CASE name \in used
  <2>1. Free # {}
    <3> SUFFICES ASSUME \A n \in 2 .. c + 1 : Suffixed[name][n] \in used PROVE FALSE
      OBVIOUS
    <3> DEFINE f == [n \in 1 .. c + 1 |-> IF n = 1 THEN name ELSE Suffixed[name][n]]
    <3>1. f \in [1 .. c + 1 -> used]
      BY <1>1, <1>4
    <3>2. IsFiniteSet(1 .. c + 1) /\ Cardinality(1 .. c + 1) = c + 1
      BY <1>1, FS_Interval
    <3>3. Cardinality(used) < Cardinality(1 .. c + 1)
      BY <1>1, <3>2 DEF c
    <3> HIDE DEF f
    <3>4. PICK m \in 1 .. c + 1, n \in 1 .. c + 1 : m # n /\ f[m] = f[n]
      BY <3>1, <3>2, <3>3, FS_PigeonHole
    <3> QED BY <1>1, <1>2, <3>4 DEF f
  <2>2. Free \subseteq Nat
    BY <1>1
  <2>3. PICK n \in Free : \A m \in Free : ~(m < n)
    BY <2>1, <2>2, Least
  <2>4. /\ n \in 2 .. c + 1 /\ Suffixed[name][n] \notin used
        /\ \A m \in 2 .. n - 1 : Suffixed[name][m] \in used
    <3>1. \A m \in 2 .. n - 1 : m \in 2 .. c + 1 /\ m < n
      BY <1>1
    <3> QED BY <2>3, <3>1
  <2> DEFINE k == CHOOSE n1 \in 2 .. c + 1 : /\ Suffixed[name][n1] \notin used
                                            /\ \A m \in 2 .. n1 - 1 : Suffixed[name][m] \in used
  <2>5. k \in 2 .. c + 1 /\ Suffixed[name][k] \notin used
    BY <2>4
  <2>6. unique(name, used) = Suffixed[name][k]
    BY <1>4 DEF unique, c
  <2> HIDE DEF k
  <2> QED BY <1>2, <2>5, <2>6 DEF name
<1> QED BY <1>3, <1>4

\* ids names the first n of acts, each by the ids before it.
Names(ids, acts, n) ==
  ids = [i \in 1 .. n |-> unique(StepName[acts[i].act], {ids[j] : j \in 1 .. i - 1})]

LEMMA NamesExist ==
  ASSUME NEW acts, NEW n \in Nat
  PROVE  \E ids : Names(ids, acts, n)
<1> DEFINE Without == {k \in Nat : ~ \E ids : Names(ids, acts, k)}
           Name(ids, i) == unique(StepName[acts[i].act], {ids[j] : j \in 1 .. i - 1})
<1>1. SUFFICES ASSUME Without # {} PROVE FALSE
  OBVIOUS
<1>2. PICK k \in Without : \A m \in Without : ~(m < k)
  BY <1>1, Least
<1>3. CASE k = 0
  <2>1. Names([j \in 1 .. 0 |-> 0], acts, 0)
    BY DEF Names
  <2> QED BY <1>3, <2>1
<1>4. CASE k > 0
  <2>1. k - 1 \in Nat /\ k - 1 < k
    BY <1>4
  <2>2. PICK ids : Names(ids, acts, k - 1)
    BY <1>2, <2>1
  <2> DEFINE more == [j \in 1 .. k |-> IF j < k THEN ids[j] ELSE Name(ids, k)]
  <2>3. \A j \in 1 .. k - 1 : ids[j] = Name(ids, j)
    BY <2>2 DEF Names
  <2>4. \A j \in 1 .. k : Name(more, j) = Name(ids, j)
    <3> SUFFICES ASSUME NEW j \in 1 .. k PROVE Name(more, j) = Name(ids, j)
      OBVIOUS
    <3>1. \A i \in 1 .. j - 1 : i \in 1 .. k /\ i < k
      BY <1>4
    <3>2. \A i \in 1 .. j - 1 : more[i] = ids[i]
      BY <3>1
    <3> HIDE DEF more
    <3>3. {more[i] : i \in 1 .. j - 1} = {ids[i] : i \in 1 .. j - 1}
      BY <3>2
    <3> QED BY <3>3
  <2>5. \A j \in 1 .. k : more[j] = Name(ids, j)
    <3> SUFFICES ASSUME NEW j \in 1 .. k PROVE more[j] = Name(ids, j)
      OBVIOUS
    <3> HIDE DEF Name
    <3>1. j < k => j \in 1 .. k - 1
      BY <1>4
    <3>2. j < k \/ j = k
      BY <1>4
    <3> QED BY <2>3, <3>1, <3>2
  <2>6. more = [j \in 1 .. k |-> Name(more, j)]
    <3>1. more = [j \in 1 .. k |-> more[j]]
      OBVIOUS
    <3> HIDE DEF more, Name
    <3> QED BY <2>4, <2>5, <3>1
  <2> HIDE DEF more
  <2>7. Names(more, acts, k)
    BY <2>6 DEF Names
  <2> QED BY <2>7
<1> QED BY <1>2, <1>3, <1>4

LEMMA StepIdsNamed ==
  ASSUME NEW acts \in Seq(Kept)
  PROVE  Names(step_ids(acts), acts, Len(acts))
<1>1. Len(acts) \in Nat /\ DOMAIN acts = 1 .. Len(acts)
  BY LenProperties
<1>2. step_ids(acts) = CHOOSE ids : Names(ids, acts, Len(acts))
  BY <1>1 DEF step_ids, Names
<1> QED BY <1>1, <1>2, NamesExist

\* No two steps have the same id, and each is an id.
LEMMA StepIdsDiffer ==
  ASSUME NEW acts \in Seq(Kept), Len(acts) <= MaxTurns
  PROVE  \A i \in 1 .. Len(acts) : /\ step_ids(acts)[i] \in Ids
                                   /\ \A j \in 1 .. i - 1 : step_ids(acts)[j] # step_ids(acts)[i]
<1> DEFINE ids == step_ids(acts)
<1>1. Len(acts) \in Nat /\ MaxTurns \in Nat
  BY LenProperties, NamesAssumption
<1>2. Names(ids, acts, Len(acts))
  BY StepIdsNamed
<1> HIDE DEF ids
<1> SUFFICES ASSUME NEW i \in 1 .. Len(acts)
             PROVE  ids[i] \in Ids /\ ids[i] \notin {ids[j] : j \in 1 .. i - 1}
  BY DEF ids
<1> DEFINE used == {ids[j] : j \in 1 .. i - 1}
<1>3. acts[i].act \in Acts
  BY ElementOfSeq DEF Kept
<1>4. IsFiniteSet(used) /\ Cardinality(used) <= i - 1
  <2> DEFINE f == [j \in 1 .. i - 1 |-> ids[j]]
  <2>1. f \in Surjection(1 .. i - 1, used)
    BY DEF Surjection
  <2>2. IsFiniteSet(1 .. i - 1) /\ Cardinality(1 .. i - 1) = i - 1
    <3>1. PICK n \in Nat : n = i - 1
      BY <1>1
    <3>2. IsFiniteSet(1 .. n) /\ Cardinality(1 .. n) = n
      BY FS_Interval
    <3> QED BY <3>1, <3>2
  <2> HIDE DEF f, used
  <2> QED BY <2>1, <2>2, FS_Surjection
<1>5. ids[i] = unique(StepName[acts[i].act], used)
  BY <1>2 DEF Names
<1> HIDE DEF used
<1>6. Cardinality(used) <= MaxTurns
  BY <1>1, <1>4, FS_CardinalityType
<1>7. ids[i] \in Ids /\ ids[i] \notin used
  BY <1>3, <1>4, <1>5, <1>6, UniqueIsNew
<1> QED BY <1>7 DEF used

(***************************************************************************)
(* Recording                                                               *)
(***************************************************************************)
\* A run's kept acts are of its turns, and only its last turn can declare an outcome.
WellMade(run) ==
  /\ run \in Run
  /\ kept_acts(run) \in Seq(Kept) /\ Len(kept_acts(run)) <= Len(run.turns)
  /\ run.status \in {"running", "failed"} => finishes(run) = {}
  /\ run.status \in {"success", "business_outcome"} =>
       /\ Len(run.turns) > 0 /\ finishes(run) = {Len(run.turns)}
       /\ run.turns[Len(run.turns)].expect \in Expects

\* What a turn may be, and the status it leaves.
Fits(turn, status) ==
  /\ turn \in Turn /\ status \in {"running", "success", "business_outcome"}
  /\ Acted(turn) => turn \in Kept
  /\ (turn.ok /\ turn.kind = "finish") <=> status # "running"
  /\ status # "running" => turn.expect \in Expects

Added(run, turn, status) == [run EXCEPT !.turns = Append(@, turn), !.status = status]

LEMMA TurnAdded ==
  ASSUME NEW run, WellMade(run), run.status = "running", NEW turn, NEW status, Fits(turn, status),
         NEW more, more = Added(run, turn, status)
  PROVE  /\ WellMade(more) /\ more.turns = Append(run.turns, turn) /\ more.status = status
         /\ more.world = run.world /\ Len(more.turns) = Len(run.turns) + 1
         /\ \A i \in 1 .. Len(run.turns) : more.turns[i] = run.turns[i]
         /\ more.turns[Len(run.turns) + 1] = turn
<1> DEFINE n == Len(run.turns)
<1>1. /\ run \in Run /\ run.turns \in Seq(Turn) /\ kept_acts(run) \in Seq(Kept)
      /\ Len(kept_acts(run)) <= n /\ finishes(run) = {} /\ turn \in Turn
      /\ status \in {"running", "success", "business_outcome"}
  BY DEF WellMade, Run, Fits
<1>2. more \in Run /\ more.turns = Append(run.turns, turn) /\ more.status = status /\ more.world = run.world
  BY <1>1, AppendProperties DEF Run, Status, Added
<1>3. /\ n \in Nat /\ Len(more.turns) = n + 1 /\ more.turns[n + 1] = turn
      /\ \A i \in 1 .. n : more.turns[i] = run.turns[i]
  BY <1>1, <1>2, AppendProperties, LenProperties
<1>4. kept_acts(more) = IF Acted(turn) THEN Append(kept_acts(run), turn) ELSE kept_acts(run)
  <2>1. run.turns \in Seq(Turn) /\ turn \in Turn /\ more.turns = Append(run.turns, turn)
    BY <1>1, <1>2
  <2> QED BY <2>1, KeptOfAppend
<1>5. kept_acts(more) \in Seq(Kept) /\ Len(kept_acts(more)) <= n + 1
  <2>1. Acted(turn) => turn \in Kept
    BY DEF Fits
  <2>2. Len(kept_acts(run)) \in Nat
    BY <1>1, LenProperties
  <2> HIDE DEF n
  <2>3. CASE Acted(turn)
    BY <1>1, <1>3, <1>4, <2>1, <2>2, <2>3, AppendProperties
  <2>4. CASE ~Acted(turn)
    BY <1>1, <1>3, <1>4, <2>2, <2>4
  <2> QED BY <2>3, <2>4
<1>6. finishes(more) = IF status # "running" THEN {n + 1} ELSE {}
  <2>1. (turn.ok /\ turn.kind = "finish") <=> status # "running"
    BY DEF Fits
  <2>2. DOMAIN more.turns = 1 .. n + 1 /\ DOMAIN run.turns = 1 .. n
    BY <1>1, <1>2, <1>3, LenProperties DEF Run
  <2>3. \A i \in 1 .. n : ~(run.turns[i].ok /\ run.turns[i].kind = "finish")
    BY <1>1, <2>2 DEF finishes
  <2> HIDE DEF n
  <2>4. \A i \in 1 .. n + 1 : more.turns[i].ok /\ more.turns[i].kind = "finish" <=> i = n + 1 /\ status # "running"
    BY <1>3, <2>1, <2>3
  <2>5. n + 1 \in 1 .. n + 1
    BY <1>3
  <2> QED BY <2>2, <2>4, <2>5 DEF finishes
<1>7. status # "running" => turn.expect \in Expects
  BY DEF Fits
<1>8. Len(more.turns) > 0
  BY <1>3
<1> HIDE DEF n
<1>9. WellMade(more)
  BY <1>1, <1>2, <1>3, <1>5, <1>6, <1>7, <1>8 DEF WellMade
<1> QED BY <1>2, <1>3, <1>9 DEF n

RecordInv ==
  /\ phase \in {"record", "compiled", "replay", "done"} /\ world \in Worlds /\ page \in Pages
  /\ steady \in BOOLEAN
  /\ runs \in Seq(Run) /\ Len(runs) \in 1 .. 2 /\ \A r \in 1 .. Len(runs) : WellMade(runs[r])
  /\ Len(primary.turns) <= MaxTurns
  /\ Len(runs) = 2 => primary.status = "success" /\ Len(runs[2].turns) <= MaxExtraTurns
  /\ current.status = "running" => phase = "record" /\ current.world = world

\* Noting a turn touches the current run, and no other.
LEMMA Noted ==
  ASSUME RecordInv, current.status = "running", NEW turn, NEW status, Fits(turn, status), Note(turn, status)
  PROVE  /\ runs' \in Seq(Run) /\ Len(runs') = Len(runs) /\ Len(runs) \in 1 .. 2
         /\ \A r \in 1 .. Len(runs) - 1 : runs'[r] = runs[r]
         /\ runs'[Len(runs)] = Added(current, turn, status)
         /\ \A r \in 1 .. Len(runs) : WellMade(runs'[r])
<1>1. /\ runs \in Seq(Run) /\ Len(runs) \in 1 .. 2 /\ \A r \in 1 .. Len(runs) : WellMade(runs[r])
      /\ DOMAIN runs = 1 .. Len(runs)
  BY LenProperties DEF RecordInv
<1>2. WellMade(current) /\ current = runs[Len(runs)]
  BY <1>1 DEF current
<1> DEFINE more == Added(current, turn, status)
<1>3. WellMade(more)
  BY <1>2, TurnAdded
<1>4. runs' = [runs EXCEPT ![Len(runs)] = more]
  BY <1>1, <1>2 DEF Note, Added
<1>5. more \in Run
  BY <1>3 DEF WellMade
<1> HIDE DEF more
<1>6. runs' \in Seq(Run) /\ Len(runs') = Len(runs) /\ \A r \in 1 .. Len(runs) : runs'[r] = IF r = Len(runs) THEN more ELSE runs[r]
  BY <1>1, <1>4, <1>5, ExceptSeq
<1>7. /\ \A r \in 1 .. Len(runs) - 1 : runs'[r] = runs[r]
      /\ runs'[Len(runs)] = more
      /\ \A r \in 1 .. Len(runs) : WellMade(runs'[r])
  <2>1. Len(runs) \in Nat /\ Len(runs) >= 1
    BY <1>1
  <2>2. \A r \in 1 .. Len(runs) - 1 : r \in 1 .. Len(runs) /\ r # Len(runs)
    BY <2>1
  <2>3. \A r \in 1 .. Len(runs) : WellMade(runs'[r])
    <3> SUFFICES ASSUME NEW r \in 1 .. Len(runs) PROVE WellMade(runs'[r])
      OBVIOUS
    <3>1. runs'[r] = more \/ runs'[r] = runs[r]
      BY <1>6
    <3> QED BY <1>1, <1>3, <3>1
  <2> QED BY <1>6, <2>1, <2>2, <2>3
<1> QED BY <1>1, <1>6, <1>7 DEF more

LEMMA NotedKeeps ==
  ASSUME RecordInv, current.status = "running", Len(current.turns) < budget,
         NEW turn, NEW status, Fits(turn, status), Note(turn, status),
         phase' = phase, world' = world, page' \in Pages, steady' \in BOOLEAN
  PROVE  RecordInv'
<1>1. /\ runs' \in Seq(Run) /\ Len(runs') = Len(runs) /\ Len(runs) \in 1 .. 2
      /\ \A r \in 1 .. Len(runs) - 1 : runs'[r] = runs[r]
      /\ runs'[Len(runs)] = Added(current, turn, status)
      /\ \A r \in 1 .. Len(runs) : WellMade(runs'[r])
  BY Noted
<1>2. WellMade(current) /\ Len(current.turns) \in Nat
  <2>1. Len(runs) \in 1 .. Len(runs) /\ \A r \in 1 .. Len(runs) : WellMade(runs[r])
    BY <1>1 DEF RecordInv
  <2>2. WellMade(current)
    BY <2>1 DEF current
  <2> QED BY <2>2, LenProperties DEF WellMade, Run
<1>3. /\ runs'[Len(runs)].status = status /\ runs'[Len(runs)].world = current.world
      /\ Len(runs'[Len(runs)].turns) = Len(current.turns) + 1 /\ Len(current.turns) \in Nat
  BY <1>1, <1>2, TurnAdded
<1>4. current' = runs'[Len(runs)] /\ primary' = runs'[1] /\ phase = "record" /\ current.world = world
  BY <1>1 DEF current, primary, RecordInv
<1>5. CASE Len(runs) = 1
  <2>1. Len(primary'.turns) <= MaxTurns
    BY <1>3, <1>4, <1>5, NamesAssumption DEF budget
  <2> QED BY <1>1, <1>3, <1>4, <1>5, <2>1 DEF RecordInv
<1>6. CASE Len(runs) = 2
  <2>1. runs'[1] = runs[1]
    BY <1>1, <1>6
  <2>2. Len(runs'[2].turns) <= MaxExtraTurns
    BY <1>3, <1>6, NamesAssumption DEF budget
  <2>3. Len(primary'.turns) <= MaxTurns /\ primary'.status = "success"
    BY <1>4, <1>6, <2>1 DEF RecordInv, primary
  <2> QED BY <1>1, <1>3, <1>4, <1>6, <2>1, <2>2, <2>3 DEF RecordInv
<1> QED BY <1>1, <1>5, <1>6

\* Where an action leads is a page.
LEMMA LeadsToPages ==
  ASSUME NEW act \in Acts, world \in Worlds, page \in Pages
  PROVE  /\ Leads(act) \subseteq Pages /\ App[world][page][act] \in Pages \cup {NoPage}
         /\ App[world][page][act] # NoPage => App[world][page][act] \in Leads(act)
<1>1. App[world][page][act] \in Pages \cup {NoPage} /\ Drifts \in [Pages -> SUBSET Pages]
  BY ApplicationAssumption
<1> QED BY <1>1 DEF Leads

ActTurn(act, expect) ==
  [kind |-> "act", act |-> act, expect |-> expect, page |-> page, ok |-> expect \in Holds[page'], binds |-> {}]
RefusedTurn ==
  [kind |-> "refused", act |-> NoAct, expect |-> NoExpect, page |-> page, ok |-> FALSE, binds |-> {}]
FinishTurn(expect, binds) ==
  [kind |-> "finish", act |-> NoAct, expect |-> expect, page |-> page, ok |-> TRUE, binds |-> binds]

LEMMA TurnsFit ==
  ASSUME page \in Pages
  PROVE  /\ \A act \in Acts, expect \in Expects : Fits(ActTurn(act, expect), "running")
         /\ Fits(RefusedTurn, "running")
         /\ \A expect \in Expects, binds \in SUBSET Outputs :
              /\ Fits(FinishTurn(expect, binds), "success")
              /\ Fits(FinishTurn(expect, binds), "business_outcome")
<1>1. \A act \in Acts, expect \in Expects : Fits(ActTurn(act, expect), "running")
  BY DEF Fits, ActTurn, Turn, Kept, Acted
<1>2. Fits(RefusedTurn, "running")
  BY DEF Fits, RefusedTurn, Turn, Kept, Acted
<1>3. \A expect \in Expects, binds \in SUBSET Outputs, status \in {"success", "business_outcome"} :
        Fits(FinishTurn(expect, binds), status)
  BY DEF Fits, FinishTurn, Turn, Kept, Acted
<1> QED BY <1>1, <1>2, <1>3

\* A new run is well made.
LEMMA Begins ==
  ASSUME NEW w \in Worlds
  PROVE  WellMade(Begun(w)) /\ Begun(w).status = "running" /\ Begun(w).world = w /\ Begun(w).turns = <<>>
<1>1. kept_acts(Begun(w)) = <<>> /\ finishes(Begun(w)) = {}
  BY KeptOfNone DEF Begun, finishes
<1>2. Begun(w) \in Run
  BY DEF Begun, Run, Status
<1> QED BY <1>1, <1>2 DEF WellMade, Begun

LEMMA RecordInit == Init => RecordInv
<1> SUFFICES ASSUME Init PROVE RecordInv
  OBVIOUS
<1>1. /\ runs \in Seq(Run) /\ Len(runs) = 1 /\ runs[1] = Begun(world) /\ world \in Worlds
  BY Begins DEF Init, WellMade
<1>2. current = Begun(world) /\ primary = Begun(world)
  BY <1>1 DEF current, primary
<1>3. Len(<<>>) = 0 /\ MaxTurns \in Nat /\ Start \in Pages
  BY NamesAssumption, ApplicationAssumption
<1> QED BY <1>1, <1>2, <1>3, Begins DEF Init, RecordInv

(***************************************************************************)
(* What the compiler writes                                                *)
(***************************************************************************)
\* One step for each kept act, in order.
LEMMA StepsCompiled ==
  ASSUME NEW run, WellMade(run), Len(run.turns) <= MaxTurns
  PROVE  /\ compile_steps(run) \in Seq(Step) /\ Len(compile_steps(run)) = Len(kept_acts(run))
         /\ Len(kept_acts(run)) \in Nat /\ Len(kept_acts(run)) <= MaxTurns
         /\ \A k \in 1 .. Len(kept_acts(run)) :
              /\ compile_steps(run)[k].act = kept_acts(run)[k].act
              /\ compile_steps(run)[k].expect = kept_acts(run)[k].expect
              /\ compile_steps(run)[k].id = step_ids(kept_acts(run))[k]
              /\ compile_steps(run)[k].act \in Acts /\ kept_acts(run)[k] \in Kept
<1> DEFINE acts == kept_acts(run)
<1>1. acts \in Seq(Kept) /\ Len(acts) <= Len(run.turns) /\ Len(run.turns) \in Nat
  BY LenProperties DEF WellMade, Run
<1> HIDE DEF acts
<1>2. Len(acts) \in Nat /\ DOMAIN acts = 1 .. Len(acts) /\ MaxTurns \in Nat /\ Len(acts) <= MaxTurns
  BY <1>1, LenProperties, NamesAssumption
<1>3. \A k \in 1 .. Len(acts) : acts[k] \in Kept /\ step_ids(acts)[k] \in Ids
  BY <1>1, <1>2, StepIdsDiffer, ElementOfSeq
<1>4. compile_steps(run) =
        [k \in 1 .. Len(acts) |-> [id |-> step_ids(acts)[k], act |-> acts[k].act, expect |-> acts[k].expect]]
  BY <1>2 DEF compile_steps, acts
<1>5. \A k \in 1 .. Len(acts) : /\ compile_steps(run)[k] \in Step /\ compile_steps(run)[k].act \in Acts
        /\ compile_steps(run)[k].act = acts[k].act /\ compile_steps(run)[k].expect = acts[k].expect
        /\ compile_steps(run)[k].id = step_ids(acts)[k]
  BY <1>3, <1>4 DEF Step, Kept
<1>6. compile_steps(run) \in [1 .. Len(acts) -> Step]
  BY <1>4, <1>5
<1>7. compile_steps(run) \in Seq(Step) /\ Len(compile_steps(run)) = Len(acts)
  BY <1>2, <1>6, IsASeq, LenProperties
<1> QED BY <1>2, <1>3, <1>5, <1>7 DEF acts

\* A run with an outcome declares that of its last turn, on the page it was on.
LEMMA OutcomeOfLast ==
  ASSUME NEW run, WellMade(run), run.status \in {"success", "business_outcome"}
  PROVE  /\ finish_record(run) = run.turns[Len(run.turns)] /\ outcome(run) \in Outcome
         /\ Len(run.turns) \in Nat \ {0}
<1>1. /\ finishes(run) = {Len(run.turns)} /\ Len(run.turns) \in Nat /\ Len(run.turns) > 0
      /\ run.turns \in Seq(Turn) /\ run.turns[Len(run.turns)].expect \in Expects
  BY LenProperties DEF WellMade, Run
<1>2. finish_record(run) = run.turns[Len(run.turns)]
  BY <1>1 DEF finish_record
<1>3. run.turns[Len(run.turns)] \in Turn
  BY <1>1, ElementOfSeq
<1>4. outcome(run) \in Outcome
  BY <1>1, <1>2, <1>3 DEF outcome, Outcome, Turn
<1> QED BY <1>1, <1>2, <1>4

LEMMA TheExtras ==
  ASSUME RecordInv
  PROVE  /\ DOMAIN extras = 1 .. Len(runs) - 1 /\ Len(extras) = Len(runs) - 1
         /\ \A i \in 1 .. Len(runs) - 1 : extras[i] = runs[i + 1] /\ WellMade(extras[i])
         /\ WellMade(primary) /\ Len(runs) \in 1 .. 2 /\ Len(primary.turns) <= MaxTurns
<1>1. runs \in Seq(Run) /\ Len(runs) \in 1 .. 2 /\ \A r \in 1 .. Len(runs) : WellMade(runs[r])
  BY DEF RecordInv
<1>2. runs # <<>>
  BY <1>1
<1>3. /\ extras \in Seq(Run) /\ Len(extras) = Len(runs) - 1
      /\ \A i \in 1 .. Len(extras) : extras[i] = runs[i + 1]
  BY <1>1, <1>2, HeadTailProperties DEF extras
<1>4. DOMAIN extras = 1 .. Len(runs) - 1
  BY <1>3, LenProperties
<1>5. \A i \in 1 .. Len(runs) - 1 : i + 1 \in 1 .. Len(runs)
  BY <1>1
<1>6. 1 \in 1 .. Len(runs)
  <2>1. Len(runs) \in 1 .. 2
    BY <1>1
  <2> QED BY <2>1
<1> QED BY <1>1, <1>3, <1>4, <1>5, <1>6 DEF primary, RecordInv

Compiles == CompilesSuccess(primary) /\ \A i \in DOMAIN extras : CompilesBusiness(extras[i], primary)

\* The artifact there is, is the one these runs compile to.
CompiledInv ==
  artifact # NoArtifact =>
    /\ phase # "record" /\ Compiles
    /\ artifact = [steps |-> compile_steps(primary), success |-> outcome(primary),
                   business |-> [i \in DOMAIN extras |-> outcome(extras[i])]]

\* Until a replay is over, its outputs are those of the steps it has walked.
ReplayInv ==
  /\ CompiledInv
  /\ phase \in {"compiled", "replay"} => artifact # NoArtifact
  /\ result \in {"none", "success", "business_outcome", "target_drift", "timeout", "checkpoint_failed"}
  /\ phase # "done" => result = "none"
  /\ phase \in {"record", "compiled"} => at = 0 /\ outputs = {}
  /\ artifact # NoArtifact => at \in 0 .. Len(artifact.steps)
  /\ outputs \subseteq Outputs
  /\ phase = "replay" => outputs = bound({artifact.steps[k].act : k \in 1 .. at})

LEMMA ArtifactIs ==
  ASSUME RecordInv, CompiledInv, artifact # NoArtifact
  PROVE  /\ artifact \in Artifact /\ Len(artifact.steps) \in 1 .. MaxTurns
         /\ Len(artifact.steps) = Len(kept_acts(primary)) /\ artifact.steps = compile_steps(primary)
         /\ artifact.success = outcome(primary) /\ DOMAIN artifact.business = 1 .. Len(runs) - 1
         /\ \A i \in 1 .. Len(runs) - 1 : artifact.business[i] = outcome(runs[i + 1])
<1>1. /\ Compiles
      /\ artifact = [steps |-> compile_steps(primary), success |-> outcome(primary),
                     business |-> [i \in DOMAIN extras |-> outcome(extras[i])]]
  BY DEF CompiledInv
<1>2. /\ DOMAIN extras = 1 .. Len(runs) - 1
      /\ \A i \in 1 .. Len(runs) - 1 : extras[i] = runs[i + 1] /\ WellMade(extras[i])
      /\ WellMade(primary) /\ Len(runs) \in 1 .. 2 /\ Len(primary.turns) <= MaxTurns
  BY TheExtras
<1>3. /\ compile_steps(primary) \in Seq(Step) /\ Len(compile_steps(primary)) = Len(kept_acts(primary))
      /\ Len(kept_acts(primary)) \in Nat /\ Len(kept_acts(primary)) <= MaxTurns
  BY <1>2, StepsCompiled
<1>4. Len(kept_acts(primary)) > 0
  <2>1. kept_acts(primary) # <<>> /\ kept_acts(primary) \in Seq(Kept)
    BY <1>1, <1>2 DEF Compiles, CompilesSuccess, HasSteps, WellMade
  <2> QED BY <1>3, <2>1, EmptySeq
<1>5. outcome(primary) \in Outcome
  BY <1>1, <1>2, OutcomeOfLast DEF Compiles, CompilesSuccess
<1>6. \A i \in 1 .. Len(runs) - 1 : outcome(extras[i]) \in Outcome /\ outcome(extras[i]) = outcome(runs[i + 1])
  BY <1>1, <1>2, OutcomeOfLast DEF Compiles, CompilesBusiness
<1> DEFINE business == [i \in 1 .. Len(runs) - 1 |-> outcome(extras[i])]
<1>7. business \in Seq(Outcome)
  <2>1. Len(runs) - 1 \in Nat
    <3>1. Len(runs) \in 1 .. 2
      BY <1>2
    <3> HIDE DEF business
    <3> QED BY <3>1
  <2>2. business \in [1 .. Len(runs) - 1 -> Outcome]
    BY <1>6
  <2> HIDE DEF business
  <2> QED BY <2>1, <2>2, IsASeq
<1>8. artifact = [steps |-> compile_steps(primary), success |-> outcome(primary), business |-> business]
  BY <1>1, <1>2
<1>9. /\ DOMAIN business = 1 .. Len(runs) - 1
      /\ \A i \in 1 .. Len(runs) - 1 : business[i] = outcome(runs[i + 1])
  BY <1>6
<1> HIDE DEF business
<1>10. artifact \in Artifact
  BY <1>3, <1>5, <1>7, <1>8 DEF Artifact
<1> QED BY <1>3, <1>4, <1>8, <1>9, <1>10

\* The step a replay is at is one of the artifact's.
LEMMA StepIs ==
  ASSUME RecordInv, ReplayInv, phase = "replay", at < Len(artifact.steps)
  PROVE  /\ step = artifact.steps[at + 1] /\ step.act \in Acts /\ at \in Nat /\ at + 1 \in 1 .. Len(artifact.steps)
         /\ artifact # NoArtifact /\ artifact.steps \in Seq(Step) /\ Len(artifact.steps) \in Nat
         /\ step.expect \in Expects
<1>1. artifact # NoArtifact /\ CompiledInv
  BY DEF ReplayInv
<1>2. artifact.steps \in Seq(Step) /\ Len(artifact.steps) \in Nat
  BY <1>1, ArtifactIs, LenProperties DEF Artifact
<1>3. at \in Nat /\ at + 1 \in 1 .. Len(artifact.steps)
  BY <1>1, <1>2 DEF ReplayInv
<1>4. artifact.steps[at + 1] \in Step
  BY <1>2, <1>3, ElementOfSeq
<1> QED BY <1>1, <1>2, <1>3, <1>4 DEF step, Step

LEMMA RecordNext == RecordInv /\ ReplayInv /\ [Next]_vars => RecordInv'
<1> SUFFICES ASSUME RecordInv, ReplayInv, [Next]_vars PROVE RecordInv'
  OBVIOUS
<1>1. /\ phase \in {"record", "compiled", "replay", "done"} /\ world \in Worlds /\ page \in Pages
      /\ steady \in BOOLEAN /\ runs \in Seq(Run) /\ Len(runs) \in 1 .. 2
      /\ \A r \in 1 .. Len(runs) : WellMade(runs[r])
  BY DEF RecordInv
<1>2. Drifts \in [Pages -> SUBSET Pages] /\ Start \in Pages /\ Says \subseteq Acts \X Expects
      /\ Declares \subseteq Expects \X (SUBSET Outputs) \X BOOLEAN
  BY ApplicationAssumption
<1>3. ASSUME NEW said \in Says, TryAct(said[1], said[2]) PROVE RecordInv'
  <2>1. said[1] \in Acts /\ said[2] \in Expects
    BY <1>2
  <2>2. page' \in Pages /\ steady' \in BOOLEAN
    BY <1>1, <1>3, <2>1, LeadsToPages DEF TryAct
  <2>3. Note(ActTurn(said[1], said[2]), "running") /\ Fits(ActTurn(said[1], said[2]), "running")
    BY <1>1, <1>3, <2>1, TurnsFit DEF TryAct, ActTurn
  <2> QED BY <1>3, <2>2, <2>3, NotedKeeps DEF TryAct, Recording
<1>4. ASSUME NEW said \in Declares, Finish(said[1], said[2], said[3]) PROVE RecordInv'
  <2>1. said[1] \in Expects /\ said[2] \in SUBSET Outputs
    BY <1>2
  <2>2. PICK status \in {"success", "business_outcome"} : Note(FinishTurn(said[1], said[2]), status)
    BY <1>4 DEF Finish, FinishTurn
  <2>3. Fits(FinishTurn(said[1], said[2]), status)
    BY <1>1, <2>1, TurnsFit
  <2> QED BY <1>1, <1>4, <2>2, <2>3, NotedKeeps DEF Finish, Recording
<1>5. CASE Refuse
  <2>1. Note(RefusedTurn, "running") /\ Fits(RefusedTurn, "running")
    BY <1>1, <1>5, TurnsFit DEF Refuse, RefusedTurn
  <2> QED BY <1>1, <1>5, <2>1, NotedKeeps DEF Refuse, Recording
<1>6. CASE Abandon
  <2> DEFINE n == Len(runs)
             more == [current EXCEPT !.status = "failed"]
  <2>1. n \in 1 .. n /\ current = runs[n] /\ DOMAIN runs = 1 .. n /\ n \in Nat
    BY <1>1, LenProperties DEF current
  <2>2. WellMade(current) /\ current.status = "running"
    BY <1>1, <1>6, <2>1 DEF Abandon, Recording
  <2>3. /\ more \in Run /\ more.turns = current.turns /\ more.status = "failed" /\ more.world = current.world
    BY <2>2 DEF WellMade, Run, Status
  <2>4. runs' = [runs EXCEPT ![n] = more]
    BY <1>6, <2>1 DEF Abandon
  <2>5. kept_acts(more) = kept_acts(current) /\ finishes(more) = finishes(current)
    BY <2>3 DEF kept_acts, finishes
  <2>6. WellMade(more)
    BY <2>2, <2>3, <2>5 DEF WellMade
  <2> HIDE DEF n, more
  <2>7. runs' \in Seq(Run) /\ Len(runs') = n /\ \A r \in 1 .. n : runs'[r] = IF r = n THEN more ELSE runs[r]
    BY <1>1, <2>1, <2>3, <2>4, ExceptSeq DEF n
  <2>8. \A r \in 1 .. n : WellMade(runs'[r])
    <3> SUFFICES ASSUME NEW r \in 1 .. n PROVE WellMade(runs'[r])
      OBVIOUS
    <3>1. runs'[r] = more \/ runs'[r] = runs[r]
      BY <2>7
    <3> QED BY <1>1, <2>6, <3>1 DEF n
  <2>9. current' = more /\ primary' = (IF n = 1 THEN more ELSE primary)
        /\ (n = 2 => runs'[2] = more /\ current = runs[2]) /\ (n = 1 => current = primary)
    <3>1. current' = runs'[n] /\ primary' = runs'[1] /\ primary = runs[1] /\ n \in 1 .. 2
      BY <1>1, <2>7 DEF current, primary, n
    <3>2. runs'[n] = more /\ (n = 1 => runs'[1] = more) /\ (n # 1 => runs'[1] = runs[1])
      BY <2>1, <2>7
    <3>3. (n = 2 => current = runs[2]) /\ (n = 1 => current = primary)
      BY <2>1, <3>1
    <3> QED BY <3>1, <3>2, <3>3
  <2>10. Len(primary'.turns) <= MaxTurns
    BY <2>3, <2>9 DEF RecordInv
  <2>11. n = 2 => primary'.status = "success" /\ Len(runs'[2].turns) <= MaxExtraTurns
    BY <2>3, <2>9 DEF RecordInv, n
  <2> QED BY <1>1, <1>6, <2>3, <2>7, <2>8, <2>9, <2>10, <2>11 DEF RecordInv, Abandon, n
<1>7. ASSUME NEW w \in Worlds, DiscoverAgain(w) PROVE RecordInv'
  <2>1. WellMade(Begun(w)) /\ Begun(w).world = w /\ Begun(w).turns = <<>> /\ Begun(w) \in Run
    BY Begins DEF WellMade
  <2>2. runs' = Append(runs, Begun(w)) /\ Len(runs) = 1 /\ world' = w /\ page' = Start /\ phase' = phase
        /\ steady' = steady /\ phase = "record" /\ current.status = "success"
    BY <1>7 DEF DiscoverAgain
  <2>3. runs' \in Seq(Run) /\ Len(runs') = 2 /\ runs'[1] = runs[1] /\ runs'[2] = Begun(w)
    <3>1. /\ Append(runs, Begun(w)) \in Seq(Run) /\ Len(Append(runs, Begun(w))) = Len(runs) + 1
          /\ Append(runs, Begun(w))[Len(runs) + 1] = Begun(w)
          /\ \A i \in 1 .. Len(runs) : Append(runs, Begun(w))[i] = runs[i]
      BY <1>1, <2>1, AppendProperties
    <3> QED BY <2>2, <3>1
  <2>4. \A r \in 1 .. Len(runs') : WellMade(runs'[r])
    <3>1. WellMade(runs[1])
      BY <1>1, <2>2
    <3> QED BY <2>1, <2>3, <3>1
  <2>5. current' = Begun(w) /\ primary' = primary /\ primary = current
    BY <2>2, <2>3 DEF current, primary
  <2>6. Len(<<>>) <= MaxExtraTurns
    BY NamesAssumption
  <2>7. Len(primary'.turns) <= MaxTurns
    BY <2>5 DEF RecordInv
  <2> QED BY <1>1, <1>2, <2>1, <2>2, <2>3, <2>4, <2>5, <2>6, <2>7 DEF RecordInv
<1>8. ASSUME UNCHANGED <<runs, world>>, page' \in Pages, steady' \in BOOLEAN,
             phase' \in {"record", "compiled", "replay", "done"}, current.status = "running" => phase' = "record"
      PROVE  RecordInv'
  BY <1>8 DEF RecordInv, current, primary
<1>9. CASE CompileRuns
  BY <1>1, <1>8, <1>9 DEF CompileRuns
<1>10. CASE Drift
  BY <1>1, <1>2, <1>8, <1>10 DEF Drift, RecordInv
<1>11. current.status = "running" => phase = "record"
  BY DEF RecordInv
<1>12. ASSUME NEW w \in Worlds, Replay(w) PROVE RecordInv'
  <2>1. current.status # "running" /\ world' = w /\ page' = Start /\ phase' = "replay" /\ runs' = runs /\ steady' = steady
    BY <1>11, <1>12 DEF Replay
  <2>2. current' = current /\ primary' = primary
    BY <2>1 DEF current, primary
  <2> QED BY <1>1, <1>2, <2>1, <2>2 DEF RecordInv
<1>13. CASE Walk
  <2>1. page' \in Pages
    BY <1>1, <1>13, StepIs, LeadsToPages DEF Walk
  <2>2. steady' \in BOOLEAN /\ phase' \in {"replay", "done"} /\ runs' = runs /\ world' = world
    BY <1>1, <1>13 DEF Walk, Conclude, End
  <2> QED BY <1>8, <1>11, <1>13, <2>1, <2>2 DEF Walk
<1>14. CASE TargetDrifted
  BY <1>1, <1>8, <1>11, <1>14 DEF TargetDrifted, End
<1>15. CASE Checkpoint
  BY <1>1, <1>8, <1>11, <1>15 DEF Checkpoint, Conclude, End
<1>16. CASE UNCHANGED vars
  BY <1>1, <1>8, <1>11, <1>16 DEF vars
<1> QED BY <1>3, <1>4, <1>5, <1>6, <1>7, <1>9, <1>10, <1>12, <1>13, <1>14, <1>15, <1>16 DEF Next, Over

LEMMA ReplayInit == Init => ReplayInv
BY DEF Init, ReplayInv, CompiledInv

\* A recording changes nothing a replay keeps.
LEMMA RecordingKeeps ==
  ASSUME ReplayInv, phase = "record", phase' = "record", UNCHANGED replaying
  PROVE  ReplayInv'
BY DEF ReplayInv, CompiledInv, replaying

\* A replay changes nothing a recording left.
LEMMA CompiledKeeps ==
  ASSUME CompiledInv, UNCHANGED <<runs, artifact>>, artifact # NoArtifact => phase' # "record"
  PROVE  CompiledInv'
<1>1. primary' = primary /\ extras' = extras
  BY DEF primary, extras
<1> QED BY <1>1 DEF CompiledInv, Compiles

LEMMA ReplayNext == RecordInv /\ ReplayInv /\ [Next]_vars => ReplayInv'
<1> SUFFICES ASSUME RecordInv, ReplayInv, [Next]_vars PROVE ReplayInv'
  OBVIOUS
<1>1. ASSUME NEW said \in Says, TryAct(said[1], said[2]) PROVE ReplayInv'
  BY <1>1, RecordingKeeps DEF TryAct, Recording
<1>2. ASSUME NEW said \in Declares, Finish(said[1], said[2], said[3]) PROVE ReplayInv'
  BY <1>2, RecordingKeeps DEF Finish, Recording
<1>3. CASE Refuse \/ Abandon
  BY <1>3, RecordingKeeps DEF Refuse, Abandon, Recording
<1>4. ASSUME NEW w \in Worlds, DiscoverAgain(w) PROVE ReplayInv'
  BY <1>4, RecordingKeeps DEF DiscoverAgain
<1>5. CASE CompileRuns
  <2>1. artifact' = compile /\ runs' = runs /\ phase = "record" /\ phase' = (IF artifact' = NoArtifact THEN "done" ELSE "compiled")
        /\ at = 0 /\ at' = 0 /\ outputs' = {} /\ result' = "none"
    BY <1>5 DEF CompileRuns, ReplayInv
  <2>2. CompiledInv'
    <3>1. primary' = primary /\ extras' = extras
      BY <2>1 DEF primary, extras
    <3> QED BY <2>1, <3>1 DEF CompiledInv, Compiles, compile
  <2>3. ASSUME artifact' # NoArtifact PROVE Len(artifact'.steps) \in Nat
    <3>1. RecordInv'
      BY RecordNext
    <3> QED BY <2>2, <2>3, <3>1, ArtifactIs
  <2> QED BY <2>1, <2>2, <2>3 DEF ReplayInv
<1>6. CASE Drift
  <2>1. CompiledInv'
    BY <1>6, CompiledKeeps DEF Drift, ReplayInv, CompiledInv, replaying
  <2> QED BY <1>6, <2>1 DEF Drift, ReplayInv, replaying
<1>7. ASSUME NEW w \in Worlds, Replay(w) PROVE ReplayInv'
  <2>1. CompiledInv'
    BY <1>7, CompiledKeeps DEF Replay, ReplayInv, CompiledInv, replaying
  <2>2. bound({artifact.steps[k].act : k \in 1 .. 0}) = {}
    BY DEF bound
  <2> QED BY <1>7, <2>1, <2>2 DEF Replay, ReplayInv, replaying
<1>8. CASE Walk
  <2>1. /\ at < Len(artifact.steps) /\ phase = "replay" /\ outputs' = outputs \cup bound({step.act})
        /\ artifact' = artifact /\ runs' = runs
    BY <1>8 DEF Walk
  <2>2. /\ step = artifact.steps[at + 1] /\ step.act \in Acts /\ at \in Nat /\ at + 1 \in 1 .. Len(artifact.steps)
        /\ artifact # NoArtifact /\ Len(artifact.steps) \in Nat
    BY <2>1, StepIs
  <2>3. CompiledInv'
    BY <1>8, <2>1, CompiledKeeps DEF ReplayInv, Walk, Conclude, End
  <2>4. outputs' \subseteq Outputs
    BY <2>1, <2>2, ApplicationAssumption DEF bound, ReplayInv
  <2>5. outputs' = bound({artifact.steps[k].act : k \in 1 .. at + 1})
    <3>1. outputs = bound({artifact.steps[k].act : k \in 1 .. at})
      BY <2>1 DEF ReplayInv
    <3>2. 1 .. at + 1 = (1 .. at) \cup {at + 1}
      BY <2>2
    <3>3. {artifact.steps[k].act : k \in 1 .. at + 1} = {artifact.steps[k].act : k \in 1 .. at} \cup {step.act}
      BY <2>2, <3>2
    <3> QED BY <2>1, <3>1, <3>3 DEF bound
  <2>6. /\ at' \in {at, at + 1} /\ phase' \in {"replay", "done"}
        /\ phase' = "replay" => at' = at + 1 /\ result' = result
        /\ result' \in {"none", "success", "business_outcome", "target_drift", "timeout", "checkpoint_failed"}
    BY <1>8, <2>1 DEF Walk, Conclude, End, ReplayInv
  <2>7. result = "none"
    BY <2>1 DEF ReplayInv
  <2>8. at' \in 0 .. Len(artifact'.steps)
    BY <2>1, <2>2, <2>6
  <2>9. phase' = "replay" => outputs' = bound({artifact'.steps[k].act : k \in 1 .. at'})
    BY <2>1, <2>5, <2>6
  <2>10. artifact' # NoArtifact
    BY <2>1, <2>2
  <2>11. phase' # "done" => result' = "none"
    BY <2>6, <2>7
  <2> QED BY <2>3, <2>4, <2>6, <2>8, <2>9, <2>10, <2>11 DEF ReplayInv
<1>9. CASE TargetDrifted
  <2>1. CompiledInv'
    BY <1>9, CompiledKeeps DEF ReplayInv, TargetDrifted, End
  <2> QED BY <1>9, <2>1 DEF TargetDrifted, End, ReplayInv
<1>10. CASE Checkpoint
  <2>1. phase' = "done" /\ runs' = runs /\ artifact' = artifact /\ at' = at /\ outputs' = outputs
        /\ result' \in {"none", "success", "business_outcome", "target_drift", "timeout", "checkpoint_failed"}
    BY <1>10 DEF Checkpoint, Conclude, End
  <2>2. CompiledInv'
    BY <2>1, CompiledKeeps DEF ReplayInv
  <2> QED BY <2>1, <2>2 DEF ReplayInv
<1>11. CASE UNCHANGED vars
  <2>1. CompiledInv'
    BY <1>11, CompiledKeeps DEF ReplayInv, vars, CompiledInv
  <2> QED BY <1>11, <2>1 DEF ReplayInv, vars
<1> QED BY <1>1, <1>2, <1>3, <1>4, <1>5, <1>6, <1>7, <1>8, <1>9, <1>10, <1>11 DEF Next, Over

LEMMA ReplayAlways == Spec => [](RecordInv /\ ReplayInv)
<1>1. Init => RecordInv /\ ReplayInv
  BY RecordInit, ReplayInit
<1>2. RecordInv /\ ReplayInv /\ [Next]_vars => (RecordInv /\ ReplayInv)'
  BY RecordNext, ReplayNext
<1> QED BY <1>1, <1>2, PTL DEF Spec

\* Every variable keeps its range: what is recorded is turns of the application, and what
\* is compiled of it is an artifact.
THEOREM TypeCorrect == Spec => []TypeOK
<1>1. ASSUME RecordInv, ReplayInv PROVE TypeOK
  <2>1. runs \in Seq(Run) /\ Len(runs) \in 1 .. 2
    BY <1>1 DEF RecordInv
  <2>2. artifact # NoArtifact => artifact \in Artifact /\ Len(artifact.steps) \in 1 .. MaxTurns
    BY <1>1, ArtifactIs DEF ReplayInv
  <2> QED BY <1>1, <2>1, <2>2 DEF TypeOK, RecordInv, ReplayInv
<1> QED BY <1>1, ReplayAlways, PTL

\* unique: however the names of acts read as variants of one another, approvals, resumptions
\* and traces that name a step by its id mean one step.
THEOREM IdsAreUnique == Spec => []StepIdsAreUnique
<1>1. ASSUME RecordInv, ReplayInv PROVE StepIdsAreUnique
  <2> SUFFICES ASSUME artifact # NoArtifact, NEW i \in DOMAIN artifact.steps, NEW j \in DOMAIN artifact.steps,
                      artifact.steps[i].id = artifact.steps[j].id
               PROVE  i = j
    BY DEF StepIdsAreUnique
  <2> DEFINE acts == kept_acts(primary)
  <2>1. /\ artifact.steps = compile_steps(primary) /\ WellMade(primary) /\ Len(primary.turns) <= MaxTurns
    BY <1>1, ArtifactIs, TheExtras DEF ReplayInv
  <2>2. acts \in Seq(Kept)
    BY <2>1 DEF WellMade
  <2> HIDE DEF acts
  <2>3. /\ compile_steps(primary) \in Seq(Step) /\ Len(compile_steps(primary)) = Len(acts)
        /\ Len(acts) \in Nat /\ Len(acts) <= MaxTurns
        /\ \A k \in 1 .. Len(acts) : compile_steps(primary)[k].id = step_ids(acts)[k]
    BY <2>1, StepsCompiled DEF acts
  <2>4. i \in 1 .. Len(acts) /\ j \in 1 .. Len(acts)
    BY <2>1, <2>3, LenProperties
  <2>5. step_ids(acts)[i] = step_ids(acts)[j]
    BY <2>1, <2>3, <2>4
  <2>6. \A k \in 1 .. Len(acts) : \A m \in 1 .. k - 1 : step_ids(acts)[m] # step_ids(acts)[k]
    BY <2>2, <2>3, StepIdsDiffer
  <2>7. i < j => i \in 1 .. j - 1
    BY <2>3, <2>4
  <2>8. j < i => j \in 1 .. i - 1
    BY <2>3, <2>4
  <2> QED BY <2>3, <2>4, <2>5, <2>6, <2>7, <2>8
<1> QED BY <1>1, ReplayAlways, PTL

(***************************************************************************)
(* The path the kept acts take                                             *)
(***************************************************************************)
\* Where a run that is on page now was after its i-th turn, and after its k-th kept act.
PageAfter(run, now, i) == IF i < Len(run.turns) THEN run.turns[i + 1].page ELSE now
After(run, now, k) == IF k < Len(kept_acts(run)) THEN kept_acts(run)[k + 1].page ELSE now

Still(run, now) == \A i \in 1 .. Len(run.turns) : ~run.turns[i].ok => PageAfter(run, now, i) = run.turns[i].page
Settled(run, now) == {PageAfter(run, now, i) : i \in {j \in 1 .. Len(run.turns) : Acted(run.turns[j])}}

\* The k-th kept act led on from where the one before it led, and was proved there.
Led(run, now, k) ==
  /\ After(run, now, k) = App[run.world][After(run, now, k - 1)][kept_acts(run)[k].act]
  /\ kept_acts(run)[k].expect \in Holds[After(run, now, k)]
  /\ After(run, now, k) \in Settled(run, now)
Path(run, now) == After(run, now, 0) = Start /\ \A k \in 1 .. Len(kept_acts(run)) : Led(run, now, k)

LEMMA StillBefore ==
  ASSUME NEW run, WellMade(run), run.status = "running", NEW turn, NEW status, Fits(turn, status),
         NEW more, more = Added(run, turn, status), NEW next, Still(more, next)
  PROVE  /\ Still(run, turn.page) /\ (~turn.ok => next = turn.page)
         /\ Settled(more, next) = Settled(run, turn.page) \cup (IF Acted(turn) THEN {next} ELSE {})
<1> DEFINE n == Len(run.turns)
<1>1. /\ Len(more.turns) = n + 1 /\ \A i \in 1 .. n : more.turns[i] = run.turns[i]
      /\ more.turns[n + 1] = turn
  BY TurnAdded
<1>2. n \in Nat
  BY LenProperties DEF WellMade, Run
<1> HIDE DEF n
<1>3. \A i \in 1 .. n : PageAfter(more, next, i) = PageAfter(run, turn.page, i)
  <2> SUFFICES ASSUME NEW i \in 1 .. n PROVE PageAfter(more, next, i) = PageAfter(run, turn.page, i)
    OBVIOUS
  <2>1. CASE i < n
    <3>1. i + 1 \in 1 .. n /\ i < n + 1
      BY <1>2, <2>1
    <3> QED BY <1>1, <2>1, <3>1 DEF PageAfter, n
  <2>2. CASE i = n
    BY <1>1, <1>2, <2>2 DEF PageAfter, n
  <2> QED BY <1>2, <2>1, <2>2
<1>4. PageAfter(more, next, n + 1) = next
  BY <1>1, <1>2 DEF PageAfter
<1>5. \A i \in 1 .. n + 1 : ~more.turns[i].ok => PageAfter(more, next, i) = more.turns[i].page
  BY <1>1 DEF Still
<1>6. Still(run, turn.page)
  <2> SUFFICES ASSUME NEW i \in 1 .. n, ~run.turns[i].ok PROVE PageAfter(run, turn.page, i) = run.turns[i].page
    BY DEF Still, n
  <2>1. i \in 1 .. n + 1 /\ more.turns[i] = run.turns[i]
    BY <1>1, <1>2
  <2> QED BY <1>3, <1>5, <2>1
<1>7. ~turn.ok => next = turn.page
  <2>1. n + 1 \in 1 .. n + 1
    BY <1>2
  <2> QED BY <1>1, <1>4, <1>5, <2>1
<1>8. Settled(more, next) = Settled(run, turn.page) \cup (IF Acted(turn) THEN {next} ELSE {})
  <2>1. Settled(more, next) = {PageAfter(more, next, i) : i \in {j \in 1 .. n + 1 : Acted(more.turns[j])}}
    BY <1>1 DEF Settled
  <2>2. {j \in 1 .. n + 1 : Acted(more.turns[j])} =
          {j \in 1 .. n : Acted(run.turns[j])} \cup (IF Acted(turn) THEN {n + 1} ELSE {})
    <3>1. 1 .. n + 1 = (1 .. n) \cup {n + 1}
      BY <1>2
    <3> QED BY <1>1, <3>1
  <2>3. Settled(run, turn.page) = {PageAfter(run, turn.page, i) : i \in {j \in 1 .. n : Acted(run.turns[j])}}
    BY DEF Settled, n
  <2>4. {PageAfter(more, next, i) : i \in {j \in 1 .. n : Acted(run.turns[j])}} = Settled(run, turn.page)
    BY <1>3, <2>3
  <2> QED BY <1>4, <2>1, <2>2, <2>4
<1> QED BY <1>6, <1>7, <1>8

LEMMA PathGrows ==
  ASSUME NEW run, WellMade(run), run.status = "running", NEW turn, NEW status, Fits(turn, status),
         NEW more, more = Added(run, turn, status), NEW next, Still(more, next),
         Acted(turn) => next = App[run.world][turn.page][turn.act] /\ turn.expect \in Holds[next],
         ~Acted(turn) /\ turn.ok => next = turn.page,
         Still(run, turn.page) => Path(run, turn.page)
  PROVE  Path(more, next)
<1> DEFINE acts == kept_acts(run)
           m == Len(acts)
<1>1. /\ Still(run, turn.page) /\ (~turn.ok => next = turn.page)
      /\ Settled(more, next) = Settled(run, turn.page) \cup (IF Acted(turn) THEN {next} ELSE {})
  BY StillBefore
<1>2. Path(run, turn.page)
  BY <1>1
<1>3. acts \in Seq(Kept) /\ m \in Nat /\ run.turns \in Seq(Turn) /\ turn \in Turn /\ (Acted(turn) => turn \in Kept)
  BY LenProperties DEF WellMade, Run, Fits
<1>4. more.turns = Append(run.turns, turn) /\ more.world = run.world
  BY TurnAdded
<1>5. kept_acts(more) = IF Acted(turn) THEN Append(acts, turn) ELSE acts
  BY <1>3, <1>4, KeptOfAppend
<1>6. CASE ~Acted(turn)
  <2>1. next = turn.page /\ kept_acts(more) = acts /\ Settled(more, next) = Settled(run, turn.page)
    BY <1>1, <1>5, <1>6
  <2> HIDE DEF acts, m
  <2>2. \A k : After(more, next, k) = After(run, turn.page, k)
    BY <2>1 DEF After, acts
  <2>3. \A k : Led(run, turn.page, k) => Led(more, next, k)
    BY <1>4, <2>1, <2>2 DEF Led, acts
  <2> QED BY <1>2, <2>1, <2>2, <2>3 DEF Path, acts
<1>7. CASE Acted(turn)
  <2> HIDE DEF acts, m
  <2>1. /\ Len(kept_acts(more)) = m + 1 /\ kept_acts(more)[m + 1] = turn
        /\ \A k \in 1 .. m : kept_acts(more)[k] = acts[k]
    BY <1>3, <1>5, <1>7, AppendProperties DEF m
  <2>2. \A k \in 0 .. m : After(more, next, k) = After(run, turn.page, k)
    <3> SUFFICES ASSUME NEW k \in 0 .. m PROVE After(more, next, k) = After(run, turn.page, k)
      OBVIOUS
    <3>1. CASE k < m
      <4>1. k + 1 \in 1 .. m /\ k < m + 1
        BY <1>3, <3>1
      <4> QED BY <2>1, <3>1, <4>1 DEF After, m, acts
    <3>2. CASE k = m
      BY <1>3, <2>1, <3>2 DEF After, m, acts
    <3> QED BY <1>3, <3>1, <3>2
  <2>3. After(more, next, m + 1) = next /\ After(run, turn.page, m) = turn.page
    BY <1>3, <2>1 DEF After, m, acts
  <2>4. \A k \in 1 .. m : Led(run, turn.page, k)
    BY <1>2 DEF Path, m, acts
  <2>5. \A k \in 1 .. m : Led(more, next, k)
    <3> SUFFICES ASSUME NEW k \in 1 .. m PROVE Led(more, next, k)
      OBVIOUS
    <3>1. k \in 0 .. m /\ k - 1 \in 0 .. m
      BY <1>3
    <3>2. After(more, next, k) = After(run, turn.page, k) /\ After(more, next, k - 1) = After(run, turn.page, k - 1)
      BY <2>2, <3>1
    <3>3. kept_acts(more)[k] = kept_acts(run)[k]
      BY <2>1 DEF acts
    <3> QED BY <1>1, <1>4, <2>4, <3>2, <3>3 DEF Led
  <2>6. Led(more, next, m + 1)
    <3>1. (m + 1) - 1 = m /\ m \in 0 .. m
      BY <1>3
    <3>2. After(more, next, (m + 1) - 1) = turn.page
      BY <2>2, <2>3, <3>1
    <3>3. next \in Settled(more, next)
      BY <1>1, <1>7
    <3> QED BY <1>4, <1>7, <2>1, <2>3, <3>2, <3>3 DEF Led
  <2>7. After(more, next, 0) = Start
    <3>1. 0 \in 0 .. m
      BY <1>3
    <3> QED BY <1>2, <2>2, <3>1 DEF Path
  <2>8. \A k \in 1 .. m + 1 : k \in 1 .. m \/ k = m + 1
    BY <1>3
  <2> QED BY <2>1, <2>5, <2>6, <2>7, <2>8 DEF Path
<1> QED BY <1>6, <1>7

\* The page a run is on, or ended on.
Ended(run, now) == IF run.status = "running" THEN now ELSE run.turns[Len(run.turns)].page
Follows(run, now) ==
  run.status # "failed" /\ Still(run, Ended(run, now)) => Path(run, Ended(run, now))

\* While no page has turned into another by itself, a run no dead end disturbed has taken the
\* path of its kept acts.
PathInv == steady => \A r \in 1 .. Len(runs) : Follows(runs[r], page)

LEMMA OnlyTheLastRuns ==
  ASSUME RecordInv, NEW r \in 1 .. Len(runs), runs[r].status = "running"
  PROVE  r = Len(runs) /\ phase = "record"
<1>1. Len(runs) \in 1 .. 2 /\ (Len(runs) = 2 => runs[1].status = "success")
  BY DEF RecordInv, primary
<1> DEFINE n == Len(runs)
<1>2. r \in 1 .. n /\ n \in 1 .. 2 /\ (n = 2 => r # 1)
  BY <1>1
<1> HIDE DEF n
<1>3. r = n
  BY <1>2
<1>4. r = Len(runs)
  BY <1>3 DEF n
<1> QED BY <1>4 DEF RecordInv, current

LEMMA PathInit == Init => PathInv
<1> SUFFICES ASSUME Init PROVE Follows(runs[1], page)
  BY DEF Init, PathInv
<1>1. runs[1] = Begun(world) /\ page = Start
  BY DEF Init
<1>2. /\ Begun(world).status = "running" /\ Begun(world).turns = <<>> /\ kept_acts(Begun(world)) = <<>>
  BY KeptOfNone DEF Begun
<1>3. Path(Begun(world), Start)
  BY <1>2 DEF Path, After
<1> QED BY <1>1, <1>2, <1>3 DEF Follows, Ended

\* A turn noted extends the path of the run that goes on.
LEMMA PathNoted ==
  ASSUME RecordInv, PathInv, steady, current.status = "running", NEW turn, NEW status, Fits(turn, status),
         Note(turn, status), turn.page = page,
         Acted(turn) => page' = App[world][page][turn.act] /\ turn.expect \in Holds[page'],
         ~Acted(turn) /\ turn.ok => page' = page
  PROVE  PathInv'
<1> DEFINE n == Len(runs)
<1>1. /\ Len(runs') = n /\ n \in 1 .. 2 /\ \A r \in 1 .. n - 1 : runs'[r] = runs[r]
      /\ runs'[n] = Added(current, turn, status)
  BY Noted
<1>2. n \in 1 .. n /\ current = runs[n] /\ WellMade(current) /\ current.world = world
  BY <1>1 DEF current, RecordInv
<1>3. Follows(current, page)
  BY <1>2 DEF PathInv
<1> DEFINE more == Added(current, turn, status)
           next == Ended(more, page')
<1>4. more.status = status /\ Len(more.turns) = Len(current.turns) + 1 /\ more.turns[Len(current.turns) + 1] = turn
  BY <1>2, TurnAdded
<1> HIDE DEF n, more
<1>5. next = page'
  <2>1. status # "running" => ~Acted(turn) /\ turn.ok
    BY DEF Fits, Acted
  <2> QED BY <1>4, <2>1 DEF Ended
<1>6. Still(more, page') => Path(more, page')
  <2> SUFFICES ASSUME Still(more, page') PROVE Path(more, page')
    OBVIOUS
  <2>1. Still(current, turn.page) => Path(current, turn.page)
    BY <1>3 DEF Follows, Ended
  <2>2. Acted(turn) => page' = App[current.world][turn.page][turn.act] /\ turn.expect \in Holds[page']
    BY <1>2
  <2>3. ~Acted(turn) /\ turn.ok => page' = turn.page
    OBVIOUS
  <2> QED BY <1>2, <2>1, <2>2, <2>3, PathGrows DEF more
<1>7. Follows(more, page')
  BY <1>5, <1>6 DEF Follows
<1>8. \A r \in 1 .. n - 1 : Follows(runs[r], page')
  <2> SUFFICES ASSUME NEW r \in 1 .. n - 1 PROVE Follows(runs[r], page')
    OBVIOUS
  <2>1. r \in 1 .. n /\ r # n
    BY <1>1
  <2>2. runs[r].status # "running" /\ Follows(runs[r], page)
    BY <2>1, OnlyTheLastRuns DEF PathInv, n
  <2> QED BY <2>2 DEF Follows, Ended
<1>9. \A r \in 1 .. n : Follows(runs'[r], page')
  <2>1. \A r \in 1 .. n : r = n \/ r \in 1 .. n - 1
    BY <1>1
  <2>2. runs'[n] = more
    BY <1>1 DEF more
  <2> QED BY <1>1, <1>7, <1>8, <2>1, <2>2
<1> QED BY <1>1, <1>9 DEF PathInv

\* A run that has ended has taken its path, wherever the page is now.
LEMMA PathStays ==
  ASSUME RecordInv, PathInv, UNCHANGED runs, steady' => steady,
         page' = page \/ phase # "record"
  PROVE  PathInv'
<1> SUFFICES ASSUME steady, NEW r \in 1 .. Len(runs) PROVE Follows(runs[r], page')
  BY DEF PathInv
<1>1. Follows(runs[r], page)
  BY DEF PathInv
<1>2. page' = page \/ runs[r].status # "running"
  BY OnlyTheLastRuns
<1> QED BY <1>1, <1>2 DEF Follows, Ended

LEMMA PathNext == RecordInv /\ ReplayInv /\ PathInv /\ [Next]_vars => PathInv'
<1> SUFFICES ASSUME RecordInv, ReplayInv, PathInv, [Next]_vars PROVE PathInv'
  OBVIOUS
<1>1. page \in Pages /\ Says \subseteq Acts \X Expects /\ Declares \subseteq Expects \X (SUBSET Outputs) \X BOOLEAN
  BY ApplicationAssumption DEF RecordInv
<1>2. ASSUME NEW said \in Says, TryAct(said[1], said[2]) PROVE PathInv'
  <2> SUFFICES ASSUME steady' PROVE PathInv'
    BY DEF PathInv
  <2> DEFINE turn == ActTurn(said[1], said[2])
  <2>1. steady /\ page' = App[world][page][said[1]] /\ current.status = "running"
    BY <1>2 DEF TryAct, Recording
  <2>2. said[1] \in Acts /\ said[2] \in Expects
    BY <1>1
  <2>3. Note(turn, "running") /\ Fits(turn, "running")
    BY <1>1, <1>2, <2>2, TurnsFit DEF TryAct, ActTurn
  <2>4. turn.page = page /\ turn.act = said[1] /\ turn.expect = said[2] /\ turn.ok = (said[2] \in Holds[page'])
        /\ turn.kind = "act"
    BY DEF ActTurn
  <2>5. Acted(turn) => turn.expect \in Holds[page']
    BY <2>4 DEF Acted
  <2> HIDE DEF turn
  <2>6. ~(~Acted(turn) /\ turn.ok) \/ page' = page
    BY <2>4 DEF Acted
  <2> QED BY <2>1, <2>3, <2>4, <2>5, PathNoted, <2>6
<1>3. ASSUME NEW said \in Declares, Finish(said[1], said[2], said[3]) PROVE PathInv'
  <2> SUFFICES ASSUME steady' PROVE PathInv'
    BY DEF PathInv
  <2> DEFINE turn == FinishTurn(said[1], said[2])
  <2>1. said[1] \in Expects /\ said[2] \in SUBSET Outputs
    BY <1>1
  <2>2. PICK status \in {"success", "business_outcome"} : Note(turn, status)
    BY <1>3 DEF Finish, FinishTurn
  <2>3. Fits(turn, status)
    BY <1>1, <2>1, TurnsFit
  <2>4. steady /\ page' = page /\ current.status = "running" /\ turn.page = page /\ ~Acted(turn)
    BY <1>3 DEF Finish, Recording, FinishTurn, Acted
  <2> HIDE DEF turn
  <2> QED BY <2>2, <2>3, <2>4, PathNoted
<1>4. CASE Refuse
  <2> SUFFICES ASSUME steady' PROVE PathInv'
    BY DEF PathInv
  <2>1. Note(RefusedTurn, "running") /\ Fits(RefusedTurn, "running")
    BY <1>1, <1>4, TurnsFit DEF Refuse, RefusedTurn
  <2>2. steady /\ page' = page /\ current.status = "running" /\ RefusedTurn.page = page /\ ~Acted(RefusedTurn)
    BY <1>4 DEF Refuse, Recording, RefusedTurn, Acted
  <2> QED BY <2>1, <2>2, PathNoted
<1>5. CASE Abandon
  <2> SUFFICES ASSUME steady PROVE \A r \in 1 .. Len(runs') : Follows(runs'[r], page)
    BY <1>5 DEF PathInv, Abandon
  <2> DEFINE n == Len(runs)
  <2>1. runs \in Seq(Run) /\ DOMAIN runs = 1 .. n /\ n \in Nat
    BY LenProperties DEF RecordInv
  <2>2. runs' = [runs EXCEPT ![n] = [runs[n] EXCEPT !.status = "failed"]]
    BY <1>5, <2>1 DEF Abandon
  <2> DEFINE failed == [runs[n] EXCEPT !.status = "failed"]
  <2>3. failed \in Run /\ failed.status = "failed" /\ n \in 1 .. n
    <3>1. n \in 1 .. n
      BY <2>1 DEF RecordInv
    <3>2. runs[n] \in Run
      BY <2>1, <3>1, ElementOfSeq
    <3> QED BY <3>1, <3>2 DEF Run, Status
  <2> HIDE DEF failed
  <2>4. Len(runs') = n /\ \A r \in 1 .. n : runs'[r] = IF r = n THEN failed ELSE runs[r]
    BY <2>1, <2>2, <2>3, ExceptSeq DEF failed
  <2> HIDE DEF n
  <2> SUFFICES ASSUME NEW r \in 1 .. n PROVE Follows(runs'[r], page)
    BY <2>4
  <2>5. CASE r = n
    BY <2>3, <2>4, <2>5 DEF Follows
  <2>6. CASE r # n
    BY <2>4, <2>6 DEF PathInv, n
  <2> QED BY <2>5, <2>6
<1>6. ASSUME NEW w \in Worlds, DiscoverAgain(w) PROVE PathInv'
  <2> SUFFICES ASSUME steady PROVE \A r \in 1 .. Len(runs') : Follows(runs'[r], Start)
    BY <1>6 DEF PathInv, DiscoverAgain
  <2>1. runs \in Seq(Run) /\ Len(runs) = 1 /\ runs' = Append(runs, Begun(w)) /\ current.status = "success"
    BY <1>6 DEF DiscoverAgain, RecordInv
  <2>2. Begun(w) \in Run /\ Begun(w).status = "running" /\ Begun(w).turns = <<>> /\ kept_acts(Begun(w)) = <<>>
    BY Begins, KeptOfNone DEF WellMade
  <2>3. Len(runs') = 2 /\ runs'[1] = runs[1] /\ runs'[2] = Begun(w)
    <3>1. /\ Len(Append(runs, Begun(w))) = Len(runs) + 1
          /\ Append(runs, Begun(w))[Len(runs) + 1] = Begun(w)
          /\ \A i \in 1 .. Len(runs) : Append(runs, Begun(w))[i] = runs[i]
      BY <2>1, <2>2, AppendProperties
    <3> QED BY <2>1, <3>1
  <2>4. Follows(Begun(w), Start)
    BY <2>2 DEF Follows, Ended, Path, After
  <2>5. Follows(runs[1], Start)
    <3>1. Follows(runs[1], page) /\ runs[1].status = "success"
      BY <2>1 DEF PathInv, current
    <3> QED BY <3>1 DEF Follows, Ended
  <2> QED BY <2>3, <2>4, <2>5
<1>7. CASE CompileRuns
  BY <1>7, PathStays DEF CompileRuns
<1>8. CASE Drift
  BY <1>8 DEF Drift, PathInv
<1>9. ASSUME NEW w \in Worlds, Replay(w) PROVE PathInv'
  BY <1>9, PathStays DEF Replay
<1>10. CASE Walk
  BY <1>10, PathStays DEF Walk
<1>11. CASE TargetDrifted
  BY <1>11, PathStays DEF TargetDrifted
<1>12. CASE Checkpoint
  BY <1>12, PathStays DEF Checkpoint
<1>13. CASE UNCHANGED vars
  BY <1>13, PathStays DEF vars
<1> QED BY <1>2, <1>3, <1>4, <1>5, <1>6, <1>7, <1>8, <1>9, <1>10, <1>11, <1>12, <1>13 DEF Next, Over

LEMMA PathAlways == Spec => []PathInv
<1>1. Init => PathInv
  BY PathInit
<1>2. (RecordInv /\ ReplayInv) /\ PathInv /\ [Next]_vars => PathInv'
  BY PathNext
<1> QED BY <1>1, <1>2, ReplayAlways, PTL DEF Spec

(***************************************************************************)
(* Replaying                                                               *)
(***************************************************************************)
\* Where a run that has ended was after its k-th kept act.
Passed(run, k) == After(run, finish_record(run).page, k)

\* An undisturbed run that ended is a path the application answers, from the start to the page
\* its outcome was declared on.
LEMMA PathPassed ==
  ASSUME NEW run, WellMade(run), run.status \in {"success", "business_outcome"}, Undisturbed(run), Follows(run, page)
  PROVE  /\ Passed(run, 0) = Start /\ Passed(run, Len(kept_acts(run))) = finish_record(run).page
         /\ \A k \in 1 .. Len(kept_acts(run)) :
              /\ Passed(run, k) = App[run.world][Passed(run, k - 1)][kept_acts(run)[k].act]
              /\ kept_acts(run)[k].expect \in Holds[Passed(run, k)]
              /\ Passed(run, k) \in settled_pages(run) /\ Passed(run, k) \in Pages
<1> DEFINE n == Len(run.turns)
           e == run.turns[n].page
           m == Len(kept_acts(run))
<1>1. /\ finish_record(run) = run.turns[n] /\ n \in Nat \ {0}
  BY OutcomeOfLast
<1>2. /\ finishes(run) = {n} /\ run.turns \in Seq(Turn) /\ DOMAIN run.turns = 1 .. n
      /\ kept_acts(run) \in Seq(Kept) /\ m \in Nat
  BY LenProperties DEF WellMade, Run
<1>3. run.turns[n].ok /\ run.turns[n].kind = "finish"
  BY <1>2 DEF finishes
<1>4. Ended(run, page) = e /\ Passed(run, 0) = After(run, e, 0) /\ \A k : Passed(run, k) = After(run, e, k)
  BY <1>1 DEF Ended, Passed
<1>5. e \in Pages
  <2>1. n \in 1 .. n
    BY <1>1
  <2>2. run.turns[n] \in Turn
    BY <1>2, <2>1, ElementOfSeq
  <2> QED BY <2>2 DEF Turn
<1> HIDE DEF n, e, m
<1>6. \A i \in 1 .. n : i # n => i \in 1 .. n - 1 /\ i < n
  BY <1>1
<1>7. Still(run, e)
  <2> SUFFICES ASSUME NEW i \in 1 .. n, ~run.turns[i].ok PROVE PageAfter(run, e, i) = run.turns[i].page
    BY DEF Still, n
  <2>1. i # n
    BY <1>3
  <2>2. i \in 1 .. n - 1 /\ i < n
    BY <1>6, <2>1
  <2> QED BY <2>2 DEF Undisturbed, PageAfter, n
<1>8. Settled(run, e) = settled_pages(run)
  <2>1. {j \in 1 .. n : Acted(run.turns[j])} = {j \in 1 .. n - 1 : run.turns[j].ok /\ run.turns[j].kind = "act"}
    <3>1. \A j \in 1 .. n : Acted(run.turns[j]) => j # n
      BY <1>3 DEF Acted
    <3>2. \A j \in 1 .. n - 1 : j \in 1 .. n
      BY <1>1
    <3> QED BY <1>6, <3>1, <3>2 DEF Acted
  <2>2. \A j \in 1 .. n - 1 : PageAfter(run, e, j) = run.turns[j + 1].page
    <3>1. \A j \in 1 .. n - 1 : j < n
      BY <1>1
    <3> QED BY <3>1 DEF PageAfter, n
  <2> QED BY <2>1, <2>2 DEF Settled, settled_pages, n
<1>9. Path(run, e)
  BY <1>4, <1>7 DEF Follows
<1>10. After(run, e, m) = e /\ finish_record(run).page = e
  BY <1>1, <1>2 DEF After, m, e
<1>11. \A k \in 1 .. m : After(run, e, k) \in Pages
  <2> SUFFICES ASSUME NEW k \in 1 .. m PROVE After(run, e, k) \in Pages
    OBVIOUS
  <2>1. CASE k < m
    <3>1. k + 1 \in 1 .. m
      BY <1>2, <2>1
    <3> QED BY <1>2, <2>1, <3>1, ElementOfSeq DEF After, m, Kept, Turn
  <2>2. CASE ~(k < m)
    BY <1>5, <2>2 DEF After, m
  <2> QED BY <2>1, <2>2
<1> QED BY <1>4, <1>8, <1>9, <1>10, <1>11 DEF Path, Led, m

\* The steps of the artifact do what the kept acts did, and those of an extra run as far as it
\* goes.
LEMMA StepsReplay ==
  ASSUME RecordInv, ReplayInv, artifact # NoArtifact
  PROVE  /\ primary.status = "success" /\ WellMade(primary) /\ HasOutcome(primary)
         /\ Len(kept_acts(primary)) \in Nat /\ Len(artifact.steps) = Len(kept_acts(primary))
         /\ \A k \in 1 .. Len(kept_acts(primary)) :
              /\ artifact.steps[k].act = kept_acts(primary)[k].act
              /\ artifact.steps[k].expect = kept_acts(primary)[k].expect
         /\ Len(runs) = 2 =>
              /\ runs[2].status = "business_outcome" /\ WellMade(runs[2]) /\ HasOutcome(runs[2])
              /\ Len(kept_acts(runs[2])) \in Nat /\ Len(kept_acts(runs[2])) <= Len(kept_acts(primary))
              /\ \A k \in 1 .. Len(kept_acts(runs[2])) :
                   /\ artifact.steps[k].act = kept_acts(runs[2])[k].act
                   /\ artifact.steps[k].expect = kept_acts(runs[2])[k].expect
<1>1. /\ Compiles /\ artifact.steps = compile_steps(primary) /\ Len(artifact.steps) = Len(kept_acts(primary))
  BY ArtifactIs DEF ReplayInv, CompiledInv
<1>2. WellMade(primary) /\ Len(primary.turns) <= MaxTurns /\ Len(runs) \in 1 .. 2
  BY TheExtras
<1>3. /\ Len(kept_acts(primary)) \in Nat
      /\ \A k \in 1 .. Len(kept_acts(primary)) :
           /\ compile_steps(primary)[k].act = kept_acts(primary)[k].act
           /\ compile_steps(primary)[k].expect = kept_acts(primary)[k].expect
  BY <1>2, StepsCompiled
<1>4. primary.status = "success" /\ HasOutcome(primary)
  BY <1>1 DEF Compiles, CompilesSuccess
<1>5. ASSUME Len(runs) = 2
      PROVE  /\ runs[2].status = "business_outcome" /\ WellMade(runs[2]) /\ HasOutcome(runs[2])
             /\ Len(kept_acts(runs[2])) \in Nat /\ Len(kept_acts(runs[2])) <= Len(kept_acts(primary))
             /\ \A k \in 1 .. Len(kept_acts(runs[2])) :
                  /\ artifact.steps[k].act = kept_acts(runs[2])[k].act
                  /\ artifact.steps[k].expect = kept_acts(runs[2])[k].expect
  <2>1. DOMAIN extras = 1 .. 1 /\ extras[1] = runs[2] /\ WellMade(runs[2])
    <3>1. /\ DOMAIN extras = 1 .. Len(runs) - 1
          /\ \A i \in 1 .. Len(runs) - 1 : extras[i] = runs[i + 1] /\ WellMade(extras[i])
      BY TheExtras
    <3> QED BY <1>5, <3>1
  <2>2. CompilesBusiness(runs[2], primary)
    BY <1>1, <2>1 DEF Compiles
  <2> DEFINE few == kept_acts(runs[2])
             all == kept_acts(primary)
  <2>3. /\ few \in Seq(Kept) /\ Len(few) \in Nat /\ DOMAIN few = 1 .. Len(few)
        /\ all \in Seq(Kept) /\ Len(all) \in Nat /\ DOMAIN all = 1 .. Len(all)
    BY <1>2, <2>1, LenProperties DEF WellMade
  <2>4. IsPrefix(proved(runs[2]), proved(primary))
    BY <2>2 DEF CompilesBusiness, Compatible
  <2> HIDE DEF few, all
  <2>5. /\ proved(runs[2]) = [i \in 1 .. Len(few) |-> <<few[i].act, few[i].expect>>]
        /\ proved(primary) = [i \in 1 .. Len(all) |-> <<all[i].act, all[i].expect>>]
    BY <2>3 DEF proved, few, all
  <2>6. Len(proved(runs[2])) = Len(few) /\ Len(proved(primary)) = Len(all)
    BY <2>3, <2>5
  <2>7. Len(few) <= Len(all) /\ \A k \in 1 .. Len(few) : proved(runs[2])[k] = proved(primary)[k]
    <3> DEFINE s == proved(runs[2])
               t == proved(primary)
               T == {t[i] : i \in 1 .. Len(all)} \cup {s[i] : i \in 1 .. Len(few)}
    <3>1. s \in Seq(T) /\ t \in Seq(T)
      <4>1. s \in [1 .. Len(few) -> T] /\ t \in [1 .. Len(all) -> T]
        <5>1. (\A i \in 1 .. Len(few) : s[i] \in T) /\ (\A i \in 1 .. Len(all) : t[i] \in T)
          OBVIOUS
        <5> HIDE DEF T
        <5> QED BY <2>5, <5>1
      <4> HIDE DEF T, s, t
      <4>2. PICK k \in Nat, n \in Nat : k = Len(few) /\ n = Len(all)
        BY <2>3
      <4>3. s \in [1 .. k -> T] /\ t \in [1 .. n -> T]
        BY <4>1, <4>2
      <4> QED BY <4>3
    <3> HIDE DEF T
    <3>2. Len(s) <= Len(t) /\ SubSeq(s, 1, Len(s)) = SubSeq(t, 1, Len(s))
      BY <2>4 DEF IsPrefix
    <3> HIDE DEF s, t
    <3>3. Len(s) = Len(few) /\ Len(t) = Len(all)
      BY <2>6 DEF s, t
    <3>4. \A k \in 1 .. Len(s) : SubSeq(s, 1, Len(s))[k] = s[k] /\ SubSeq(t, 1, Len(s))[k] = t[k]
      BY <2>3, <3>1, <3>2, <3>3, SubSeqProperties
    <3> QED BY <3>2, <3>3, <3>4 DEF s, t
  <2>8. \A k \in 1 .. Len(few) : few[k].act = all[k].act /\ few[k].expect = all[k].expect
    <3> SUFFICES ASSUME NEW k \in 1 .. Len(few) PROVE few[k].act = all[k].act /\ few[k].expect = all[k].expect
      OBVIOUS
    <3>1. k \in 1 .. Len(all)
      BY <2>3, <2>7
    <3>2. <<few[k].act, few[k].expect>> = <<all[k].act, all[k].expect>>
      BY <2>5, <2>7, <3>1
    <3> QED BY <3>2
  <2>9. \A k \in 1 .. Len(few) : k \in 1 .. Len(all)
    BY <2>3, <2>7
  <2> QED BY <1>1, <1>3, <2>1, <2>2, <2>3, <2>7, <2>8, <2>9 DEF CompilesBusiness, few, all
<1> QED BY <1>1, <1>2, <1>3, <1>4, <1>5
Unmoved(run, w) == world = w /\ Undisturbed(run)

\* A replay of an undisturbed success run in its world is where the run was.
SuccessInv ==
  artifact # NoArtifact /\ steady /\ Unmoved(primary, primary.world) =>
    /\ phase = "replay" => page = Passed(primary, at)
    /\ phase = "done" => result = "success"

InBusiness ==
  \/ result = "business_outcome" /\ page \in settled_pages(runs[2])
  \/ result = "checkpoint_failed" /\ ~(artifact.business[1].binds \subseteq outputs)

\* A replay of an undisturbed business run in its world is where that run was, and has not
\* passed its last kept act.
BusinessInv ==
  artifact # NoArtifact /\ steady /\ Len(runs) = 2 /\ Unmoved(runs[2], runs[2].world)
    /\ kept_acts(runs[2]) # <<>> =>
      /\ phase = "replay" => at < Len(kept_acts(runs[2])) /\ page = Passed(runs[2], at)
      /\ phase = "done" => InBusiness

\* Where the next step leads, when it is the act a run went on with from this page.
LEMMA StepLeads ==
  ASSUME RecordInv, ReplayInv, phase = "replay", steady, at < Len(artifact.steps),
         NEW there \in Pages, there = App[world][page][step.act], step.expect \in Holds[there]
  PROVE  /\ ~TargetDrifted
         /\ Walk /\ steady' =>
              /\ page' = there /\ runs' = runs /\ artifact' = artifact /\ world' = world
              /\ outputs' = outputs \cup bound({step.act})
              /\ \/ /\ detected(there) /\ phase' = "done" /\ at' = at + 1
                    /\ result' = IF first(there).binds \subseteq outputs' THEN "business_outcome"
                                                                         ELSE "checkpoint_failed"
                 \/ ~detected(there) /\ phase' = "replay" /\ at' = at + 1
<1>1. step.act \in Acts /\ world \in Worlds /\ page \in Pages /\ there # NoPage
  BY StepIs, ApplicationAssumption DEF RecordInv
<1>2. there \in Leads(step.act)
  BY <1>1, LeadsToPages
<1> QED BY <1>1, <1>2 DEF TargetDrifted, Walk, End, Conclude

\* While it stays with the artifact, nothing it says of the runs changes.
LEMMA RunsStay ==
  ASSUME RecordInv, ReplayInv, artifact # NoArtifact, [Next]_vars
  PROVE  runs' = runs /\ artifact' = artifact /\ (phase # "compiled" => world' = world) /\ (steady' => steady)
<1>1. phase # "record"
  BY DEF ReplayInv, CompiledInv
<1>2. CASE \E w \in Worlds : Replay(w)
  BY <1>1, <1>2 DEF Replay, replaying
<1>3. CASE Drift
  BY <1>1, <1>3 DEF Drift, replaying
<1>4. CASE Walk
  BY <1>4 DEF Walk
<1>5. CASE TargetDrifted \/ Checkpoint
  BY <1>5 DEF TargetDrifted, Checkpoint
<1>6. CASE UNCHANGED vars
  BY <1>6 DEF vars
<1> QED BY <1>1, <1>2, <1>3, <1>4, <1>5, <1>6
        DEF Next, TryAct, Finish, DiscoverAgain, Refuse, Abandon, CompileRuns, Over, Recording

\* Compiling comes before any replay.
LEMMA FreshArtifact ==
  ASSUME RecordInv, ReplayInv, artifact = NoArtifact, [Next]_vars
  PROVE  artifact' # NoArtifact => phase' = "compiled"
<1>1. phase # "replay"
  BY DEF ReplayInv
<1> QED BY <1>1 DEF Next, TryAct, Finish, DiscoverAgain, Replay, Refuse, Abandon, CompileRuns, Drift, Walk,
                    TargetDrifted, Checkpoint, Over, vars, replaying

LEMMA SuccessNext == RecordInv /\ ReplayInv /\ PathInv /\ SuccessInv /\ [Next]_vars => SuccessInv'
<1> SUFFICES ASSUME RecordInv, ReplayInv, PathInv, SuccessInv, [Next]_vars,
                    (artifact # NoArtifact /\ steady /\ Unmoved(primary, primary.world))'
             PROVE  (/\ phase = "replay" => page = Passed(primary, at)
                     /\ phase = "done" => result = "success")'
  BY DEF SuccessInv
<1>1. CASE artifact = NoArtifact
  BY <1>1, FreshArtifact
<1>2. CASE artifact # NoArtifact
  <2>1. /\ runs' = runs /\ artifact' = artifact /\ (phase # "compiled" => world' = world) /\ steady
        /\ primary' = primary
    BY <1>2, RunsStay DEF primary
  <2>2. Undisturbed(primary) /\ \A k : Passed(primary, k)' = Passed(primary, k')
    BY <2>1 DEF Unmoved
  <2>3. /\ primary.status = "success" /\ WellMade(primary) /\ HasOutcome(primary)
        /\ Len(kept_acts(primary)) \in Nat /\ Len(artifact.steps) = Len(kept_acts(primary))
        /\ \A k \in 1 .. Len(kept_acts(primary)) :
             /\ artifact.steps[k].act = kept_acts(primary)[k].act
             /\ artifact.steps[k].expect = kept_acts(primary)[k].expect
    BY <1>2, StepsReplay
  <2> DEFINE m == Len(kept_acts(primary))
  <2>4. /\ Passed(primary, 0) = Start /\ Passed(primary, m) = finish_record(primary).page
        /\ \A k \in 1 .. m :
             /\ Passed(primary, k) = App[primary.world][Passed(primary, k - 1)][kept_acts(primary)[k].act]
             /\ kept_acts(primary)[k].expect \in Holds[Passed(primary, k)]
             /\ Passed(primary, k) \in settled_pages(primary) /\ Passed(primary, k) \in Pages
    <3>1. Follows(primary, page)
      BY <2>1 DEF PathInv, RecordInv, primary
    <3> QED BY <2>2, <2>3, <3>1, PathPassed
  <2> HIDE DEF m
  <2>5. CASE phase = "compiled"
    <3>1. phase' = "compiled" \/ (phase' = "replay" /\ page' = Start /\ at' = at)
      BY <2>5 DEF Next, TryAct, Finish, DiscoverAgain, Replay, Refuse, Abandon, CompileRuns, Drift, Walk,
                  TargetDrifted, Checkpoint, Over, vars, replaying, Recording
    <3>2. at = 0
      BY <2>5 DEF ReplayInv
    <3> QED BY <2>2, <2>4, <3>1, <3>2
  <2>6. CASE phase = "replay"
    <3>1. world = primary.world /\ page = Passed(primary, at) /\ at \in 0 .. m /\ m \in Nat
      BY <1>2, <2>1, <2>2, <2>3, <2>6 DEF SuccessInv, Unmoved, ReplayInv, m
    <3>2. CASE at < m
      <4> DEFINE there == Passed(primary, at + 1)
      <4>1. at + 1 \in 1 .. m /\ (at + 1) - 1 = at
        BY <3>1, <3>2
      <4>2. /\ step.act = kept_acts(primary)[at + 1].act /\ step.expect = kept_acts(primary)[at + 1].expect
        BY <2>3, <4>1 DEF step, m
      <4>3. there = App[world][page][step.act] /\ step.expect \in Holds[there] /\ there \in Pages
            /\ there \in settled_pages(primary)
        BY <2>4, <3>1, <4>1, <4>2
      <4> HIDE DEF there
      <4>4. ~detected(there)
        <5>1. \A i \in DOMAIN artifact.business : artifact.business[i].detector \notin Holds[there]
          <6> SUFFICES ASSUME NEW i \in DOMAIN artifact.business PROVE artifact.business[i].detector \notin Holds[there]
            OBVIOUS
          <6>1. /\ Compiles
                /\ artifact = [steps |-> compile_steps(primary), success |-> outcome(primary),
                               business |-> [k \in DOMAIN extras |-> outcome(extras[k])]]
            BY <1>2 DEF ReplayInv, CompiledInv
          <6>2. i \in DOMAIN extras /\ artifact.business[i] = outcome(extras[i])
            BY <6>1
          <6>3. Discriminates(extras[i], primary)
            BY <6>1, <6>2 DEF Compiles, CompilesBusiness
          <6> QED BY <4>3, <6>2, <6>3 DEF Discriminates
        <5> QED BY <5>1 DEF detected
      <4>5. at < Len(artifact.steps) /\ at # Len(artifact.steps)
        <5>1. Len(artifact.steps) = m
          BY <2>3 DEF m
        <5>2. at < m /\ at # m
          BY <3>1, <3>2
        <5> QED BY <5>1, <5>2
      <4>6. ~TargetDrifted /\ (Walk => page' = there /\ phase' = "replay" /\ at' = at + 1)
        BY <2>1, <2>6, <4>3, <4>4, <4>5, StepLeads
      <4>7. ~Checkpoint
        BY <4>5 DEF Checkpoint
      <4>8. Walk \/ UNCHANGED vars
        BY <2>1, <2>6, <4>6, <4>7 DEF Next, TryAct, Finish, DiscoverAgain, Replay, Refuse, Abandon, CompileRuns,
                                    Drift, Over, Recording
      <4>9. CASE Walk
        BY <2>2, <4>6, <4>9 DEF there
      <4>10. CASE UNCHANGED vars
        BY <2>2, <2>6, <3>1, <4>10 DEF vars
      <4> QED BY <4>8, <4>9, <4>10
    <3>3. CASE at = m
      <4>1. page = finish_record(primary).page /\ at = Len(artifact.steps) /\ ~(at < Len(artifact.steps))
        <5>1. Len(artifact.steps) = m
          BY <2>3 DEF m
        <5>2. ~(m < m)
          BY <3>1
        <5> QED BY <2>4, <3>1, <3>3, <5>1, <5>2
      <4>2. artifact.success = outcome(primary)
        BY <1>2, ArtifactIs DEF ReplayInv
      <4>3. artifact.success.detector \in Holds[page]
        BY <2>3, <4>1, <4>2 DEF HasOutcome, outcome
      <4>4. artifact.success.binds \subseteq outputs
        <5>1. outputs = bound({artifact.steps[k].act : k \in 1 .. at})
          BY <2>6 DEF ReplayInv
        <5>2. finish_record(primary).binds \subseteq bound({proved(primary)[i][1] : i \in DOMAIN proved(primary)})
          BY <2>2 DEF Undisturbed
        <5>3. DOMAIN proved(primary) = 1 .. m /\ \A i \in 1 .. m : proved(primary)[i][1] = artifact.steps[i].act
          <6>1. DOMAIN kept_acts(primary) = 1 .. m
            BY <2>3, LenProperties DEF WellMade, m
          <6> QED BY <2>3, <6>1 DEF proved, m
        <5>4. {proved(primary)[i][1] : i \in DOMAIN proved(primary)} = {artifact.steps[k].act : k \in 1 .. at}
          BY <3>3, <5>3
        <5>5. artifact.success.binds = finish_record(primary).binds
          BY <4>2 DEF outcome
        <5> HIDE DEF bound
        <5> QED BY <5>1, <5>2, <5>4, <5>5
      <4>5. ~TargetDrifted /\ ~Walk
        BY <4>1 DEF TargetDrifted, Walk
      <4>6. Checkpoint \/ UNCHANGED vars
        BY <2>1, <2>6, <4>5 DEF Next, TryAct, Finish, DiscoverAgain, Replay, Refuse, Abandon, CompileRuns,
                                    Drift, Over, Recording
      <4>7. CASE Checkpoint
        BY <4>3, <4>4, <4>7 DEF Checkpoint, Conclude, End
      <4>8. CASE UNCHANGED vars
        BY <2>2, <2>6, <3>1, <4>8 DEF vars
      <4> QED BY <4>6, <4>7, <4>8
    <3> QED BY <3>1, <3>2, <3>3
  <2>7. CASE phase = "done"
    <3>1. phase' = "done" /\ result' = result /\ world' = world
      BY <2>7 DEF Next, TryAct, Finish, DiscoverAgain, Replay, Refuse, Abandon, CompileRuns, Drift, Walk,
                  TargetDrifted, Checkpoint, Over, vars, replaying, Recording
    <3>2. world = primary.world
      BY <2>1, <3>1 DEF Unmoved
    <3> QED BY <1>2, <2>1, <2>2, <2>7, <3>1, <3>2 DEF SuccessInv, Unmoved
  <2> QED BY <2>5, <2>6, <2>7, <1>2 DEF RecordInv, ReplayInv, CompiledInv
<1> QED BY <1>1, <1>2

\* A replay under way takes a step, checks, or rests, as long as no page turns into another.
LEMMA ReplaySteps ==
  ASSUME phase = "replay", steady', [Next]_vars, RecordInv
  PROVE  Walk \/ TargetDrifted \/ Checkpoint \/ UNCHANGED vars
<1>1. current.status # "running"
  BY DEF RecordInv
<1> QED BY <1>1 DEF Next, TryAct, Finish, DiscoverAgain, Replay, Refuse, Abandon, CompileRuns, Drift, Over, Recording

LEMMA BusinessNext == RecordInv /\ ReplayInv /\ PathInv /\ BusinessInv /\ [Next]_vars => BusinessInv'
<1> SUFFICES ASSUME RecordInv, ReplayInv, PathInv, BusinessInv, [Next]_vars,
                    (artifact # NoArtifact /\ steady /\ Len(runs) = 2 /\ Unmoved(runs[2], runs[2].world)
                     /\ kept_acts(runs[2]) # <<>>)'
             PROVE  (/\ phase = "replay" => at < Len(kept_acts(runs[2])) /\ page = Passed(runs[2], at)
                     /\ phase = "done" => InBusiness)'
  BY DEF BusinessInv
<1>1. CASE artifact = NoArtifact
  BY <1>1, FreshArtifact
<1>2. CASE artifact # NoArtifact
  <2> DEFINE run == runs[2]
             m == Len(kept_acts(run))
  <2>1. /\ runs' = runs /\ artifact' = artifact /\ (phase # "compiled" => world' = world) /\ steady
        /\ Len(runs) = 2 /\ run' = run
    BY <1>2, RunsStay
  <2>2. Undisturbed(run) /\ \A k : Passed(run, k)' = Passed(run, k')
    BY <2>1 DEF Unmoved
  <2>3. /\ run.status = "business_outcome" /\ WellMade(run) /\ HasOutcome(run)
        /\ m \in Nat /\ m <= Len(artifact.steps) /\ Len(artifact.steps) \in Nat
        /\ \A k \in 1 .. m : /\ artifact.steps[k].act = kept_acts(run)[k].act
                             /\ artifact.steps[k].expect = kept_acts(run)[k].expect
    BY <1>2, <2>1, StepsReplay
  <2>4. m > 0
    <3>1. kept_acts(run) # <<>> /\ kept_acts(run) \in Seq(Kept)
      BY <2>1, <2>3 DEF WellMade
    <3> QED BY <2>3, <3>1, EmptySeq
  <2>5. /\ Passed(run, 0) = Start /\ Passed(run, m) = finish_record(run).page
        /\ \A k \in 1 .. m :
             /\ Passed(run, k) = App[run.world][Passed(run, k - 1)][kept_acts(run)[k].act]
             /\ kept_acts(run)[k].expect \in Holds[Passed(run, k)]
             /\ Passed(run, k) \in settled_pages(run) /\ Passed(run, k) \in Pages
    <3>1. Follows(run, page)
      BY <2>1 DEF PathInv
    <3> QED BY <2>2, <2>3, <3>1, PathPassed
  <2>6. DOMAIN artifact.business = 1 .. 1 /\ artifact.business[1] = outcome(run)
    <3>1. /\ DOMAIN artifact.business = 1 .. Len(runs) - 1
          /\ \A i \in 1 .. Len(runs) - 1 : artifact.business[i] = outcome(runs[i + 1])
      BY <1>2, ArtifactIs DEF ReplayInv
    <3> QED BY <2>1, <3>1
  <2> HIDE DEF m, run
  <2>7. CASE phase = "compiled"
    <3>1. phase' = "compiled" \/ (phase' = "replay" /\ page' = Start /\ at' = at)
      BY <2>7 DEF Next, TryAct, Finish, DiscoverAgain, Replay, Refuse, Abandon, CompileRuns, Drift, Walk,
                  TargetDrifted, Checkpoint, Over, vars, replaying, Recording
    <3>2. at = 0
      BY <2>7 DEF ReplayInv
    <3> QED BY <2>1, <2>2, <2>4, <2>5, <3>1, <3>2 DEF run, m
  <2>8. CASE phase = "replay"
    <3> DEFINE there == Passed(run, at + 1)
    <3>1. world = run.world /\ page = Passed(run, at) /\ at \in Nat /\ at < m
      BY <1>2, <2>1, <2>2, <2>8 DEF BusinessInv, Unmoved, ReplayInv, m, run
    <3>2. at + 1 \in 1 .. m /\ (at + 1) - 1 = at /\ at < Len(artifact.steps) /\ at # Len(artifact.steps)
      BY <2>3, <3>1
    <3>3. step.act = kept_acts(run)[at + 1].act /\ step.expect = kept_acts(run)[at + 1].expect
      BY <2>3, <3>2 DEF step
    <3>4. there = App[world][page][step.act] /\ step.expect \in Holds[there] /\ there \in Pages
          /\ there \in settled_pages(run)
      BY <2>5, <3>1, <3>2, <3>3
    <3>5. first(there) = artifact.business[1] \/ ~detected(there)
      <4>1. 1 .. 1 = {1}
        OBVIOUS
      <4> QED BY <2>6, <4>1 DEF first, detected
    <3>6. at + 1 = m => detected(there)
      <4>1. at + 1 = m => there = finish_record(run).page
        BY <2>5
      <4>2. finish_record(run).expect \in Holds[finish_record(run).page]
        BY <2>3 DEF HasOutcome
      <4>3. 1 \in DOMAIN artifact.business /\ artifact.business[1].detector = finish_record(run).expect
        BY <2>6 DEF outcome
      <4> HIDE DEF there
      <4> QED BY <4>1, <4>2, <4>3 DEF detected
    <3> HIDE DEF there
    <3>7. /\ ~TargetDrifted
          /\ Walk =>
               /\ page' = there
               /\ \/ /\ detected(there) /\ phase' = "done"
                     /\ result' = IF first(there).binds \subseteq outputs' THEN "business_outcome"
                                                                          ELSE "checkpoint_failed"
                  \/ ~detected(there) /\ phase' = "replay" /\ at' = at + 1
      BY <2>1, <2>8, <3>2, <3>4, StepLeads
    <3>8. ~Checkpoint
      BY <3>2 DEF Checkpoint
    <3>9. Walk \/ UNCHANGED vars
      BY <2>8, <3>7, <3>8, ReplaySteps
    <3>10. CASE Walk /\ detected(there)
      <4>1. page' = there /\ phase' = "done" /\ first(there) = artifact.business[1]
            /\ result' = IF first(there).binds \subseteq outputs' THEN "business_outcome" ELSE "checkpoint_failed"
        BY <3>5, <3>7, <3>10
      <4>2. there \in settled_pages(run)'
        BY <2>1, <3>4 DEF run
      <4>3. InBusiness'
        BY <2>1, <4>1, <4>2 DEF InBusiness, run
      <4> QED BY <4>1, <4>3
    <3>11. CASE Walk /\ ~detected(there)
      <4>1. page' = there /\ phase' = "replay" /\ at' = at + 1
        BY <3>7, <3>11
      <4>2. at' < m
        BY <2>3, <3>1, <3>6, <3>11, <4>1
      <4> QED BY <2>1, <2>2, <4>1, <4>2 DEF there, run, m
    <3>12. CASE UNCHANGED vars
      BY <2>1, <2>2, <2>8, <3>1, <3>12 DEF vars, run, m
    <3> QED BY <3>9, <3>10, <3>11, <3>12
  <2>9. CASE phase = "done"
    <3>1. phase' = "done" /\ result' = result /\ world' = world /\ page' = page /\ outputs' = outputs
      BY <2>9 DEF Next, TryAct, Finish, DiscoverAgain, Replay, Refuse, Abandon, CompileRuns, Drift, Walk,
                  TargetDrifted, Checkpoint, Over, vars, replaying, Recording
    <3>2. world = runs[2].world /\ kept_acts(runs[2]) # <<>> /\ Undisturbed(runs[2])
      BY <2>1, <2>2, <3>1 DEF Unmoved, run
    <3>3. InBusiness
      BY <1>2, <2>1, <2>9, <3>2 DEF BusinessInv, Unmoved
    <3> QED BY <2>1, <3>1, <3>3 DEF InBusiness
  <2> QED BY <2>7, <2>8, <2>9, <1>2 DEF RecordInv, ReplayInv, CompiledInv
<1> QED BY <1>1, <1>2

LEMMA ReplayedAlways == Spec => [](SuccessInv /\ BusinessInv)
<1>1. Init => SuccessInv /\ BusinessInv
  BY DEF Init, SuccessInv, BusinessInv
<1>2. (RecordInv /\ ReplayInv) /\ PathInv /\ (SuccessInv /\ BusinessInv) /\ [Next]_vars => (SuccessInv /\ BusinessInv)'
  BY SuccessNext, BusinessNext
<1> QED BY <1>1, <1>2, ReplayAlways, PathAlways, PTL DEF Spec

\* Discover once, replay: with the inputs of a success run that no dead end disturbed, on an
\* application that answers as it did, the artifact replays to success, whatever else it was
\* compiled from; no target is missing, no expectation times out and no detector of a
\* business outcome answers for it.
THEOREM SuccessReplays == Spec => []SuccessReplaysToSuccess
<1>1. SuccessInv => SuccessReplaysToSuccess
  BY DEF SuccessInv, SuccessReplaysToSuccess, Replayed, Unmoved
<1> QED BY <1>1, ReplayedAlways, PTL

\* The prefix rule: with the inputs of an undisturbed business run, the success steps walk the
\* pages that run saw, and the replay ends on one of them, by its detector at the latest where
\* its acts ended, with its outcome unless that binds an output no step has read yet.
THEOREM BusinessReplays == Spec => []BusinessReplaysToBusiness
<1>1. BusinessInv => BusinessReplaysToBusiness
  BY DEF BusinessInv, BusinessReplaysToBusiness, Replayed, Unmoved, InBusiness
<1> QED BY <1>1, ReplayedAlways, PTL
=============================================================================
