----------------------------- MODULE ComposeProofs -----------------------------
(***************************************************************************)
(* Compose, for any files, documents, snapshots and number of edits.       *)
(*                                                                         *)
(* BindingIsOneMoment: a Compose binding is of files that existed          *)
(* together.  scan_compose_binding_snapshot reads every file and then      *)
(* compares every file with what it took from it.  The argument is that of *)
(* a double collect: at the moment the last file is read, a file either    *)
(* still holds what was taken from it or never will again, and the         *)
(* comparison rules the second case out, file by file.                     *)
(*                                                                         *)
(* CorrelationsPartition: the mounts of a scan are those that the versions *)
(* it read declare, and each is of a service the scan shows; so a match    *)
(* lies in a container of that service, and an id names one mount unless   *)
(* its file was read in two versions.                                      *)
(*                                                                         *)
(* UnsafeBindsBlocked: every entry that a request has read and Compose     *)
(* would bind is a bind of the scan, with that source, or refused by it,   *)
(* and parsing goes on without losing either (AllAccounted).  The          *)
(* recursions of the path operators are unfolded into functions with one   *)
(* equation per token or component, and compared step by step: the names   *)
(* of a joined text are those of its parts, so each way to begin a source  *)
(* gives the root and the steps of Leads, and normalize_lexical takes the  *)
(* same steps.                                                             *)
(***************************************************************************)
EXTENDS Compose, WellFoundedInduction, SequenceTheorems, TLAPS

-----------------------------------------------------------------------------
(* The inductive invariant *)

\* The states the files can be in.
Moments == {c \in [Files -> UNION {Contents[f] : f \in Files}] : \A f \in Files : c[f] \in Contents[f]}

\* The files, and every state they were in since the request began.
FilesAreMoments == fs \in Moments /\ since \subseteq Moments

\* The fields of the request that is served.
ReaderShape ==
  reader = [op |-> reader.op, files |-> reader.files, got |-> reader.got, scan |-> reader.scan,
            checked |-> reader.checked, request |-> reader.request]

\* A binding in progress: what it has read are regular files of moments since it began, and it
\* compares only after the last read.
BindingReads ==
  reader.op = "binding" =>
    /\ reader.files \in Seq(Files)
    /\ reader.got \in Seq(UNION {Contents[f] : f \in Files})
    /\ Len(reader.got) <= Len(reader.files)
    /\ reader.checked \in 0..Len(reader.got)
    /\ reader.checked # 0 => Len(reader.got) = Len(reader.files)
    /\ fs \in since
    /\ \A k \in 1..Len(reader.got) :
         /\ Holds[reader.got[k]].form = "file"
         /\ \E moment \in since : moment[reader.files[k]] = reader.got[k]

\* There is a moment at which every file held what was read of it, or else the file holds
\* something else by now; the files that were compared did hold it.
Collected ==
  reader.op = "binding" =>
    \E moment \in since :
      \A k \in 1..Len(reader.got) :
        /\ moment[reader.files[k]] = reader.got[k] \/ fs[reader.files[k]] # reader.got[k]
        /\ k <= reader.checked => moment[reader.files[k]] = reader.got[k]

BindingInv == FilesAreMoments /\ ReaderShape /\ BindingReads /\ Collected /\ BindingIsOneMoment

-----------------------------------------------------------------------------
(* The files that are found are files of the project *)

\* Every set of numbers that is not empty has a least one: induction, for facts about data.
LEMMA LeastNumber ==
  ASSUME NEW T, T \subseteq Nat, T # {}
  PROVE  \E n \in T : \A m \in T : n <= m
<1> DEFINE Less == {p \in Nat \X Nat : p[1] < p[2]}
<1>1. IsWellFoundedOn(Less, Nat)
  BY NatLessThanWellFounded DEF OpToRel
<1>2. PICK x \in T : \A y \in T : ~(<<y, x>> \in Less)
  <2> HIDE DEF Less
  <2> QED BY <1>1, WFMin
<1>3. \A y \in T : ~(y < x)
  <2> TAKE y \in T
  <2>1. <<y, x>> \in Nat \X Nat
    OBVIOUS
  <2> QED BY <1>2, <2>1
<1> QED BY <1>3

\* Induction up to a bound, for a property given as the set of the numbers that have it.
LEMMA InductionUpTo ==
  ASSUME NEW N \in Nat, NEW H, 0 \in H, \A n \in 1..N : n - 1 \in H => n \in H
  PROVE  \A n \in 0..N : n \in H
<1> DEFINE Bad == {n \in 0..N : n \notin H}
<1> SUFFICES ASSUME Bad # {} PROVE FALSE
  OBVIOUS
<1>1. Bad \subseteq Nat
  OBVIOUS
<1>2. PICK n \in Bad : \A m \in Bad : n <= m
  <2> HIDE DEF Bad
  <2> QED BY <1>1, LeastNumber
<1>3. n \in 1..N /\ n - 1 \in 0..N /\ ~(n <= n - 1)
  OBVIOUS
<1>4. n - 1 \in H
  BY <1>2, <1>3
<1> QED BY <1>3, <1>4

\* A function that g gives, each value from the one before it.
Solvable(N, V, base, g) ==
  \E F \in [0..N -> V] : F[0] = base /\ \A n \in 1..N : F[n] = g[<<n, F[n - 1]>>]

\* Recursion up to a bound has a solution.
LEMMA RecursionSolved ==
  ASSUME NEW N, NEW V, NEW base, NEW g,
         N \in Nat, base \in V, g \in [(1..N) \X V -> V]
  PROVE  Solvable(N, V, base, g)
<1> DEFINE Upto(n) == \E F \in [0..n -> V] : F[0] = base /\ \A i \in 1..n : F[i] = g[<<i, F[i - 1]>>]
           H == {n \in 0..N : Upto(n)}
<1>1. Upto(0)
  <2> DEFINE F == [i \in 0..0 |-> base]
  <2>1. F \in [0..0 -> V] /\ F[0] = base /\ \A i \in 1..0 : F[i] = g[<<i, F[i - 1]>>]
    OBVIOUS
  <2> QED BY <2>1
<1>2. ASSUME NEW n \in 1..N, Upto(n - 1) PROVE Upto(n)
  <2>1. PICK F \in [0..n - 1 -> V] :
               F[0] = base /\ \A i \in 1..n - 1 : F[i] = g[<<i, F[i - 1]>>]
    BY <1>2
  <2> DEFINE new == g[<<n, F[n - 1]>>]
             G == [i \in 0..n |-> IF i = n THEN new ELSE F[i]]
  <2>2. n - 1 \in 0..n - 1 /\ F[n - 1] \in V
    OBVIOUS
  <2>3. new \in V
    BY <2>2
  <2>4. G[n] = new /\ \A i \in 0..n - 1 : G[i] = F[i]
    <3> HIDE DEF new
    <3> QED OBVIOUS
  <2>5. G \in [0..n -> V]
    <3> HIDE DEF new
    <3> QED BY <2>3
  <2> HIDE DEF G
  <2>6. G[0] = base
    BY <2>1, <2>4
  <2>7. ASSUME NEW i \in 1..n PROVE G[i] = g[<<i, G[i - 1]>>]
    <3>1. i - 1 \in 0..n - 1 /\ G[i - 1] = F[i - 1]
      BY <2>4
    <3>2. CASE i = n
      BY <3>1, <3>2, <2>4
    <3>3. CASE i # n
      <4>1. i \in 1..n - 1 /\ i \in 0..n - 1
        BY <3>3
      <4>2. G[i] = F[i] /\ F[i] = g[<<i, F[i - 1]>>]
        BY <4>1, <2>1, <2>4
      <4> QED BY <4>2, <3>1
    <3> QED BY <3>2, <3>3
  <2> QED BY <2>5, <2>6, <2>7
<1> HIDE DEF Upto
<1>3. 0 \in H
  BY <1>1
<1>4. \A n \in 1..N : n - 1 \in H => n \in H
  BY <1>2
<1>5. N \in H
  <2> HIDE DEF H
  <2>1. \A n \in 0..N : n \in H
    BY <1>3, <1>4, InductionUpTo
  <2> QED BY <2>1
<1> QED BY <1>5 DEF Upto, Solvable

\* The files of a list that are there (Existing) are files of the project.
LEMMA ExistingIsSeq ==
  ASSUME NEW files \in Seq(Files)
  PROVE  Existing(files) \in Seq(Files)
<1> DEFINE N == Len(files)
           Step(F, n) == IF n = 0 THEN <<>>
                         ELSE IF IsFile(files[n]) THEN Append(F[n - 1], files[n]) ELSE F[n - 1]
           kept == CHOOSE F : F = [n \in 0..N |-> Step(F, n)]
           g == [p \in (1..N) \X Seq(Files) |->
                   IF IsFile(files[p[1]]) THEN Append(p[2], files[p[1]]) ELSE p[2]]
<1>1. N \in Nat /\ \A n \in 1..N : files[n] \in Files
  OBVIOUS
<1>2. g \in [(1..N) \X Seq(Files) -> Seq(Files)]
  <2>1. \A p \in (1..N) \X Seq(Files) : files[p[1]] \in Files /\ p[2] \in Seq(Files)
    BY <1>1
  <2> QED BY <2>1
<1>3. PICK F \in [0..N -> Seq(Files)] : F[0] = <<>> /\ \A n \in 1..N : F[n] = g[<<n, F[n - 1]>>]
  <2> DEFINE V == Seq(Files)
             base == <<>>
  <2>1. base \in V /\ N \in Nat /\ g \in [(1..N) \X V -> V]
    BY <1>1, <1>2
  <2>2. Solvable(N, V, base, g)
    <3> HIDE DEF g, N, V, base
    <3> QED BY <2>1, RecursionSolved
  <2> QED BY <2>2 DEF Solvable
<1>4. \A n \in 0..N : F[n] = Step(F, n)
  <2> TAKE n \in 0..N
  <2>1. CASE n = 0
    BY <2>1, <1>3
  <2>2. CASE n # 0
    <3>1. n \in 1..N /\ n - 1 \in 0..N /\ F[n - 1] \in Seq(Files)
      BY <2>2, <1>1
    <3>2. <<n, F[n - 1]>> \in (1..N) \X Seq(Files)
      BY <3>1
    <3>3. g[<<n, F[n - 1]>>] = Step(F, n)
      BY <3>2, <2>2
    <3> QED BY <3>1, <3>3, <1>3
  <2> QED BY <2>1, <2>2
<1>5. F = [n \in 0..N |-> Step(F, n)]
  <2> HIDE DEF Step, N
  <2> QED BY <1>4
<1>6. kept = [n \in 0..N |-> Step(kept, n)]
  <2> HIDE DEF Step, N
  <2> QED BY <1>5
<1>7. \A n \in 0..N : kept[n] = Step(kept, n)
  <2> HIDE DEF Step, N, kept
  <2> QED BY <1>6
<1> HIDE DEF kept
<1> DEFINE K == {n \in 0..N : kept[n] \in Seq(Files)}
<1>8. 0 \in K
  <2>1. 0 \in 0..N /\ kept[0] = Step(kept, 0)
    BY <1>7, <1>1
  <2> QED BY <2>1
<1>9. ASSUME NEW n \in 1..N, n - 1 \in K PROVE n \in K
  <2>1. kept[n - 1] \in Seq(Files) /\ files[n] \in Files /\ n \in 0..N /\ n # 0
    BY <1>1, <1>9
  <2>2. kept[n] = Step(kept, n)
    BY <1>7, <2>1
  <2>3. Step(kept, n) \in Seq(Files)
    BY <2>1
  <2> QED BY <2>1, <2>2, <2>3
<1>10. N \in K
  <2> HIDE DEF K, N
  <2>1. \A n \in 1..N : n - 1 \in K => n \in K
    BY <1>9
  <2>2. \A n \in 0..N : n \in K
    BY <1>1, <1>8, <2>1, InductionUpTo
  <2> QED BY <2>2, <1>1
<1>11. Existing(files) = kept[N]
  BY DEF Existing, kept
<1> QED BY <1>10, <1>11

\* The files of a list of lists are files of the project.
LEMMA FlattenedIsSeq ==
  ASSUME NEW lists \in Seq(Seq(Files))
  PROVE  FlattenSeq(lists) \in Seq(Files)
<1> DEFINE N == Len(lists)
           Step(F, n) == IF n = 1 THEN lists[n] ELSE F[n - 1] \o lists[n]
           flatten == CHOOSE F : F = [n \in 1..N |-> Step(F, n)]
           V == Seq(Files)
           base == <<>>
           g == [p \in (1..N) \X V |-> IF p[1] = 1 THEN lists[p[1]] ELSE p[2] \o lists[p[1]]]
<1>1. N \in Nat /\ \A n \in 1..N : lists[n] \in V
  OBVIOUS
<1>2. g \in [(1..N) \X V -> V]
  <2>1. \A p \in (1..N) \X V : lists[p[1]] \in V /\ p[2] \in V
    BY <1>1
  <2>2. \A s, t \in V : s \o t \in V
    OBVIOUS
  <2> HIDE DEF V, N
  <2> QED BY <2>1, <2>2
<1>3. PICK F \in [0..N -> V] : F[0] = base /\ \A n \in 1..N : F[n] = g[<<n, F[n - 1]>>]
  <2>1. base \in V
    OBVIOUS
  <2> HIDE DEF g, N, V, base
  <2>2. Solvable(N, V, base, g)
    BY <1>1, <1>2, <2>1, RecursionSolved
  <2> QED BY <2>2 DEF Solvable
<1> DEFINE E == [n \in 1..N |-> F[n]]
<1>4. \A n \in 1..N : E[n] = Step(E, n)
  <2> TAKE n \in 1..N
  <2> HIDE DEF V
  <2>0. n - 1 \in 0..N
    BY <1>1
  <2>1. F[n - 1] \in V /\ <<n, F[n - 1]>> \in (1..N) \X V
    <3> HIDE DEF N
    <3> QED BY <2>0
  <2>2. F[n] = IF n = 1 THEN lists[n] ELSE F[n - 1] \o lists[n]
    BY <2>1, <1>3
  <2>3. n # 1 => n - 1 \in 1..N /\ E[n - 1] = F[n - 1]
    BY <1>1
  <2>4. E[n] = F[n]
    OBVIOUS
  <2> HIDE DEF E, g
  <2> QED BY <2>2, <2>3, <2>4
<1>5. E = [n \in 1..N |-> Step(E, n)]
  <2> HIDE DEF Step, N
  <2> QED BY <1>4
<1>6. flatten = [n \in 1..N |-> Step(flatten, n)]
  <2> HIDE DEF Step, N, E
  <2> QED BY <1>5
<1>7. \A n \in 1..N : flatten[n] = Step(flatten, n)
  <2> HIDE DEF Step, N, flatten
  <2> QED BY <1>6
<1> HIDE DEF flatten
<1> DEFINE K == {n \in 0..N : n = 0 \/ flatten[n] \in Seq(Files)}
<1>8. 0 \in K
  BY <1>1
<1>9. ASSUME NEW n \in 1..N, n - 1 \in K PROVE n \in K
  <2>1. n \in 0..N /\ lists[n] \in Seq(Files) /\ flatten[n] = Step(flatten, n)
    BY <1>1, <1>7
  <2>2. n # 1 => flatten[n - 1] \in Seq(Files)
    BY <1>9
  <2>3. Step(flatten, n) \in Seq(Files)
    BY <2>1, <2>2
  <2> QED BY <2>1, <2>3
<1>10. \A n \in 0..N : n \in K
  <2> HIDE DEF K, N
  <2>1. \A n \in 1..N : n - 1 \in K => n \in K
    BY <1>9
  <2> QED BY <1>1, <1>8, <2>1, InductionUpTo
<1>11. CASE N = 0
  <2>1. lists = <<>>
    BY <1>11
  <2> QED BY <1>11, <2>1 DEF FlattenSeq
<1>12. CASE N # 0
  <2>1. FlattenSeq(lists) = flatten[N]
    BY <1>12 DEF FlattenSeq, flatten
  <2>2. N \in 0..N
    BY <1>1
  <2> QED BY <1>10, <1>12, <2>1, <2>2
<1> QED BY <1>11, <1>12

\* discover_compose_files finds files of the project.
LEMMA DiscoverIsSeq == Discover \in Seq(Files)
<1> DEFINE bases == Existing(BaseFiles)
           Family(k) == Existing(<<bases[k]>> \o Overrides[bases[k]])
           lists == [k \in DOMAIN bases |-> Family(k)]
<1>1. BaseFiles \in Seq(Files) /\ Overrides \in [Files -> Seq(Files)]
  BY ComposeAssumption
<1>2. bases \in Seq(Files)
  BY <1>1, ExistingIsSeq
<1> HIDE DEF bases
<1>3. ASSUME NEW k \in DOMAIN bases PROVE Family(k) \in Seq(Files)
  <2>1. bases[k] \in Files
    BY <1>2
  <2>2. <<bases[k]>> \o Overrides[bases[k]] \in Seq(Files)
    BY <1>1, <2>1
  <2> QED BY <2>2, ExistingIsSeq
<1>4. lists \in Seq(Seq(Files))
  <2> HIDE DEF Family
  <2>1. Len(bases) \in Nat /\ DOMAIN bases = 1..Len(bases)
    BY <1>2
  <2> QED BY <1>3, <2>1
<1>5. FlattenSeq(lists) \in Seq(Files)
  <2> HIDE DEF lists
  <2> QED BY <1>4, FlattenedIsSeq
<1> QED BY <1>5 DEF Discover, bases

-----------------------------------------------------------------------------
(* The invariant is inductive *)

\* Nothing has been asked of the files yet.
LEMMA BindingInit == Init => BindingInv
BY DEF Init, BindingInv, FilesAreMoments, Moments, ReaderShape, BindingReads, Collected,
       BindingIsOneMoment, Answered, Idle, NoAnswer

\* A write while a binding reads: the file leaves what was taken from it, or had left it
\* before, and does not come back to it.
LEMMA EditKeeps ==
  ASSUME BindingInv, NEW f \in Files, NEW c \in Contents[f], Edit(f, c)
  PROVE  BindingInv'
<1> USE DEF BindingInv
<1>1. /\ fs \in Moments /\ since \subseteq Moments
      /\ fs' = [fs EXCEPT ![f] = c] /\ since' = since \cup {fs'}
      /\ UNCHANGED reader /\ UNCHANGED answer
      /\ \A moment \in since : moment[f] # c
  BY DEF Edit, FilesAreMoments
<1>2. fs' \in Moments
  BY <1>1 DEF Moments
<1>3. FilesAreMoments'
  BY <1>1, <1>2 DEF FilesAreMoments
<1>4. ReaderShape' /\ BindingIsOneMoment'
  BY <1>1 DEF ReaderShape, BindingIsOneMoment, Answered
<1>5. BindingReads'
  BY <1>1 DEF BindingReads
<1>6. Collected'
  <2> SUFFICES ASSUME reader.op = "binding"
               PROVE  (\E moment \in since :
                         \A k \in 1..Len(reader.got) :
                           /\ moment[reader.files[k]] = reader.got[k]
                                \/ fs[reader.files[k]] # reader.got[k]
                           /\ k <= reader.checked => moment[reader.files[k]] = reader.got[k])'
    BY <1>1 DEF Collected
  <2>1. PICK moment \in since :
               \A k \in 1..Len(reader.got) :
                 /\ moment[reader.files[k]] = reader.got[k] \/ fs[reader.files[k]] # reader.got[k]
                 /\ k <= reader.checked => moment[reader.files[k]] = reader.got[k]
    BY DEF Collected
  <2>2. ASSUME NEW k \in 1..Len(reader.got), fs[reader.files[k]] # reader.got[k]
        PROVE  fs'[reader.files[k]] # reader.got[k]
    <3>1. PICK m \in since : m[reader.files[k]] = reader.got[k]
      BY DEF BindingReads
    <3>2. reader.files[k] \in Files /\ DOMAIN fs = Files
      <4>1. /\ reader.files \in Seq(Files) /\ reader.got \in Seq(UNION {Contents[g] : g \in Files})
            /\ Len(reader.got) <= Len(reader.files)
        BY DEF BindingReads
      <4>2. k \in 1..Len(reader.files)
        BY <4>1
      <4>3. reader.files[k] \in Files
        BY <4>1, <4>2
      <4>4. fs \in [Files -> UNION {Contents[g] : g \in Files}]
        BY <1>1 DEF Moments
      <4> QED BY <4>3, <4>4
    <3> QED BY <1>1, <2>2, <3>1, <3>2
  <2>3. moment \in since' /\ reader' = reader
    BY <1>1
  <2> QED BY <2>1, <2>2, <2>3
<1> QED BY <1>3, <1>4, <1>5, <1>6

\* A request begins with the files as they are.
LEMMA BeginKeeps ==
  ASSUME BindingInv, NEW op, NEW files, NEW request, Begin(op, files, request),
         op = "binding" => files \in Seq(Files)
  PROVE  BindingInv'
<1> USE DEF BindingInv
<1>1. /\ reader'.op = op /\ reader'.files = files /\ reader'.got = <<>>
      /\ reader'.checked = 0 /\ ReaderShape'
      /\ since' = {fs} /\ answer' = NoAnswer /\ fs' = fs
  BY DEF Begin, Idle, ReaderShape
<1>2. FilesAreMoments'
  BY <1>1 DEF FilesAreMoments
<1>3. BindingReads'
  BY <1>1 DEF BindingReads
<1>4. Collected'
  BY <1>1 DEF Collected
<1>5. BindingIsOneMoment'
  BY <1>1 DEF BindingIsOneMoment, Answered, NoAnswer
<1> QED BY <1>1, <1>2, <1>3, <1>4, <1>5

\* The last file read is, at this moment, what was taken from it; of the others either holds.
LEMMA ReadKeeps ==
  ASSUME BindingInv, ReadFile
  PROVE  BindingInv'
<1> USE DEF BindingInv
<1> DEFINE n == Len(reader.got) + 1
<1>1. /\ reader'.op = reader.op /\ reader'.files = reader.files
      /\ reader'.got = Append(reader.got, fs[NextFile])
      /\ reader'.checked = reader.checked /\ ReaderShape'
      /\ UNCHANGED fs /\ UNCHANGED since /\ UNCHANGED answer
  BY DEF ReadFile, ReaderShape
<1>2. FilesAreMoments' /\ BindingIsOneMoment'
  BY <1>1 DEF FilesAreMoments, BindingIsOneMoment, Answered
<1>3. ASSUME reader.op = "binding" PROVE BindingReads' /\ Collected'
  <2>1. /\ reader.files \in Seq(Files) /\ Len(reader.got) \in Nat
        /\ n \in 1..Len(reader.files) /\ reader.checked = 0
        /\ reader.got \in Seq(UNION {Contents[f] : f \in Files})
    BY <1>3 DEF ReadFile, Unread, BindingReads
  <2>2. NextFile = reader.files[n] /\ reader.files[n] \in Files
    BY <2>1 DEF NextFile
  <2>3. fs[NextFile] \in UNION {Contents[f] : f \in Files} /\ Holds[fs[NextFile]].form = "file"
    BY <1>3, <2>2 DEF ReadFile, Usable, Readable, Form, FilesAreMoments, Moments
  <2>4. /\ Len(reader'.got) = n /\ reader'.got[n] = fs[NextFile]
        /\ reader'.got \in Seq(UNION {Contents[f] : f \in Files})
        /\ \A k \in 1..n - 1 : reader'.got[k] = reader.got[k]
    BY <1>1, <2>1, <2>3
  <2>5. fs \in since
    BY <1>3 DEF BindingReads
  <2>6. BindingReads'
    <3>1. ASSUME NEW k \in 1..n
          PROVE  /\ Holds[reader'.got[k]].form = "file"
                 /\ \E moment \in since : moment[reader.files[k]] = reader'.got[k]
      <4>1. CASE k = n
        BY <4>1, <2>2, <2>3, <2>4, <2>5
      <4>2. CASE k # n
        <5>1. k \in 1..Len(reader.got) /\ k \in 1..n - 1
          BY <4>2, <2>1
        <5> QED BY <5>1, <2>4, <1>3 DEF BindingReads
      <4> QED BY <4>1, <4>2
    <3> QED BY <1>1, <2>1, <2>4, <2>5, <3>1 DEF BindingReads
  <2>7. Collected'
    <3>1. \A k \in 1..Len(reader'.got) :
            /\ fs[reader.files[k]] = reader'.got[k] \/ fs[reader.files[k]] # reader'.got[k]
            /\ k <= reader.checked => fs[reader.files[k]] = reader'.got[k]
      BY <2>1, <2>4
    <3> QED BY <1>1, <2>5, <3>1 DEF Collected
  <2> QED BY <2>6, <2>7
<1>4. ASSUME reader.op # "binding" PROVE BindingReads' /\ Collected'
  BY <1>1, <1>4 DEF BindingReads, Collected
<1> QED BY <1>1, <1>2, <1>3, <1>4

\* An answer that is not a binding's success ends the request.
LEMMA AnswerKeeps ==
  ASSUME BindingInv, NEW status, NEW value, Answer(status, value), UNCHANGED fs,
         status # "ok" \/ reader.op # "binding"
  PROVE  BindingInv'
<1> USE DEF BindingInv
<1>1. reader' = Idle /\ since' = {} /\ answer'.op = reader.op /\ answer'.status = status
  BY DEF Answer
<1>2. FilesAreMoments' /\ ReaderShape' /\ BindingReads' /\ Collected'
  BY <1>1 DEF FilesAreMoments, ReaderShape, BindingReads, Collected, Idle
<1>3. BindingIsOneMoment'
  BY <1>1 DEF BindingIsOneMoment, Answered
<1> QED BY <1>2, <1>3

\* A file that compares equal holds what was taken from it, so it held it when the last file
\* was read, too.
LEMMA RecheckKeeps ==
  ASSUME BindingInv, Recheck
  PROVE  BindingInv'
<1> USE DEF BindingInv
<1> DEFINE k == reader.checked + 1
<1>1. /\ reader.op = "binding" /\ reader.files \in Seq(Files)
      /\ Len(reader.got) = Len(reader.files) /\ Len(reader.got) \in Nat
      /\ reader.checked \in Nat /\ k \in 1..Len(reader.got) /\ UNCHANGED fs
  BY DEF Recheck, AllRead, Unread, BindingReads, Idle
<1>2. CASE ~StillAsRead(reader.files[k], reader.got[k])
  <2>1. Answer("none", <<>>)
    BY <1>2 DEF Recheck
  <2> QED BY <1>1, <2>1, AnswerKeeps
<1>3. CASE StillAsRead(reader.files[k], reader.got[k])
  <2>1. /\ reader'.op = reader.op /\ reader'.files = reader.files /\ reader'.got = reader.got
        /\ reader'.checked = k /\ ReaderShape'
        /\ UNCHANGED since /\ UNCHANGED answer
    BY <1>3 DEF Recheck, ReaderShape
  <2>2. FilesAreMoments' /\ BindingIsOneMoment'
    BY <1>1, <2>1 DEF FilesAreMoments, BindingIsOneMoment, Answered
  <2>3. BindingReads'
    BY <1>1, <2>1 DEF BindingReads
  <2>4. fs[reader.files[k]] = reader.got[k]
    <3>1. reader.files[k] \in Files
      BY <1>1
    <3>2. PICK m \in since : m[reader.files[k]] = reader.got[k]
      BY <1>1 DEF BindingReads
    <3>3. reader.got[k] \in Contents[reader.files[k]] /\ fs[reader.files[k]] \in Contents[reader.files[k]]
      BY <3>1, <3>2 DEF FilesAreMoments, Moments
    <3>4. Holds[reader.got[k]].form = "file"
      BY <1>1 DEF BindingReads
    <3>5. /\ Holds[fs[reader.files[k]]].form = "file"
          /\ Holds[fs[reader.files[k]]].document = Holds[reader.got[k]].document
      BY <1>3 DEF StillAsRead, Readable, Form, Document
    <3> QED BY <3>1, <3>3, <3>4, <3>5, VersionsAreContents
  <2>5. PICK moment \in since :
               \A i \in 1..Len(reader.got) :
                 /\ moment[reader.files[i]] = reader.got[i] \/ fs[reader.files[i]] # reader.got[i]
                 /\ i <= reader.checked => moment[reader.files[i]] = reader.got[i]
    BY <1>1 DEF Collected
  <2>6. moment[reader.files[k]] = reader.got[k]
    BY <1>1, <2>4, <2>5
  <2>7. \A i \in 1..Len(reader.got) : i <= k => i <= reader.checked \/ i = k
    BY <1>1
  <2>8. Collected'
    BY <1>1, <2>1, <2>5, <2>6, <2>7 DEF Collected
  <2> QED BY <2>1, <2>2, <2>3, <2>8
<1> QED BY <1>2, <1>3

\* A binding succeeds only when every file was compared.
LEMMA FinishKeeps ==
  ASSUME BindingInv, FinishBinding
  PROVE  BindingInv'
<1> USE DEF BindingInv
<1>1. /\ reader.op = "binding" /\ reader.checked = Len(reader.files) /\ UNCHANGED fs
      /\ Len(reader.got) = Len(reader.files) /\ reader.files \in Seq(Files)
  BY DEF FinishBinding, AllRead, Unread, BindingReads, Idle
<1>2. PICK value, status : Answer(status, value)
  BY DEF FinishBinding
<1>3. /\ reader' = Idle /\ since' = {} /\ answer'.files = reader.files
      /\ answer'.got = reader.got /\ answer'.since = since
  BY <1>2 DEF Answer
<1>4. FilesAreMoments' /\ ReaderShape' /\ BindingReads' /\ Collected'
  BY <1>1, <1>3 DEF FilesAreMoments, ReaderShape, BindingReads, Collected, Idle
<1>5. PICK moment \in since :
             \A k \in 1..Len(reader.got) : moment[reader.files[k]] = reader.got[k]
  BY <1>1 DEF Collected
<1>6. \A k \in 1..Len(reader.got) : Holds[reader.got[k]].form = "file"
  BY <1>1 DEF BindingReads
<1>7. DOMAIN reader.files = 1..Len(reader.got)
  BY <1>1
<1>8. BindingIsOneMoment'
  BY <1>3, <1>5, <1>6, <1>7 DEF BindingIsOneMoment
<1> QED BY <1>4, <1>8

\* The requests of the routes and of the command line are no bindings.
LEMMA OtherRequestsKeep ==
  ASSUME BindingInv,
         \/ \E s \in Snapshots : FinishScan(s)
         \/ FinishGraph \/ FinishValidate \/ FinishPlan \/ ReadFails \/ RefuseRequest
  PROVE  BindingInv'
<1>1. ASSUME NEW s \in Snapshots, FinishScan(s) PROVE BindingInv'
  <2>1. /\ reader.op # "binding" /\ UNCHANGED fs
        /\ \E value : Answer("ok", value)
    BY <1>1 DEF FinishScan, AllRead
  <2> QED BY <2>1, AnswerKeeps
<1>2. CASE FinishGraph
  <2>1. reader.op # "binding" /\ UNCHANGED fs /\ \E value : Answer("ok", value)
    BY <1>2 DEF FinishGraph, AllRead
  <2> QED BY <2>1, AnswerKeeps
<1>3. CASE FinishValidate
  <2>1. reader.op # "binding" /\ UNCHANGED fs /\ \E value : Answer("ok", value)
    BY <1>3 DEF FinishValidate, AllRead
  <2> QED BY <2>1, AnswerKeeps
<1>4. CASE FinishPlan
  <2>1. reader.op # "binding" /\ UNCHANGED fs /\ \E status, value : Answer(status, value)
    BY <1>4 DEF FinishPlan, AllRead
  <2> QED BY <2>1, AnswerKeeps
<1>5. CASE ReadFails
  <2>1. Answer("unavailable", <<>>) /\ UNCHANGED fs
    BY <1>5 DEF ReadFails
  <2> QED BY <2>1, AnswerKeeps
<1>6. CASE RefuseRequest
  <2>1. answer'.op = "none" /\ UNCHANGED <<fs, reader, since>>
    BY <1>6 DEF RefuseRequest, NoAnswer
  <2> QED BY <2>1 DEF BindingInv, FilesAreMoments, ReaderShape, BindingReads, Collected,
                      BindingIsOneMoment, Answered
<1> QED BY <1>1, <1>2, <1>3, <1>4, <1>5, <1>6

\* Every step keeps the invariant.
LEMMA BindingStep == BindingInv /\ [Next]_vars => BindingInv'
<1> SUFFICES ASSUME BindingInv, [Next]_vars PROVE BindingInv'
  OBVIOUS
<1>1. ASSUME NEW f \in Files, NEW c \in Contents[f], Edit(f, c) PROVE BindingInv'
  BY <1>1, EditKeeps
<1>2. CASE BeginBinding
  <2>1. Begin("binding", Discover, <<>>)
    BY <1>2 DEF BeginBinding
  <2> QED BY <2>1, BeginKeeps, DiscoverIsSeq
<1>3. ASSUME NEW op \in {"scan", "graph", "validate"}, NEW files \in ScanRequests,
             BeginScan(op, files)
      PROVE  BindingInv'
  <2>1. \E selected : Begin(op, selected, <<>>)
    BY <1>3 DEF BeginScan
  <2> QED BY <2>1, BeginKeeps
<1>4. ASSUME NEW r \in PlanRequests, BeginPlan(r) PROVE BindingInv'
  <2>1. Begin("plan", <<r.file>>, r)
    BY <1>4 DEF BeginPlan
  <2> QED BY <2>1, BeginKeeps
<1>5. CASE ReadFile
  BY <1>5, ReadKeeps
<1>6. CASE Recheck
  BY <1>6, RecheckKeeps
<1>7. CASE FinishBinding
  BY <1>7, FinishKeeps
<1>8. CASE \/ \E s \in Snapshots : FinishScan(s)
           \/ FinishGraph \/ FinishValidate \/ FinishPlan \/ ReadFails \/ RefuseRequest
  BY <1>8, OtherRequestsKeep
<1>9. CASE UNCHANGED vars
  BY <1>9 DEF vars, BindingInv, FilesAreMoments, ReaderShape, BindingReads, Collected,
              BindingIsOneMoment, Answered
<1> QED BY <1>1, <1>2, <1>3, <1>4, <1>5, <1>6, <1>7, <1>8, <1>9 DEF Next

\* BindingInv holds throughout.
THEOREM BindingInvariant == Spec => []BindingInv
BY BindingInit, BindingStep, PTL DEF Spec

\* A binding (bounded_compose_runtime_binding) is of files that were, at one moment between its
\* first read and its last comparison, all as it read them: for every set of files and
\* overrides, every version they may be written in, and any number and order of writes that
\* bring no file back to what it held before (see Edit).
THEOREM BindingsAreOneMoment == Spec => []BindingIsOneMoment
<1>1. BindingInv => BindingIsOneMoment
  BY DEF BindingInv
<1> QED BY <1>1, BindingInvariant, PTL

-----------------------------------------------------------------------------
(* What a scan holds: parse_compose_file and coalesce_compose_services *)

\* A sequence, of whatever it holds.
IsSeq(q) == \E S : q \in Seq(S)

\* A sequence has a length, and its domain is up to it.
LEMMA SeqFacts ==
  ASSUME NEW q, IsSeq(q)
  PROVE  Len(q) \in Nat /\ DOMAIN q = 1..Len(q)
<1>1. PICK S : q \in Seq(S)
  BY DEF IsSeq
<1> QED BY <1>1

\* A sequence of its own elements is a sequence.
LEMMA OfItsElements ==
  ASSUME NEW q, q \in Seq(ToSet(q))
  PROVE  IsSeq(q)
BY DEF IsSeq

\* What Append keeps and adds.
LEMMA AppendFacts ==
  ASSUME NEW q, IsSeq(q), NEW e
  PROVE  /\ IsSeq(Append(q, e)) /\ Len(Append(q, e)) = Len(q) + 1
         /\ \A i \in 1..Len(q) : Append(q, e)[i] = q[i]
         /\ Append(q, e)[Len(q) + 1] = e
<1>1. PICK S : q \in Seq(S)
  BY DEF IsSeq
<1> DEFINE T == S \cup {e}
<1>2. q \in Seq(T) /\ e \in T
  BY <1>1
<1> HIDE DEF T
<1>3. Append(q, e) \in Seq(T) /\ Len(Append(q, e)) = Len(q) + 1
  BY <1>2
<1>4. /\ \A i \in 1..Len(q) : Append(q, e)[i] = q[i]
      /\ Append(q, e)[Len(q) + 1] = e
  BY <1>2
<1> QED BY <1>3, <1>4 DEF IsSeq

\* What replacing one element keeps.
LEMMA ReplaceFacts ==
  ASSUME NEW q, IsSeq(q), NEW i \in 1..Len(q), NEW e, NEW w, w = [q EXCEPT ![i] = e]
  PROVE  /\ IsSeq(w) /\ Len(w) = Len(q)
         /\ \A j \in 1..Len(q) : w[j] = IF j = i THEN e ELSE q[j]
<1>1. PICK S : q \in Seq(S)
  BY DEF IsSeq
<1> DEFINE T == S \cup {e}
<1>2. q \in Seq(T) /\ e \in T
  BY <1>1
<1> HIDE DEF T
<1>3. w \in Seq(T) /\ Len(w) = Len(q)
  BY <1>2
<1>4. \A j \in 1..Len(q) : w[j] = IF j = i THEN e ELSE q[j]
  BY <1>2
<1> QED BY <1>3, <1>4 DEF IsSeq

\* The mount that one entry under `volumes` declares, if it declares one.
MountAt(at, item) == ParseMount(EmptyScan, at, item).mounts[1]

\* The record that WithMount appends.
MountRecord(at, kind, source, target, readOnly) ==
  [id |-> at, service |-> at[2], kind |-> kind, source |-> source,
   resolved |-> ResolveSource(kind, source), target |-> target, readOnly |-> readOnly]

\* An entry is a mount or a diagnostic, whatever the scan has found before.
LEMMA EntryIsEither ==
  ASSUME NEW at, NEW item
  PROVE  \/ \E id, severity : \A scan :
              ParseMount(scan, at, item) = WithDiagnostic(scan, id, severity, at)
         \/ \E kind, source, target, readOnly : \A scan :
              ParseMount(scan, at, item) = WithMount(scan, at, kind, source, target, readOnly)
<1>1. CASE item.form = "short"
  <2> DEFINE parts == SplitShortVolume(item.text)
  <2>1. \A scan : ParseMount(scan, at, item) = ParseShortMount(scan, at, parts)
    BY <1>1 DEF ParseMount
  <2> HIDE DEF parts
  <2>2. CASE Len(parts) \notin {1, 2, 3}
    <3>1. \A scan : ParseShortMount(scan, at, parts)
                      = WithDiagnostic(scan, "compose_invalid_short_mount", "error", at)
      BY <2>2 DEF ParseShortMount
    <3> QED BY <2>1, <3>1, Zenon
  <2>3. CASE Len(parts) = 1
    <3>1. \A scan : ParseShortMount(scan, at, parts)
                      = WithMount(scan, at, "anonymous", NoText, parts[1], FALSE)
      BY <2>3 DEF ParseShortMount
    <3> QED BY <2>1, <3>1, Zenon
  <2>4. CASE Len(parts) \in {2, 3}
    <3> DEFINE readOnly == Len(parts) = 3 /\ \E k \in {"ro", "readonly"} : HasToken(parts[3], k)
    <3>1. \A scan : ParseShortMount(scan, at, parts)
                      = WithMount(scan, at, ShortKind(parts[1]), parts[1], parts[2], readOnly)
      BY <2>4 DEF ParseShortMount
    <3> HIDE DEF readOnly
    <3> QED BY <2>1, <3>1, Zenon
  <2> QED BY <2>2, <2>3, <2>4
<1>2. CASE item.form = "long" /\ item.target = NoText
  <2>1. \A scan : ParseMount(scan, at, item)
                    = WithDiagnostic(scan, "compose_mount_missing_target", "error", at)
    BY <1>2 DEF ParseMount
  <2> QED BY <2>1, Zenon
<1>3. CASE item.form = "long" /\ item.target # NoText
  <2>1. \A scan : ParseMount(scan, at, item)
                    = WithMount(scan, at, LongKind(item.type, item.source), item.source,
                                item.target, item.readOnly)
    BY <1>3 DEF ParseMount
  <2> QED BY <2>1, Zenon
<1>4. CASE item.form # "short" /\ item.form # "long"
  <2>1. \A scan : ParseMount(scan, at, item)
                    = WithDiagnostic(scan, "compose_unsupported_mount", "error", at)
    BY <1>4 DEF ParseMount
  <2> QED BY <2>1, Zenon
<1> QED BY <1>1, <1>2, <1>3, <1>4

\* The fields of a scan.
ScanShape(sc) ==
  sc = [services |-> sc.services, mounts |-> sc.mounts, correlations |-> sc.correlations,
        diagnostics |-> sc.diagnostics]

\* A diagnostic leaves services and mounts alone.
LEMMA DiagnosticKeeps ==
  ASSUME NEW sc, ScanShape(sc), NEW id, NEW severity, NEW at
  PROVE  LET r == WithDiagnostic(sc, id, severity, at)
         IN  ScanShape(r) /\ r.services = sc.services /\ r.mounts = sc.mounts
<1>1. PICK a, b, c, d : sc = [services |-> a, mounts |-> b, correlations |-> c, diagnostics |-> d]
  BY DEF ScanShape
<1>2. WithDiagnostic(sc, id, severity, at)
        = [services |-> a, mounts |-> b, correlations |-> c,
           diagnostics |-> d \cup {Diagnostic(id, severity, at)}]
  BY <1>1 DEF WithDiagnostic
<1> QED BY <1>1, <1>2 DEF ScanShape

\* A mount is appended, services stay.
LEMMA MountAdds ==
  ASSUME NEW sc, ScanShape(sc), NEW at, NEW kind, NEW source, NEW target, NEW readOnly
  PROVE  LET r == WithMount(sc, at, kind, source, target, readOnly)
         IN  /\ ScanShape(r) /\ r.services = sc.services
             /\ r.mounts = Append(sc.mounts, MountRecord(at, kind, source, target, readOnly))
<1>1. PICK a, b, c, d : sc = [services |-> a, mounts |-> b, correlations |-> c, diagnostics |-> d]
  BY DEF ScanShape
<1> DEFINE m == MountRecord(at, kind, source, target, readOnly)
<1>2. WithMount(sc, at, kind, source, target, readOnly) = [sc EXCEPT !.mounts = Append(@, m)]
  BY Zenon DEF WithMount, MountRecord
<1>3. m = MountRecord(at, kind, source, target, readOnly)
  OBVIOUS
<1> HIDE DEF m
<1> DEFINE q == Append(b, m)
<1>4. [sc EXCEPT !.mounts = Append(@, m)]
        = [services |-> a, mounts |-> q, correlations |-> c, diagnostics |-> d]
  <2>1. [sc EXCEPT !.mounts = Append(@, m)] = [sc EXCEPT !.mounts = q]
    BY <1>1
  <2> HIDE DEF q
  <2> QED BY <1>1, <2>1
<1> QED BY <1>1, <1>2, <1>3, <1>4 DEF ScanShape

\* An entry under `volumes` (parse_mount) appends its mount, or none.
LEMMA EntryAdds ==
  ASSUME NEW sc, ScanShape(sc), NEW at, NEW item
  PROVE  LET r == ParseMount(sc, at, item)
         IN  /\ ScanShape(r) /\ r.services = sc.services
             /\ \/ r.mounts = sc.mounts
                \/ /\ r.mounts = Append(sc.mounts, MountAt(at, item))
                   /\ MountAt(at, item).id = at /\ MountAt(at, item).service = at[2]
<1>1. ASSUME NEW id, NEW severity,
             \A scan : ParseMount(scan, at, item) = WithDiagnostic(scan, id, severity, at)
      PROVE  LET r == ParseMount(sc, at, item)
             IN  ScanShape(r) /\ r.services = sc.services /\ r.mounts = sc.mounts
  BY <1>1, DiagnosticKeeps
<1>2. ASSUME NEW kind, NEW source, NEW target, NEW readOnly,
             \A scan : ParseMount(scan, at, item)
                         = WithMount(scan, at, kind, source, target, readOnly)
      PROVE  LET r == ParseMount(sc, at, item)
             IN  /\ ScanShape(r) /\ r.services = sc.services
                 /\ r.mounts = Append(sc.mounts, MountAt(at, item))
                 /\ MountAt(at, item).id = at /\ MountAt(at, item).service = at[2]
  <2> DEFINE m == MountRecord(at, kind, source, target, readOnly)
  <2>1. /\ ParseMount(sc, at, item) = WithMount(sc, at, kind, source, target, readOnly)
        /\ ParseMount(EmptyScan, at, item) = WithMount(EmptyScan, at, kind, source, target, readOnly)
    BY <1>2
  <2>2. ScanShape(EmptyScan) /\ EmptyScan.mounts = <<>>
    BY DEF ScanShape, EmptyScan
  <2>3. ParseMount(EmptyScan, at, item).mounts = Append(<<>>, m)
    BY <2>1, <2>2, MountAdds
  <2>4. m.id = at /\ m.service = at[2]
    BY DEF MountRecord
  <2>5. LET r == ParseMount(sc, at, item)
        IN  ScanShape(r) /\ r.services = sc.services /\ r.mounts = Append(sc.mounts, m)
    BY <2>1, MountAdds
  <2> HIDE DEF m
  <2>6. MountAt(at, item) = m
    BY <2>3 DEF MountAt
  <2> QED BY <2>4, <2>5, <2>6
<1>3. CASE \E id, severity : \A scan :
             ParseMount(scan, at, item) = WithDiagnostic(scan, id, severity, at)
  BY <1>1, <1>3, Zenon
<1>4. CASE \E kind, source, target, readOnly : \A scan :
             ParseMount(scan, at, item) = WithMount(scan, at, kind, source, target, readOnly)
  BY <1>2, <1>4, Zenon
<1> QED BY <1>3, <1>4, EntryIsEither, Zenon

\* The fields of a service.
ServiceShape(s) ==
  s = [name |-> s.name, image |-> s.image, environment |-> s.environment,
       dependsOn |-> s.dependsOn]

\* A scan has a service of this name.
Named(sc, name) == \E j \in 1..Len(sc.services) : sc.services[j].name = name

\* Every mount of a scan is of one of its services.
ScanGood(sc) ==
  /\ ScanShape(sc) /\ IsSeq(sc.services) /\ IsSeq(sc.mounts)
  /\ \A j \in 1..Len(sc.services) : ServiceShape(sc.services[j])
  /\ \A i \in 1..Len(sc.mounts) : Named(sc, sc.mounts[i].service)

\* A mount that an entry of a service declares.
EntryOf(m, f, name, items) ==
  \E n \in 1..Len(items) :
    m = MountAt(<<f, name, n>>, items[n]) /\ m.id = <<f, name, n>>

\* A mount the scan has.
MountOf(m, sc) == \E j \in 1..Len(sc.mounts) : m = sc.mounts[j]

\* A scan with the services and the mounts of a good one is good.
LEMMA GoodKept ==
  ASSUME NEW sc, ScanGood(sc), NEW r, ScanShape(r), r.services = sc.services, r.mounts = sc.mounts
  PROVE  ScanGood(r)
BY DEF ScanGood, Named

\* An entry of a service that the scan has keeps the scan good.
LEMMA EntryKeeps ==
  ASSUME NEW sc, ScanGood(sc), NEW at, NEW item, Named(sc, at[2]),
         NEW r, r = ParseMount(sc, at, item)
  PROVE  /\ ScanGood(r) /\ r.services = sc.services
         /\ \A i \in 1..Len(r.mounts) :
              \/ MountOf(r.mounts[i], sc)
              \/ r.mounts[i] = MountAt(at, item) /\ r.mounts[i].id = at
<1>1. ScanShape(sc) /\ IsSeq(sc.mounts) /\ Len(sc.mounts) \in Nat
  BY SeqFacts DEF ScanGood
<1>2. ScanShape(r) /\ r.services = sc.services
  BY <1>1, EntryAdds
<1>3. CASE r.mounts = sc.mounts
  <2>1. ScanGood(r)
    BY <1>2, <1>3, GoodKept
  <2> QED BY <1>2, <1>3, <2>1 DEF MountOf
<1>4. CASE /\ r.mounts = Append(sc.mounts, MountAt(at, item))
           /\ MountAt(at, item).id = at /\ MountAt(at, item).service = at[2]
  <2> DEFINE n == Len(sc.mounts) + 1
  <2>1. /\ IsSeq(r.mounts) /\ Len(r.mounts) = n
        /\ \A i \in 1..Len(sc.mounts) : r.mounts[i] = sc.mounts[i]
        /\ r.mounts[n] = MountAt(at, item)
    BY <1>1, <1>4, AppendFacts
  <2>2. \A i \in 1..n : i = n \/ i \in 1..Len(sc.mounts)
    BY <1>1
  <2> HIDE DEF n
  <2>3. \A i \in 1..Len(r.mounts) : Named(r, r.mounts[i].service)
    BY <2>1, <2>2, <1>2, <1>4 DEF ScanGood, Named
  <2>4. ScanGood(r)
    BY <1>2, <2>1, <2>3 DEF ScanGood
  <2> QED BY <1>2, <1>4, <2>1, <2>2, <2>4 DEF MountOf
<1> QED BY <1>1, <1>3, <1>4, EntryAdds

\* The entries of a service are parsed one by one.
LEMMA VolumesSolved ==
  ASSUME NEW sc, NEW f, NEW name, NEW volumes, IsSeq(volumes.items)
  PROVE  \E R : /\ R[0] = sc
                /\ \A n \in 1..Len(volumes.items) :
                     R[n] = ParseMount(R[n - 1], <<f, name, n>>, volumes.items[n])
                /\ volumes.form # "invalid"
                     => ParseVolumes(sc, f, name, volumes) = R[Len(volumes.items)]
<1> DEFINE items == volumes.items
           N == Len(items)
           At(n) == <<f, name, n>>
           Step(F, n) == IF n = 0 THEN sc ELSE ParseMount(F[n - 1], At(n), items[n])
           done == CHOOSE F : F = [n \in 0..N |-> Step(F, n)]
           Upto(n) == \E F : F = [i \in 0..n |-> Step(F, i)]
           H == {n \in 0..N : Upto(n)}
<1>1. N \in Nat
  BY SeqFacts
<1>2. Upto(0)
  <2> DEFINE F == [i \in 0..0 |-> sc]
  <2>1. F = [i \in 0..0 |-> Step(F, i)]
    OBVIOUS
  <2> QED BY <2>1
<1>3. ASSUME NEW n \in 1..N, Upto(n - 1) PROVE Upto(n)
  <2>1. PICK F : F = [i \in 0..n - 1 |-> Step(F, i)]
    BY <1>3
  <2> DEFINE G == [i \in 0..n |-> IF i = n THEN Step(F, n) ELSE F[i]]
  <2>2. \A i \in 0..n : Step(G, i) = Step(F, i)
    <3> TAKE i \in 0..n
    <3>1. i # 0 => i - 1 \in 0..n /\ i - 1 # n
      OBVIOUS
    <3>2. i # 0 => G[i - 1] = F[i - 1]
      <4> HIDE DEF Step
      <4> QED BY <3>1
    <3> HIDE DEF G
    <3> QED BY <3>2
  <2>3. \A i \in 0..n : G[i] = Step(F, i)
    <3> TAKE i \in 0..n
    <3> HIDE DEF Step
    <3>1. i # n => i \in 0..n - 1
      OBVIOUS
    <3>2. i # n => F[i] = Step(F, i)
      BY <3>1, <2>1
    <3> QED BY <3>2
  <2>4. G = [i \in 0..n |-> Step(G, i)]
    <3>1. G = [i \in 0..n |-> G[i]]
      OBVIOUS
    <3> HIDE DEF G, Step
    <3> QED BY <3>1, <2>2, <2>3
  <2> HIDE DEF G, Step
  <2> QED BY <2>4
<1>4. \A n \in 0..N : n \in H
  <2> HIDE DEF Upto
  <2>1. 0 \in H /\ \A n \in 1..N : n - 1 \in H => n \in H
    BY <1>1, <1>2, <1>3
  <2> HIDE DEF H
  <2> QED BY <2>1, <1>1, InductionUpTo
<1>5. done = [n \in 0..N |-> Step(done, n)]
  <2>1. N \in 0..N
    BY <1>1
  <2> HIDE DEF Step, N
  <2>2. Upto(N)
    BY <2>1, <1>4
  <2> QED BY <2>2
<1>6. \A n \in 0..N : done[n] = Step(done, n)
  <2> HIDE DEF Step, N, done
  <2> QED BY <1>5
<1>7. volumes.form # "invalid" => ParseVolumes(sc, f, name, volumes) = done[N]
  BY DEF ParseVolumes
<1> HIDE DEF done
<1>8. done[0] = sc /\ \A n \in 1..N : done[n] = ParseMount(done[n - 1], At(n), items[n])
  <2>1. 0 \in 0..N /\ \A n \in 1..N : n \in 0..N /\ n # 0
    BY <1>1
  <2> HIDE DEF N, At
  <2> QED BY <1>6, <2>1
<1>9. \E R : /\ R[0] = sc
             /\ \A n \in 1..N : R[n] = ParseMount(R[n - 1], At(n), items[n])
             /\ volumes.form # "invalid" => ParseVolumes(sc, f, name, volumes) = R[N]
  <2> HIDE DEF N, At
  <2> QED BY <1>7, <1>8
<1> QED BY <1>9

\* The entries of a service add mounts of the service.
LEMMA VolumesKeep ==
  ASSUME NEW sc, ScanGood(sc), NEW f, NEW name, NEW volumes, Named(sc, name),
         IsSeq(volumes.items), NEW r, r = ParseVolumes(sc, f, name, volumes)
  PROVE  /\ ScanGood(r) /\ r.services = sc.services
         /\ \A i \in 1..Len(r.mounts) :
              MountOf(r.mounts[i], sc) \/ EntryOf(r.mounts[i], f, name, volumes.items)
<1> DEFINE items == volumes.items
           N == Len(items)
           At(n) == <<f, name, n>>
<1>1. N \in Nat
  BY SeqFacts
<1>2. PICK done : /\ done[0] = sc
                  /\ \A n \in 1..N : done[n] = ParseMount(done[n - 1], At(n), items[n])
                  /\ volumes.form # "invalid" => ParseVolumes(sc, f, name, volumes) = done[N]
  BY VolumesSolved
<1> DEFINE Kept(d) == /\ ScanGood(d) /\ d.services = sc.services
                      /\ \A i \in 1..Len(d.mounts) :
                           MountOf(d.mounts[i], sc) \/ EntryOf(d.mounts[i], f, name, items)
           K == {n \in 0..N : Kept(done[n])}
<1>3. Kept(sc)
  BY DEF MountOf
<1>4. 0 \in K
  <2>1. 0 \in 0..N
    BY <1>1
  <2> HIDE DEF Kept
  <2> QED BY <2>1, <1>2, <1>3
<1>5. ASSUME NEW n \in 1..N, n - 1 \in K PROVE n \in K
  <2>1. Kept(done[n - 1]) /\ n \in 0..N
    BY <1>1, <1>5
  <2>2. done[n] = ParseMount(done[n - 1], At(n), items[n])
    BY <1>2
  <2>3. Named(done[n - 1], At(n)[2])
    BY <2>1 DEF Named
  <2>4. /\ ScanGood(done[n]) /\ done[n].services = done[n - 1].services
        /\ \A i \in 1..Len(done[n].mounts) :
             \/ MountOf(done[n].mounts[i], done[n - 1])
             \/ done[n].mounts[i] = MountAt(At(n), items[n]) /\ done[n].mounts[i].id = At(n)
    <3> HIDE DEF At
    <3> QED BY <2>1, <2>2, <2>3, EntryKeeps
  <2>5. \A m : m = MountAt(At(n), items[n]) /\ m.id = At(n)
                => EntryOf(m, f, name, items)
    BY DEF EntryOf
  <2>6. \A m : MountOf(m, done[n - 1]) => MountOf(m, sc) \/ EntryOf(m, f, name, items)
    BY <2>1 DEF MountOf
  <2> HIDE DEF At
  <2>7. Kept(done[n])
    BY <2>1, <2>4, <2>5, <2>6
  <2> HIDE DEF Kept
  <2> QED BY <2>1, <2>7
<1>6. Kept(done[N])
  <2> HIDE DEF N, Kept
  <2>1. 0 \in K /\ \A n \in 1..N : n - 1 \in K => n \in K
    BY <1>4, <1>5
  <2> HIDE DEF K
  <2>2. \A n \in 0..N : n \in K
    BY <1>1, <2>1, InductionUpTo
  <2>3. N \in 0..N
    BY <1>1
  <2> QED BY <2>2, <2>3 DEF K
<1>7. CASE volumes.form = "invalid"
  <2>1. r = WithDiagnostic(sc, "compose_invalid_volumes", "error", <<f, name>>)
    BY <1>7 DEF ParseVolumes
  <2>2. ScanShape(r) /\ r.services = sc.services /\ r.mounts = sc.mounts
    BY <2>1, DiagnosticKeeps DEF ScanGood
  <2>3. ScanGood(r)
    BY <2>2, GoodKept
  <2> QED BY <2>2, <2>3 DEF MountOf
<1>8. CASE volumes.form # "invalid"
  <2>1. r = done[N]
    BY <1>2, <1>8
  <2> QED BY <2>1, <1>6
<1> QED BY <1>7, <1>8

\* A mount that a document declares.
DeclaredIn(m, f, document) ==
  \E s \in 1..Len(document.services) :
    /\ document.services[s].name # NoText
    /\ EntryOf(m, f, document.services[s].name, document.services[s].volumes.items)

\* The texts of an entry are sequences.
ItemGood(item) ==
  (item.form = "short" => IsSeq(item.text)) /\ (item.form = "long" => IsSeq(item.source))

\* What DocumentsAssumption says of a document.
DocumentGood(document) ==
  /\ IsSeq(document.services)
  /\ \A s \in 1..Len(document.services) :
       /\ IsSeq(document.services[s].volumes.items)
       /\ \A n \in 1..Len(document.services[s].volumes.items) :
            ItemGood(document.services[s].volumes.items[n])
  /\ \A s, t \in 1..Len(document.services) :
       document.services[s].name = document.services[t].name
         => s = t \/ document.services[s].name = NoText

\* A service adds itself and its mounts.
LEMMA ServiceKeeps ==
  ASSUME NEW sc, ScanGood(sc), NEW f, NEW s, IsSeq(s.volumes.items),
         NEW r, r = ParseServiceEntry(sc, f, s)
  PROVE  /\ ScanGood(r)
         /\ \A i \in 1..Len(r.mounts) :
              \/ MountOf(r.mounts[i], sc)
              \/ s.name # NoText /\ EntryOf(r.mounts[i], f, s.name, s.volumes.items)
<1>1. CASE s.name = NoText
  <2>1. r = WithDiagnostic(sc, "compose_non_string_service_name", "error", <<f>>)
    BY <1>1 DEF ParseServiceEntry
  <2>2. ScanShape(r) /\ r.services = sc.services /\ r.mounts = sc.mounts
    BY <2>1, DiagnosticKeeps DEF ScanGood
  <2>3. ScanGood(r)
    BY <2>2, GoodKept
  <2> QED BY <2>2, <2>3 DEF MountOf
<1>2. CASE s.name # NoText
  <2> DEFINE new == ParseService(s)
             d == [sc EXCEPT !.services = Append(sc.services, new)]
             n == Len(sc.services) + 1
  <2>1. r = ParseVolumes(d, f, s.name, s.volumes)
    BY <1>2 DEF ParseServiceEntry
  <2>2. ServiceShape(new) /\ new.name = s.name
    BY DEF ParseService, ServiceShape
  <2> HIDE DEF new
  <2>3. ScanShape(d) /\ d.mounts = sc.mounts /\ d.services = Append(sc.services, new)
    <3>1. PICK a, b, c, e : sc = [services |-> a, mounts |-> b, correlations |-> c, diagnostics |-> e]
      BY DEF ScanGood, ScanShape
    <3>2. d = [services |-> Append(a, new), mounts |-> b, correlations |-> c, diagnostics |-> e]
      BY <3>1
    <3> HIDE DEF d
    <3> QED BY <3>1, <3>2 DEF ScanShape
  <2> HIDE DEF d
  <2>4. IsSeq(sc.services) /\ Len(sc.services) \in Nat
    BY SeqFacts DEF ScanGood
  <2>5. /\ IsSeq(d.services) /\ Len(d.services) = n /\ d.services[n] = new
        /\ \A i \in 1..Len(sc.services) : d.services[i] = sc.services[i]
    BY <2>3, <2>4, AppendFacts
  <2>6. /\ n \in 1..n /\ 1..Len(sc.services) \subseteq 1..n
        /\ \A i \in 1..n : i = n \/ i \in 1..Len(sc.services)
    BY <2>4
  <2> HIDE DEF n
  <2>7. Named(d, s.name)
    BY <2>2, <2>5, <2>6 DEF Named
  <2>8. ASSUME NEW name, Named(sc, name) PROVE Named(d, name)
    BY <2>5, <2>6, <2>8 DEF Named
  <2>9. \A j \in 1..Len(d.services) : ServiceShape(d.services[j])
    BY <2>2, <2>5, <2>6 DEF ScanGood
  <2>10. ScanGood(d)
    BY <2>3, <2>5, <2>8, <2>9 DEF ScanGood
  <2>11. /\ ScanGood(r)
         /\ \A i \in 1..Len(r.mounts) :
              MountOf(r.mounts[i], d) \/ EntryOf(r.mounts[i], f, s.name, s.volumes.items)
    BY <2>1, <2>7, <2>10, VolumesKeep
  <2> QED BY <1>2, <2>3, <2>11 DEF MountOf
<1> QED BY <1>1, <1>2

\* The services of a document are parsed one by one.
LEMMA ServicesSolved ==
  ASSUME NEW sc, NEW f, NEW document, IsSeq(document.services)
  PROVE  \E R : /\ R[0] = sc
                /\ \A n \in 1..Len(document.services) :
                     R[n] = ParseServiceEntry(R[n - 1], f, document.services[n])
                /\ document.parses /\ document.hasServices
                     => ParseFile(sc, f, document) = R[Len(document.services)]
<1> DEFINE items == document.services
           N == Len(items)
           Step(F, n) == IF n = 0 THEN sc ELSE ParseServiceEntry(F[n - 1], f, items[n])
           done == CHOOSE F : F = [n \in 0..N |-> Step(F, n)]
           Upto(n) == \E F : F = [i \in 0..n |-> Step(F, i)]
           H == {n \in 0..N : Upto(n)}
<1>1. N \in Nat
  BY SeqFacts
<1>2. Upto(0)
  <2> DEFINE F == [i \in 0..0 |-> sc]
  <2>1. F = [i \in 0..0 |-> Step(F, i)]
    OBVIOUS
  <2> QED BY <2>1
<1>3. ASSUME NEW n \in 1..N, Upto(n - 1) PROVE Upto(n)
  <2>1. PICK F : F = [i \in 0..n - 1 |-> Step(F, i)]
    BY <1>3
  <2> DEFINE G == [i \in 0..n |-> IF i = n THEN Step(F, n) ELSE F[i]]
  <2>2. \A i \in 0..n : Step(G, i) = Step(F, i)
    <3> TAKE i \in 0..n
    <3>1. i # 0 => i - 1 \in 0..n /\ i - 1 # n
      OBVIOUS
    <3>2. i # 0 => G[i - 1] = F[i - 1]
      <4> HIDE DEF Step
      <4> QED BY <3>1
    <3> HIDE DEF G
    <3> QED BY <3>2
  <2>3. \A i \in 0..n : G[i] = Step(F, i)
    <3> TAKE i \in 0..n
    <3> HIDE DEF Step
    <3>1. i # n => i \in 0..n - 1
      OBVIOUS
    <3>2. i # n => F[i] = Step(F, i)
      BY <3>1, <2>1
    <3> QED BY <3>2
  <2>4. G = [i \in 0..n |-> Step(G, i)]
    <3>1. G = [i \in 0..n |-> G[i]]
      OBVIOUS
    <3> HIDE DEF G, Step
    <3> QED BY <3>1, <2>2, <2>3
  <2> HIDE DEF G, Step
  <2> QED BY <2>4
<1>4. \A n \in 0..N : n \in H
  <2> HIDE DEF Upto
  <2>1. 0 \in H /\ \A n \in 1..N : n - 1 \in H => n \in H
    BY <1>1, <1>2, <1>3
  <2> HIDE DEF H
  <2> QED BY <2>1, <1>1, InductionUpTo
<1>5. done = [n \in 0..N |-> Step(done, n)]
  <2>1. N \in 0..N
    BY <1>1
  <2> HIDE DEF Step, N
  <2>2. Upto(N)
    BY <2>1, <1>4
  <2> QED BY <2>2
<1>6. \A n \in 0..N : done[n] = Step(done, n)
  <2> HIDE DEF Step, N, done
  <2> QED BY <1>5
<1>7. document.parses /\ document.hasServices => ParseFile(sc, f, document) = done[N]
  BY DEF ParseFile
<1> HIDE DEF done
<1>8. done[0] = sc /\ \A n \in 1..N : done[n] = ParseServiceEntry(done[n - 1], f, items[n])
  <2>1. 0 \in 0..N /\ \A n \in 1..N : n \in 0..N /\ n # 0
    BY <1>1
  <2> HIDE DEF N
  <2> QED BY <1>6, <2>1
<1>9. \E R : /\ R[0] = sc
             /\ \A n \in 1..N : R[n] = ParseServiceEntry(R[n - 1], f, items[n])
             /\ document.parses /\ document.hasServices => ParseFile(sc, f, document) = R[N]
  <2> HIDE DEF N
  <2> QED BY <1>7, <1>8
<1> QED BY <1>9

\* A document adds its services and their mounts.
LEMMA DocumentKeeps ==
  ASSUME NEW sc, ScanGood(sc), NEW f, NEW document, DocumentGood(document),
         NEW r, r = ParseFile(sc, f, document)
  PROVE  /\ ScanGood(r)
         /\ \A i \in 1..Len(r.mounts) :
              MountOf(r.mounts[i], sc) \/ DeclaredIn(r.mounts[i], f, document)
<1> DEFINE items == document.services
           N == Len(items)
<1>1. N \in Nat /\ IsSeq(items)
  BY SeqFacts DEF DocumentGood
<1>2. PICK done : /\ done[0] = sc
                  /\ \A n \in 1..N : done[n] = ParseServiceEntry(done[n - 1], f, items[n])
                  /\ document.parses /\ document.hasServices => ParseFile(sc, f, document) = done[N]
  BY <1>1, ServicesSolved
<1> DEFINE Kept(d) == /\ ScanGood(d)
                      /\ \A i \in 1..Len(d.mounts) :
                           MountOf(d.mounts[i], sc) \/ DeclaredIn(d.mounts[i], f, document)
           K == {n \in 0..N : Kept(done[n])}
<1>3. Kept(sc)
  BY DEF MountOf
<1>4. 0 \in K
  <2>1. 0 \in 0..N
    BY <1>1
  <2> HIDE DEF Kept
  <2> QED BY <2>1, <1>2, <1>3
<1>5. ASSUME NEW n \in 1..N, n - 1 \in K PROVE n \in K
  <2>1. Kept(done[n - 1]) /\ n \in 0..N
    BY <1>1, <1>5
  <2>2. done[n] = ParseServiceEntry(done[n - 1], f, items[n])
    BY <1>2
  <2>3. IsSeq(items[n].volumes.items)
    BY DEF DocumentGood
  <2>4. /\ ScanGood(done[n])
        /\ \A i \in 1..Len(done[n].mounts) :
             \/ MountOf(done[n].mounts[i], done[n - 1])
             \/ /\ items[n].name # NoText
                /\ EntryOf(done[n].mounts[i], f, items[n].name, items[n].volumes.items)
    BY <2>1, <2>2, <2>3, ServiceKeeps
  <2>5. \A m : items[n].name # NoText /\ EntryOf(m, f, items[n].name, items[n].volumes.items)
                => DeclaredIn(m, f, document)
    BY DEF DeclaredIn
  <2>6. \A m : MountOf(m, done[n - 1]) => MountOf(m, sc) \/ DeclaredIn(m, f, document)
    BY <2>1 DEF MountOf
  <2>7. Kept(done[n])
    BY <2>1, <2>4, <2>5, <2>6
  <2> HIDE DEF Kept
  <2> QED BY <2>1, <2>7
<1>6. Kept(done[N])
  <2> HIDE DEF N, Kept
  <2>1. 0 \in K /\ \A n \in 1..N : n - 1 \in K => n \in K
    BY <1>4, <1>5
  <2> HIDE DEF K
  <2>2. \A n \in 0..N : n \in K
    BY <1>1, <2>1, InductionUpTo
  <2>3. N \in 0..N
    BY <1>1
  <2> QED BY <2>2, <2>3 DEF K
<1>7. ASSUME NEW id, NEW severity, r = WithDiagnostic(sc, id, severity, <<f>>)
       PROVE  ScanGood(r) /\ r.mounts = sc.mounts
  <2>1. ScanShape(r) /\ r.services = sc.services /\ r.mounts = sc.mounts
    BY <1>7, DiagnosticKeeps DEF ScanGood
  <2> QED BY <2>1, GoodKept
<1>8. CASE ~document.parses
  <2>1. r = WithDiagnostic(sc, "compose_yaml_parse_error", "blocked", <<f>>)
    BY <1>8 DEF ParseFile
  <2> QED BY <2>1, <1>7 DEF MountOf
<1>9. CASE document.parses /\ ~document.hasServices
  <2>1. r = WithDiagnostic(sc, "compose_missing_services", "error", <<f>>)
    BY <1>9 DEF ParseFile
  <2> QED BY <2>1, <1>7 DEF MountOf
<1>10. CASE document.parses /\ document.hasServices
  <2>1. r = done[N]
    BY <1>2, <1>10
  <2> QED BY <2>1, <1>6
<1> QED BY <1>8, <1>9, <1>10

\* The least of some numbers.
LEMMA MinFacts ==
  ASSUME NEW T, T \subseteq Nat, T # {}
  PROVE  Min(T) \in T /\ \A j \in T : Min(T) <= j
BY LeastNumber DEF Min

\* Services of one name are merged, and every name stays.
LEMMA CoalesceKeepsNames ==
  ASSUME NEW services, IsSeq(services),
         \A j \in 1..Len(services) : ServiceShape(services[j])
  PROVE  \A j \in 1..Len(services) :
           \E i \in DOMAIN Coalesce(services) : Coalesce(services)[i].name = services[j].name
<1> DEFINE N == Len(services)
           Merge(a, b) ==
             [a EXCEPT !.image = IF b.image = NoText THEN @ ELSE b.image,
                       !.environment = b.environment @@ @,
                       !.dependsOn = @ \o SelectSeq(b.dependsOn, LAMBDA d : ~HasToken(a.dependsOn, d))]
           Place(q, s) == SelectInSeq(q, LAMBDA d : d.name = s.name)
           Add(q, s) == IF Place(q, s) = 0 THEN Append(q, s)
                        ELSE [q EXCEPT ![Place(q, s)] = Merge(@, s)]
           Step(F, n) == IF n = 0 THEN <<>> ELSE Add(F[n - 1], services[n])
           merged == CHOOSE F : F = [n \in 0..N |-> Step(F, n)]
           Upto(n) == \E F : F = [i \in 0..n |-> Step(F, i)]
           H == {n \in 0..N : Upto(n)}
<1>0. Coalesce(services) = merged[N]
  BY DEF Coalesce
<1>1. N \in Nat
  BY SeqFacts
<1>a. ASSUME NEW a, NEW b, ServiceShape(a)
      PROVE  ServiceShape(Merge(a, b)) /\ Merge(a, b).name = a.name
  <2>1. PICK w, x, y, z : a = [name |-> w, image |-> x, environment |-> y, dependsOn |-> z]
    BY <1>a DEF ServiceShape
  <2> DEFINE env == b.environment @@ y
             deps == z \o SelectSeq(b.dependsOn, LAMBDA d : ~HasToken(z, d))
             img == IF b.image = NoText THEN x ELSE b.image
  <2>2. Merge(a, b) = [[name |-> w, image |-> x, environment |-> y, dependsOn |-> z] EXCEPT
                        !.image = img, !.environment = env, !.dependsOn = deps]
    BY <2>1
  <2> HIDE DEF env, deps, img, Merge
  <2>3. Merge(a, b) = [name |-> w, image |-> img, environment |-> env, dependsOn |-> deps]
    BY <2>2
  <2> QED BY <2>1, <2>3 DEF ServiceShape
<1> HIDE DEF Merge
<1>b. ASSUME NEW q, NEW s, IsSeq(q)
      PROVE  Place(q, s) = 0 \/ (Place(q, s) \in 1..Len(q) /\ q[Place(q, s)].name = s.name)
  <2> DEFINE T == {i \in 1..Len(q) : q[i].name = s.name}
  <2>1. T \subseteq Nat
    OBVIOUS
  <2>2. Place(q, s) = IF T # {} THEN Min(T) ELSE 0
    BY DEF SelectInSeq
  <2>3. CASE T # {}
    <3>1. Min(T) \in T
      <4> HIDE DEF T
      <4> QED BY <2>1, <2>3, MinFacts
    <3> QED BY <3>1, <2>2, <2>3
  <2> QED BY <2>2, <2>3
<1> HIDE DEF Place
<1>2. Upto(0)
  <2> DEFINE F == [i \in 0..0 |-> <<>>]
  <2>1. F = [i \in 0..0 |-> Step(F, i)]
    OBVIOUS
  <2> QED BY <2>1
<1>3. ASSUME NEW n \in 1..N, Upto(n - 1) PROVE Upto(n)
  <2>1. PICK F : F = [i \in 0..n - 1 |-> Step(F, i)]
    BY <1>3
  <2> DEFINE G == [i \in 0..n |-> IF i = n THEN Step(F, n) ELSE F[i]]
  <2>2. \A i \in 0..n : Step(G, i) = Step(F, i)
    <3> TAKE i \in 0..n
    <3>1. i # 0 => i - 1 \in 0..n /\ i - 1 # n
      OBVIOUS
    <3>2. i # 0 => G[i - 1] = F[i - 1]
      <4> HIDE DEF Step
      <4> QED BY <3>1
    <3> HIDE DEF G
    <3> QED BY <3>2
  <2>3. \A i \in 0..n : G[i] = Step(F, i)
    <3> TAKE i \in 0..n
    <3> HIDE DEF Step
    <3>1. i # n => i \in 0..n - 1
      OBVIOUS
    <3>2. i # n => F[i] = Step(F, i)
      BY <3>1, <2>1
    <3> QED BY <3>2
  <2>4. G = [i \in 0..n |-> Step(G, i)]
    <3>1. G = [i \in 0..n |-> G[i]]
      OBVIOUS
    <3> HIDE DEF G, Step
    <3> QED BY <3>1, <2>2, <2>3
  <2> HIDE DEF G, Step
  <2> QED BY <2>4
<1>4. \A n \in 0..N : n \in H
  <2> HIDE DEF Upto
  <2>1. 0 \in H /\ \A n \in 1..N : n - 1 \in H => n \in H
    BY <1>1, <1>2, <1>3
  <2> HIDE DEF H
  <2> QED BY <2>1, <1>1, InductionUpTo
<1>5. merged = [n \in 0..N |-> Step(merged, n)]
  <2>1. N \in 0..N
    BY <1>1
  <2> HIDE DEF Step, N
  <2>2. Upto(N)
    BY <2>1, <1>4
  <2> QED BY <2>2
<1>6. \A n \in 0..N : merged[n] = Step(merged, n)
  <2> HIDE DEF Step, N, merged
  <2> QED BY <1>5
<1> HIDE DEF merged
<1> DEFINE NamesOf(q, n) ==
             /\ IsSeq(q) /\ \A i \in 1..Len(q) : ServiceShape(q[i])
             /\ \A j \in 1..n : \E i \in 1..Len(q) : q[i].name = services[j].name
           K == {n \in 0..N : NamesOf(merged[n], n)}
<1>7. NamesOf(<<>>, 0)
  <2>1. <<>> \in Seq({})
    OBVIOUS
  <2> QED BY <2>1 DEF IsSeq
<1>8. 0 \in K
  <2>1. 0 \in 0..N /\ merged[0] = <<>>
    <3>1. 0 \in 0..N /\ Step(merged, 0) = <<>>
      BY <1>1
    <3> HIDE DEF Step
    <3> QED BY <3>1, <1>6
  <2> HIDE DEF NamesOf
  <2> QED BY <2>1, <1>7
<1>9. ASSUME NEW n \in 1..N, n - 1 \in K PROVE n \in K
  <2> DEFINE q == merged[n - 1]
             s == services[n]
             p == Place(q, s)
  <2>1. NamesOf(q, n - 1) /\ n \in 0..N /\ n # 0
    BY <1>1, <1>9
  <2>2. merged[n] = Add(q, s)
    BY <1>6, <2>1
  <2>3. ServiceShape(s) /\ IsSeq(q) /\ Len(q) \in Nat /\ \A i \in 1..Len(q) : ServiceShape(q[i])
    BY <2>1, SeqFacts
  <2>4. \A j \in 1..n : j = n \/ j \in 1..n - 1
    OBVIOUS
  <2>5. p = 0 \/ (p \in 1..Len(q) /\ q[p].name = s.name)
    BY <2>3, <1>b
  <2>6. CASE p = 0
    <3>1. merged[n] = Append(q, s)
      BY <2>2, <2>6
    <3> HIDE DEF q, p
    <3>2. /\ IsSeq(merged[n]) /\ Len(merged[n]) = Len(q) + 1 /\ merged[n][Len(q) + 1] = s
          /\ \A i \in 1..Len(q) : merged[n][i] = q[i]
      BY <3>1, <2>3, AppendFacts
    <3>3. /\ Len(q) + 1 \in 1..Len(q) + 1 /\ 1..Len(q) \subseteq 1..Len(q) + 1
          /\ \A i \in 1..Len(q) + 1 : i = Len(q) + 1 \/ i \in 1..Len(q)
      BY <2>3
    <3>4. \A i \in 1..Len(merged[n]) : ServiceShape(merged[n][i])
      BY <2>3, <3>2, <3>3
    <3>5. \A j \in 1..n : \E i \in 1..Len(merged[n]) : merged[n][i].name = services[j].name
      BY <2>1, <2>4, <3>2, <3>3
    <3> QED BY <2>1, <3>2, <3>4, <3>5
  <2>7. CASE p # 0
    <3> DEFINE e == Merge(q[p], s)
    <3>1. p \in 1..Len(q) /\ q[p].name = s.name /\ ServiceShape(q[p])
      BY <2>3, <2>5, <2>7
    <3>2. ServiceShape(e) /\ e.name = s.name
      BY <3>1, <1>a
    <3>3. merged[n] = [q EXCEPT ![p] = e]
      BY <2>2, <2>7
    <3> HIDE DEF q, p, e
    <3>4. /\ IsSeq(merged[n]) /\ Len(merged[n]) = Len(q)
          /\ \A i \in 1..Len(q) : merged[n][i] = IF i = p THEN e ELSE q[i]
      BY <3>1, <3>3, <2>3, ReplaceFacts
    <3>5. \A i \in 1..Len(merged[n]) : ServiceShape(merged[n][i])
      BY <2>3, <3>2, <3>4
    <3>6. \A i \in 1..Len(q) : merged[n][i].name = q[i].name
      BY <3>1, <3>2, <3>4
    <3>7. \A j \in 1..n : \E i \in 1..Len(merged[n]) : merged[n][i].name = services[j].name
      BY <2>1, <2>4, <3>1, <3>4, <3>6
    <3> QED BY <2>1, <3>4, <3>5, <3>7
  <2> QED BY <2>6, <2>7
<1>10. NamesOf(merged[N], N)
  <2> HIDE DEF N, NamesOf
  <2>1. 0 \in K /\ \A n \in 1..N : n - 1 \in K => n \in K
    BY <1>8, <1>9
  <2> HIDE DEF K
  <2>2. \A n \in 0..N : n \in K
    BY <1>1, <2>1, InductionUpTo
  <2>3. N \in 0..N
    BY <1>1
  <2> QED BY <2>2, <2>3 DEF K
<1>11. DOMAIN merged[N] = 1..Len(merged[N])
  BY <1>10, SeqFacts
<1> QED BY <1>0, <1>10, <1>11

\* Every mount of a scan is of a service it shows.
Serviced(sc) ==
  \A i \in DOMAIN sc.mounts : \E j \in DOMAIN sc.services :
    sc.services[j].name = sc.mounts[i].service

\* Validation merges services and keeps the mounts.
LEMMA ScannedKeeps ==
  ASSUME NEW sc, ScanGood(sc), NEW files, NEW r, r = Scanned(files, sc)
  PROVE  ScanShape(r) /\ r.mounts = sc.mounts /\ Serviced(r)
<1>1. /\ IsSeq(sc.services) /\ IsSeq(sc.mounts) /\ ScanShape(sc)
      /\ DOMAIN sc.services = 1..Len(sc.services) /\ DOMAIN sc.mounts = 1..Len(sc.mounts)
      /\ \A j \in 1..Len(sc.services) : ServiceShape(sc.services[j])
  BY SeqFacts DEF ScanGood
<1>2. CASE files = <<>>
  <2>1. r = WithDiagnostic(sc, "compose_no_files", "warning", <<>>)
    BY <1>2 DEF Scanned
  <2>2. ScanShape(r) /\ r.services = sc.services /\ r.mounts = sc.mounts
    BY <1>1, <2>1, DiagnosticKeeps
  <2> QED BY <1>1, <2>2 DEF ScanGood, Serviced, Named
<1>3. CASE files # <<>>
  <2>1. PICK a, b, c, d : sc = [services |-> a, mounts |-> b, correlations |-> c, diagnostics |-> d]
    BY <1>1 DEF ScanShape
  <2> DEFINE merged == Coalesce(a)
             more == d \cup UNION {MountDiagnostics(b[i]) : i \in DOMAIN b}
                       \cup {Diagnostic("compose_duplicate_target", "error", b[i].id) :
                               i \in DuplicateTargets(b)}
  <2>2. r = [[services |-> a, mounts |-> b, correlations |-> c, diagnostics |-> d] EXCEPT
               !.services = merged, !.diagnostics = more]
    BY <1>3, <2>1 DEF Scanned, Validate
  <2>3. merged = Coalesce(sc.services)
    BY <2>1
  <2> HIDE DEF merged, more
  <2>4. r = [services |-> merged, mounts |-> b, correlations |-> c, diagnostics |-> more]
    BY <2>2
  <2>5. ScanShape(r) /\ r.mounts = sc.mounts /\ r.services = Coalesce(sc.services)
    BY <2>1, <2>3, <2>4 DEF ScanShape
  <2>6. \A j \in 1..Len(sc.services) :
          \E i \in DOMAIN r.services : r.services[i].name = sc.services[j].name
    BY <1>1, <2>5, CoalesceKeepsNames
  <2> QED BY <1>1, <2>5, <2>6 DEF ScanGood, Serviced, Named
<1> QED BY <1>2, <1>3

\* The containers of a snapshot, and their mounts, are in order.
ContainersGood(cs) == IsSeq(cs) /\ \A c \in ToSet(cs) : IsSeq(c.mounts)

\* A declared mount matches nothing, or one mount of a container of its service.
LEMMA MatchIsOne ==
  ASSUME NEW m, NEW cs, ContainersGood(cs), RuntimeMatches(m, cs) # {}
  PROVE  \E c \in ToSet(cs) : \E i \in DOMAIN c.mounts :
           ContainerMatches(c, m.service) /\ RuntimeMatches(m, cs) = {c.mounts[i].id}
<1> DEFINE Fits(c) == {i \in DOMAIN c.mounts : MountsMatch(m, c.mounts[i])}
           First(c) == CHOOSE i \in Fits(c) : \A j \in Fits(c) : i <= j
           T == {i \in 1..Len(cs) : ContainerMatches(cs[i], m.service) /\ Fits(cs[i]) # {}}
           k == IF T # {} THEN Min(T) ELSE 0
<1>1. RuntimeMatches(m, cs) = IF k = 0 THEN {} ELSE {cs[k].mounts[First(cs[k])].id}
  BY DEF RuntimeMatches, SelectInSeq
<1>2. IsSeq(cs) /\ DOMAIN cs = 1..Len(cs)
  BY SeqFacts DEF ContainersGood
<1>3. k # 0
  <2> HIDE DEF k, First
  <2> QED BY <1>1
<1>4. k \in T
  <2>1. T \subseteq Nat
    <3> HIDE DEF Fits
    <3> QED OBVIOUS
  <2>2. T # {} => Min(T) \in T
    <3> HIDE DEF T
    <3> QED BY <2>1, MinFacts
  <2> HIDE DEF T
  <2> QED BY <1>3, <2>2
<1> DEFINE c == cs[k]
<1>5. k \in 1..Len(cs) /\ ContainerMatches(c, m.service) /\ Fits(c) # {}
  <2> HIDE DEF k, Fits
  <2> QED BY <1>4
<1> HIDE DEF k
<1>6. c \in ToSet(cs)
  BY <1>2, <1>5 DEF ToSet
<1>7. IsSeq(c.mounts) /\ Fits(c) \subseteq Nat /\ Fits(c) \subseteq DOMAIN c.mounts
  BY <1>6, SeqFacts DEF ContainersGood
<1> HIDE DEF Fits, c
<1>8. First(c) \in Fits(c)
  BY <1>5, <1>7, LeastNumber
<1> HIDE DEF First
<1> QED BY <1>1, <1>3, <1>5, <1>6, <1>7, <1>8 DEF c

\* What a correlation says of its mounts.
LEMMA CorrelationSays ==
  ASSUME NEW scan, NEW cs, NEW x \in Correlate(scan, cs)
  PROVE  /\ x.status = "matched" =>
              \E i \in DOMAIN scan.mounts :
                x.mount = scan.mounts[i].id /\ x.runtime \in RuntimeMatches(scan.mounts[i], cs)
         /\ x.status = "missing" =>
              \E i \in DOMAIN scan.mounts :
                x.mount = scan.mounts[i].id /\ RuntimeMatches(scan.mounts[i], cs) = {}
         /\ x.status = "extra" =>
              \E s \in ToSet(scan.services), c \in ToSet(cs) : \E j \in DOMAIN c.mounts :
                /\ ContainerMatches(c, s.name)
                /\ x.runtime = c.mounts[j].id /\ x.runtime \notin Matched(scan, cs)
<1> DEFINE Of(m) == RuntimeMatches(m, cs)
           known == Matched(scan, cs)
           Declared(m) ==
             IF Of(m) = {} THEN Correlation("missing", m.service, m.id, NoText)
             ELSE Correlation("matched", m.service, m.id, CHOOSE r \in Of(m) : TRUE)
           Extra(s, c) ==
             {Correlation("extra", s.name, NoText, c.mounts[i].id) :
                i \in {j \in DOMAIN c.mounts : c.mounts[j].id \notin known}}
           Served(s) == {c \in ToSet(cs) : ContainerMatches(c, s.name)}
<1>1. Correlate(scan, cs)
        = {Declared(scan.mounts[i]) : i \in DOMAIN scan.mounts}
            \cup UNION {UNION {Extra(s, c) : c \in Served(s)} : s \in ToSet(scan.services)}
  BY DEF Correlate
<1> HIDE DEF Of, known, Declared, Extra, Served
<1>2. \/ \E i \in DOMAIN scan.mounts : x = Declared(scan.mounts[i])
      \/ \E s \in ToSet(scan.services) : \E c \in Served(s) : x \in Extra(s, c)
  BY <1>1
<1>3. ASSUME NEW i \in DOMAIN scan.mounts, x = Declared(scan.mounts[i])
      PROVE  \/ /\ x.status = "matched" /\ x.mount = scan.mounts[i].id
                /\ x.runtime \in RuntimeMatches(scan.mounts[i], cs)
             \/ /\ x.status = "missing" /\ x.mount = scan.mounts[i].id
                /\ RuntimeMatches(scan.mounts[i], cs) = {}
  <2> DEFINE m == scan.mounts[i]
  <2>1. CASE Of(m) = {}
    BY <1>3, <2>1 DEF Declared, Of, Correlation
  <2>2. CASE Of(m) # {}
    <3> DEFINE r == CHOOSE r \in Of(m) : TRUE
    <3>1. r \in Of(m)
      BY <2>2
    <3>2. x = Correlation("matched", m.service, m.id, r)
      BY <1>3, <2>2 DEF Declared
    <3> HIDE DEF r
    <3> QED BY <3>1, <3>2 DEF Correlation, Of
  <2> QED BY <2>1, <2>2
<1>4. ASSUME NEW s \in ToSet(scan.services), NEW c \in Served(s), x \in Extra(s, c)
      PROVE  /\ x.status = "extra" /\ c \in ToSet(cs) /\ ContainerMatches(c, s.name)
             /\ \E j \in DOMAIN c.mounts :
                  x.runtime = c.mounts[j].id /\ x.runtime \notin Matched(scan, cs)
  BY <1>4 DEF Extra, Served, known, Correlation
<1> QED BY <1>2, <1>3, <1>4

\* Every match, and every mount of a container of a service that no declaration matches, has
\* its correlation.
LEMMA CorrelationComplete ==
  ASSUME NEW scan, NEW cs
  PROVE  /\ \A i \in DOMAIN scan.mounts : \A r :
              RuntimeMatches(scan.mounts[i], cs) = {r}
                => \E x \in Correlate(scan, cs) : x.status = "matched" /\ x.runtime = r
         /\ \A s \in ToSet(scan.services), c \in ToSet(cs) : \A j \in DOMAIN c.mounts :
              ContainerMatches(c, s.name) /\ c.mounts[j].id \notin Matched(scan, cs)
                => \E x \in Correlate(scan, cs) : x.status = "extra" /\ x.runtime = c.mounts[j].id
<1> DEFINE Of(m) == RuntimeMatches(m, cs)
           known == Matched(scan, cs)
           Declared(m) ==
             IF Of(m) = {} THEN Correlation("missing", m.service, m.id, NoText)
             ELSE Correlation("matched", m.service, m.id, CHOOSE r \in Of(m) : TRUE)
           Extra(s, c) ==
             {Correlation("extra", s.name, NoText, c.mounts[i].id) :
                i \in {j \in DOMAIN c.mounts : c.mounts[j].id \notin known}}
           Served(s) == {c \in ToSet(cs) : ContainerMatches(c, s.name)}
<1>1. Correlate(scan, cs)
        = {Declared(scan.mounts[i]) : i \in DOMAIN scan.mounts}
            \cup UNION {UNION {Extra(s, c) : c \in Served(s)} : s \in ToSet(scan.services)}
  BY DEF Correlate
<1> HIDE DEF Of, known, Declared, Extra, Served
<1>2. ASSUME NEW i \in DOMAIN scan.mounts, NEW r, RuntimeMatches(scan.mounts[i], cs) = {r}
      PROVE  \E x \in Correlate(scan, cs) : x.status = "matched" /\ x.runtime = r
  <2> DEFINE m == scan.mounts[i]
             x == Correlation("matched", m.service, m.id, r)
  <2>1. Of(m) # {} /\ (CHOOSE q \in Of(m) : TRUE) = r
    BY <1>2 DEF Of
  <2>2. Declared(m) = x
    BY <2>1 DEF Declared
  <2>3. x.status = "matched" /\ x.runtime = r
    BY DEF Correlation
  <2> HIDE DEF x
  <2>4. x \in Correlate(scan, cs)
    BY <1>1, <2>2
  <2> QED BY <2>3, <2>4
<1>3. ASSUME NEW s \in ToSet(scan.services), NEW c \in ToSet(cs), NEW j \in DOMAIN c.mounts,
             ContainerMatches(c, s.name), c.mounts[j].id \notin Matched(scan, cs)
      PROVE  \E x \in Correlate(scan, cs) : x.status = "extra" /\ x.runtime = c.mounts[j].id
  <2> DEFINE x == Correlation("extra", s.name, NoText, c.mounts[j].id)
  <2>1. x \in Extra(s, c) /\ c \in Served(s)
    BY <1>3 DEF Extra, Served, known
  <2>2. x.status = "extra" /\ x.runtime = c.mounts[j].id
    BY DEF Correlation
  <2> HIDE DEF x
  <2>3. x \in Correlate(scan, cs)
    BY <1>1, <2>1
  <2> QED BY <2>2, <2>3
<1> QED BY <1>2, <1>3

\* The ids of the running mounts, and of the declared ones, that have a correlation of this status.
RuntimeOf(correlations, status) == {c.runtime : c \in {x \in correlations : x.status = status}}
DeclaredOf(correlations, status) == {c.mount : c \in {x \in correlations : x.status = status}}

\* Members of the two sets of ids.
LEMMA StatusMembers ==
  ASSUME NEW C, NEW status
  PROVE  /\ \A r : r \in RuntimeOf(C, status) <=> \E x \in C : x.status = status /\ x.runtime = r
         /\ \A m : m \in DeclaredOf(C, status) <=> \E x \in C : x.status = status /\ x.mount = m
BY DEF RuntimeOf, DeclaredOf

\* The ids of the mounts of the containers of the services.
ServingIds(cs, services) ==
  UNION {{c.mounts[k].id : k \in DOMAIN c.mounts} :
           c \in {c \in ToSet(cs) : \E s \in ToSet(services) : ContainerMatches(c, s.name)}}

\* Members of the ids of the serving containers.
LEMMA ServingMembers ==
  ASSUME NEW cs, NEW services, NEW r
  PROVE  r \in ServingIds(cs, services)
           <=> \E c \in ToSet(cs) : \E s \in ToSet(services) : \E k \in DOMAIN c.mounts :
                 ContainerMatches(c, s.name) /\ r = c.mounts[k].id
BY DEF ServingIds

\* A mount of the scan is known by its id.
IdsTell(sc) == \A i, j \in DOMAIN sc.mounts : sc.mounts[i].id = sc.mounts[j].id
                                                => sc.mounts[i] = sc.mounts[j]

\* correlate_compose_runtime partitions the mounts: what matched is not extra, what an id names is
\* not both matched and missing, and the running mounts of the services are the matched and the extra.
LEMMA CorrelatePartitions ==
  ASSUME NEW sc, NEW cs, ContainersGood(cs), Serviced(sc), NEW C, C = Correlate(sc, cs)
  PROVE  /\ RuntimeOf(C, "matched") \cap RuntimeOf(C, "extra") = {}
         /\ IdsTell(sc) => DeclaredOf(C, "matched") \cap DeclaredOf(C, "missing") = {}
         /\ ServingIds(cs, sc.services) = RuntimeOf(C, "matched") \cup RuntimeOf(C, "extra")
<1>0. \A r : r \in Matched(sc, cs)
             <=> \E i \in DOMAIN sc.mounts : r \in RuntimeMatches(sc.mounts[i], cs)
  BY DEF Matched
<1>1. ASSUME NEW r, r \in RuntimeOf(C, "matched")
      PROVE  /\ r \in Matched(sc, cs)
             /\ \E i \in DOMAIN sc.mounts : r \in RuntimeMatches(sc.mounts[i], cs)
  BY <1>0, <1>1, StatusMembers, CorrelationSays
<1>2. ASSUME NEW r, r \in RuntimeOf(C, "extra")
      PROVE  /\ r \notin Matched(sc, cs) /\ r \in ServingIds(cs, sc.services)
  <2>1. PICK x \in C : x.status = "extra" /\ x.runtime = r
    BY <1>2, StatusMembers
  <2>2. \E s \in ToSet(sc.services), c \in ToSet(cs) : \E j \in DOMAIN c.mounts :
          /\ ContainerMatches(c, s.name)
          /\ r = c.mounts[j].id /\ r \notin Matched(sc, cs)
    BY <2>1, CorrelationSays
  <2> QED BY <2>2, ServingMembers
<1>3. RuntimeOf(C, "matched") \cap RuntimeOf(C, "extra") = {}
  BY <1>1, <1>2
<1>4. ASSUME IdsTell(sc), NEW m, m \in DeclaredOf(C, "matched"), m \in DeclaredOf(C, "missing")
      PROVE  FALSE
  <2>1. PICK i \in DOMAIN sc.mounts :
               m = sc.mounts[i].id /\ RuntimeMatches(sc.mounts[i], cs) # {}
    <3>1. PICK x \in C : x.status = "matched" /\ x.mount = m
      BY <1>4, StatusMembers
    <3>2. PICK i \in DOMAIN sc.mounts :
                 x.mount = sc.mounts[i].id /\ x.runtime \in RuntimeMatches(sc.mounts[i], cs)
      BY <3>1, CorrelationSays
    <3> QED BY <3>1, <3>2
  <2>2. PICK j \in DOMAIN sc.mounts :
               m = sc.mounts[j].id /\ RuntimeMatches(sc.mounts[j], cs) = {}
    BY <1>4, StatusMembers, CorrelationSays
  <2>3. sc.mounts[i] = sc.mounts[j]
    BY <1>4, <2>1, <2>2 DEF IdsTell
  <2> QED BY <2>1, <2>2, <2>3
<1>5. ASSUME NEW i \in DOMAIN sc.mounts, NEW r \in RuntimeMatches(sc.mounts[i], cs)
      PROVE  r \in ServingIds(cs, sc.services) /\ r \in RuntimeOf(C, "matched")
  <2>1. PICK c \in ToSet(cs) : \E k \in DOMAIN c.mounts :
               /\ ContainerMatches(c, sc.mounts[i].service)
               /\ RuntimeMatches(sc.mounts[i], cs) = {c.mounts[k].id}
    BY MatchIsOne
  <2>2. PICK k \in DOMAIN c.mounts :
               /\ ContainerMatches(c, sc.mounts[i].service)
               /\ RuntimeMatches(sc.mounts[i], cs) = {c.mounts[k].id}
    BY <2>1
  <2>3. r = c.mounts[k].id /\ RuntimeMatches(sc.mounts[i], cs) = {r}
    BY <2>2
  <2>4. PICK s \in ToSet(sc.services) : s.name = sc.mounts[i].service
    BY DEF Serviced, ToSet
  <2>5. r \in ServingIds(cs, sc.services)
    BY <2>2, <2>3, <2>4, ServingMembers
  <2>6. \E x \in C : x.status = "matched" /\ x.runtime = r
    BY <2>3, CorrelationComplete
  <2> QED BY <2>5, <2>6, StatusMembers
<1>6. ASSUME NEW r, r \in ServingIds(cs, sc.services), r \notin RuntimeOf(C, "matched")
      PROVE  r \in RuntimeOf(C, "extra")
  <2>1. r \notin Matched(sc, cs)
    BY <1>0, <1>5, <1>6
  <2>2. PICK c \in ToSet(cs), s \in ToSet(sc.services) : \E k \in DOMAIN c.mounts :
               ContainerMatches(c, s.name) /\ r = c.mounts[k].id
    BY <1>6, ServingMembers
  <2>3. \E x \in C : x.status = "extra" /\ x.runtime = r
    BY <2>1, <2>2, CorrelationComplete
  <2> QED BY <2>3, StatusMembers
<1> QED BY <1>1, <1>2, <1>3, <1>4, <1>5, <1>6

-----------------------------------------------------------------------------
(* What a scan has read *)

\* The files of a request and the versions it has read of the first ones.
ReadGood(files, got) ==
  /\ IsSeq(files) /\ IsSeq(got) /\ Len(got) <= Len(files)
  /\ \A k \in 1..Len(got) : DocumentGood(Holds[got[k]].document)

\* Every mount is declared by a file, in the version that was read.
MountsRead(mounts, files, got) ==
  \A i \in 1..Len(mounts) : \E k \in 1..Len(got) :
    DeclaredIn(mounts[i], files[k], Holds[got[k]].document)

\* Files that were read once, or twice in one version.
Alike(files, got) == \A j, k \in DOMAIN files : files[j] = files[k] => got[j] = got[k]

\* An id names the file, the service and the position: one mount, if the file was read in one
\* version.
LEMMA ReadIdsTell ==
  ASSUME NEW sc, NEW files, NEW got, IsSeq(sc.mounts), ReadGood(files, got),
         MountsRead(sc.mounts, files, got), Alike(files, got)
  PROVE  IdsTell(sc)
<1> SUFFICES ASSUME NEW i \in DOMAIN sc.mounts, NEW j \in DOMAIN sc.mounts,
                    sc.mounts[i].id = sc.mounts[j].id
             PROVE  sc.mounts[i] = sc.mounts[j]
  BY DEF IdsTell
<1>1. DOMAIN sc.mounts = 1..Len(sc.mounts)
  BY SeqFacts
<1>2. /\ Len(got) \in Nat /\ Len(files) \in Nat /\ DOMAIN files = 1..Len(files)
      /\ Len(got) <= Len(files)
  BY SeqFacts DEF ReadGood
<1>3. 1..Len(got) \subseteq DOMAIN files
  BY <1>2
<1>4. PICK k \in 1..Len(got) : DeclaredIn(sc.mounts[i], files[k], Holds[got[k]].document)
  BY <1>1 DEF MountsRead
<1>5. PICK l \in 1..Len(got) : DeclaredIn(sc.mounts[j], files[l], Holds[got[l]].document)
  BY <1>1 DEF MountsRead
<1> DEFINE A == Holds[got[k]].document.services
           B == Holds[got[l]].document.services
<1>6. PICK a \in 1..Len(A) : A[a].name # NoText /\ EntryOf(sc.mounts[i], files[k], A[a].name, A[a].volumes.items)
  BY <1>4 DEF DeclaredIn
<1>7. PICK b \in 1..Len(B) : B[b].name # NoText /\ EntryOf(sc.mounts[j], files[l], B[b].name, B[b].volumes.items)
  BY <1>5 DEF DeclaredIn
<1>8. PICK x \in 1..Len(A[a].volumes.items) :
             /\ sc.mounts[i] = MountAt(<<files[k], A[a].name, x>>, A[a].volumes.items[x])
             /\ sc.mounts[i].id = <<files[k], A[a].name, x>>
  BY <1>6 DEF EntryOf
<1>9. PICK y \in 1..Len(B[b].volumes.items) :
             /\ sc.mounts[j] = MountAt(<<files[l], B[b].name, y>>, B[b].volumes.items[y])
             /\ sc.mounts[j].id = <<files[l], B[b].name, y>>
  BY <1>7 DEF EntryOf
<1>10. files[k] = files[l] /\ A[a].name = B[b].name /\ x = y
  <2> DEFINE p == A[a].name
             q == B[b].name
  <2>1. <<files[k], p, x>> = <<files[l], q, y>>
    BY <1>8, <1>9
  <2> HIDE DEF p, q
  <2>2. files[k] = files[l] /\ p = q /\ x = y
    BY <2>1
  <2> QED BY <2>2 DEF p, q
<1>11. got[k] = got[l]
  BY <1>3, <1>10 DEF Alike
<1>12. A = B
  BY <1>11
<1>14. DocumentGood(Holds[got[k]].document)
  BY DEF ReadGood
<1>13. a = b
  BY <1>6, <1>7, <1>10, <1>12, <1>14 DEF DocumentGood
<1> HIDE DEF A, B
<1> QED BY <1>8, <1>9, <1>10, <1>12, <1>13

\* What is promised of a scan with its correlations.
PartitionOf(scan, cs, files, got) ==
  /\ RuntimeOf(scan.correlations, "matched") \cap RuntimeOf(scan.correlations, "extra") = {}
  /\ Alike(files, got) =>
       DeclaredOf(scan.correlations, "matched") \cap DeclaredOf(scan.correlations, "missing") = {}
  /\ scan.correlations # {} =>
       ServingIds(cs, scan.services)
         = RuntimeOf(scan.correlations, "matched") \cup RuntimeOf(scan.correlations, "extra")

\* A finished scan, correlated with a snapshot, is partitioned.
LEMMA ScanPartitions ==
  ASSUME NEW sc, ScanGood(sc), NEW files, NEW got, ReadGood(files, got),
         MountsRead(sc.mounts, files, got), NEW snapshot \in Snapshots,
         NEW r, r = WithCorrelations(Scanned(files, sc), snapshot)
  PROVE  PartitionOf(r, snapshot.containers, files, got)
<1> DEFINE v == Scanned(files, sc)
           cs == snapshot.containers
           C == IF snapshot.allowMock \/ snapshot.mode # "mock" THEN Correlate(v, cs) ELSE {}
<1>1. ScanShape(v) /\ v.mounts = sc.mounts /\ Serviced(v)
  BY ScannedKeeps
<1>2. r.services = v.services /\ r.correlations = C
  <2> HIDE DEF v
  <2>1. PICK a, b, c, d : v = [services |-> a, mounts |-> b, correlations |-> c, diagnostics |-> d]
    BY <1>1 DEF ScanShape
  <2>2. r = [[services |-> a, mounts |-> b, correlations |-> c, diagnostics |-> d] EXCEPT
               !.correlations = C]
    BY <2>1 DEF WithCorrelations, v
  <2> HIDE DEF C
  <2>3. r = [services |-> a, mounts |-> b, correlations |-> C, diagnostics |-> d]
    BY <2>2
  <2> QED BY <2>1, <2>3
<1>3. ContainersGood(cs)
  BY RequestsAssumption, OfItsElements DEF ContainersGood
<1>4. Alike(files, got) => IdsTell(v)
  <2>1. IsSeq(sc.mounts)
    BY DEF ScanGood
  <2>2. Alike(files, got) => IdsTell(sc)
    BY <2>1, ReadIdsTell
  <2> HIDE DEF v
  <2> QED BY <1>1, <2>2 DEF IdsTell
<1> HIDE DEF v, cs
<1>5. CASE C = {}
  <2>1. \A status : RuntimeOf({}, status) = {} /\ DeclaredOf({}, status) = {}
    BY DEF RuntimeOf, DeclaredOf
  <2> HIDE DEF C
  <2> QED BY <1>2, <1>5, <2>1 DEF PartitionOf
<1>6. CASE C = Correlate(v, cs)
  <2> HIDE DEF C
  <2>1. /\ RuntimeOf(C, "matched") \cap RuntimeOf(C, "extra") = {}
        /\ IdsTell(v) => DeclaredOf(C, "matched") \cap DeclaredOf(C, "missing") = {}
        /\ ServingIds(cs, v.services) = RuntimeOf(C, "matched") \cup RuntimeOf(C, "extra")
    BY <1>1, <1>3, <1>6, CorrelatePartitions
  <2> QED BY <1>2, <1>4, <2>1 DEF PartitionOf, cs
<1> QED BY <1>5, <1>6

-----------------------------------------------------------------------------
(* The correlations of a scan *)

\* A request reads files of the project; its scan has the mounts of what it read.
ReaderGood ==
  /\ ReadGood(reader.files, reader.got)
  /\ \A k \in 1..Len(reader.files) : reader.files[k] \in Files
  /\ ScanGood(reader.scan)
  /\ MountsRead(reader.scan.mounts, reader.files, reader.got)

\* The invariant; BindingInv, which is proved above, says which versions the files are in.
ScanInv == ReaderGood /\ CorrelationsPartition

\* The versions a file may be read in hold documents.
LEMMA ReadableIsDocument ==
  ASSUME NEW f \in Files, NEW v \in Contents[f], Holds[v].form \in {"file", "link"}
  PROVE  DocumentGood(Holds[v].document)
<1> DEFINE services == Holds[v].document.services
           Texts(items) ==
             /\ items \in Seq(ToSet(items))
             /\ \A n \in DOMAIN items :
                  /\ items[n].form = "short" => items[n].text \in Seq(ToSet(items[n].text))
                  /\ items[n].form = "long" => items[n].source \in Seq(ToSet(items[n].source))
<1>1. /\ services \in Seq(ToSet(services))
      /\ \A i \in DOMAIN services : Texts(services[i].volumes.items)
      /\ \A i, j \in DOMAIN services :
           services[i].name = services[j].name => i = j \/ services[i].name = NoText
  BY DocumentsAssumption
<1>a. ASSUME NEW items, Texts(items)
      PROVE  IsSeq(items) /\ \A n \in 1..Len(items) : ItemGood(items[n])
  <2>1. IsSeq(items) /\ DOMAIN items = 1..Len(items)
    BY <1>a, OfItsElements, SeqFacts
  <2> QED BY <1>a, <2>1, OfItsElements DEF ItemGood
<1> HIDE DEF services, Texts
<1>2. IsSeq(services) /\ DOMAIN services = 1..Len(services)
  BY <1>1, OfItsElements, SeqFacts
<1>3. \A i \in 1..Len(services) :
        /\ IsSeq(services[i].volumes.items)
        /\ \A n \in 1..Len(services[i].volumes.items) : ItemGood(services[i].volumes.items[n])
  BY <1>1, <1>2, <1>a
<1> QED BY <1>1, <1>2, <1>3 DEF DocumentGood, services

\* No files are read and nothing is found.
LEMMA NothingRead ==
  ASSUME NEW files, IsSeq(files)
  PROVE  ReadGood(files, <<>>) /\ ScanGood(EmptyScan) /\ MountsRead(EmptyScan.mounts, files, <<>>)
<1>1. <<>> \in Seq({}) /\ Len(<<>>) = 0
  OBVIOUS
<1>2. IsSeq(<<>>)
  BY <1>1 DEF IsSeq
<1>3. ScanShape(EmptyScan) /\ EmptyScan.services = <<>> /\ EmptyScan.mounts = <<>>
  BY DEF EmptyScan, ScanShape
<1>4. ScanGood(EmptyScan)
  BY <1>1, <1>2, <1>3 DEF ScanGood
<1>5. ReadGood(files, <<>>)
  BY <1>1, <1>2, SeqFacts DEF ReadGood
<1> QED BY <1>1, <1>3, <1>4, <1>5 DEF MountsRead

\* When no request is served nothing is read.
LEMMA IdleIsGood ==
  /\ IsSeq(<<>>) /\ ReadGood(<<>>, <<>>) /\ ScanGood(EmptyScan)
  /\ MountsRead(EmptyScan.mounts, <<>>, <<>>) /\ 1..Len(<<>>) = {}
<1>1. <<>> \in Seq({}) /\ 1..Len(<<>>) = {}
  OBVIOUS
<1>2. IsSeq(<<>>)
  BY <1>1 DEF IsSeq
<1> QED BY <1>1, <1>2, NothingRead

\* The daemon starts with no request.
LEMMA ScanInit == Init => ScanInv
<1> SUFFICES ASSUME Init PROVE ScanInv
  OBVIOUS
<1>1. reader.files = <<>> /\ reader.got = <<>> /\ reader.scan = EmptyScan /\ answer.op = "none"
  BY DEF Init, Idle, NoAnswer
<1>2. ReaderGood
  BY <1>1, IdleIsGood DEF ReaderGood
<1>3. CorrelationsPartition
  BY <1>1 DEF CorrelationsPartition, Answered
<1> QED BY <1>2, <1>3 DEF ScanInv

\* A request begins with files of the project and nothing read.
LEMMA ScanBegins ==
  ASSUME NEW op, NEW files, NEW request, Begin(op, files, request), IsSeq(files),
         \A k \in 1..Len(files) : files[k] \in Files
  PROVE  ScanInv'
<1>1. /\ reader'.files = files /\ reader'.got = <<>> /\ reader'.scan = EmptyScan
      /\ answer'.op = "none"
  BY DEF Begin, Idle, NoAnswer
<1>2. ReaderGood'
  BY <1>1, NothingRead DEF ReaderGood
<1>3. CorrelationsPartition'
  BY <1>1 DEF CorrelationsPartition, Answered
<1> QED BY <1>2, <1>3 DEF ScanInv

\* Any answer ends the request.
LEMMA ScanAnswers ==
  ASSUME NEW status, NEW value, Answer(status, value),
         reader.op # "scan" \/ status # "ok" \/ CorrelationsPartition'
  PROVE  ScanInv'
<1>1. /\ reader'.files = <<>> /\ reader'.got = <<>> /\ reader'.scan = EmptyScan
      /\ answer'.op = reader.op /\ answer'.status = status
  BY DEF Answer, Idle
<1>2. ReaderGood'
  BY <1>1, IdleIsGood DEF ReaderGood
<1>3. CorrelationsPartition'
  BY <1>1 DEF CorrelationsPartition, Answered
<1> QED BY <1>2, <1>3 DEF ScanInv

\* A file that is read adds the mounts it declares.
LEMMA ScanReads ==
  ASSUME BindingInv, ScanInv, ReadFile
  PROVE  ScanInv'
<1> DEFINE f == NextFile
           v == fs[f]
           n == Len(reader.got) + 1
           sc == reader.scan
           doc == Holds[v].document
<1>1. /\ reader'.files = reader.files /\ reader'.got = Append(reader.got, v)
      /\ reader'.scan = ParseFile(sc, f, doc) /\ UNCHANGED answer
  BY DEF ReadFile, BindingInv, ReaderShape, Document
<1>2. /\ IsSeq(reader.got) /\ IsSeq(reader.files) /\ ScanGood(sc)
      /\ Len(reader.got) \in Nat /\ Len(reader.files) \in Nat
  BY SeqFacts DEF ScanInv, ReaderGood, ReadGood
<1>3. Len(reader.got) < Len(reader.files) /\ Holds[v].form \in {"file", "link"}
  BY DEF ReadFile, Unread, Usable, Readable, Form
<1>4. n \in 1..Len(reader.files) /\ f = reader.files[n]
  BY <1>2, <1>3 DEF NextFile
<1>5. f \in Files
  BY <1>4 DEF ScanInv, ReaderGood
<1>6. v \in Contents[f]
  BY <1>5 DEF BindingInv, FilesAreMoments, Moments
<1>7. DocumentGood(doc)
  BY <1>3, <1>5, <1>6, ReadableIsDocument
<1>8. /\ IsSeq(reader'.got) /\ Len(reader'.got) = n /\ reader'.got[n] = v
      /\ \A k \in 1..Len(reader.got) : reader'.got[k] = reader.got[k]
  BY <1>1, <1>2, AppendFacts
<1>9. /\ \A k \in 1..n : k = n \/ k \in 1..Len(reader.got)
      /\ 1..Len(reader.got) \subseteq 1..n /\ n \in 1..n /\ n <= Len(reader.files)
  BY <1>2, <1>3
<1> HIDE DEF f, v, n, sc
<1>10. ReadGood(reader'.files, reader'.got)
  BY <1>1, <1>2, <1>7, <1>8, <1>9 DEF ReadGood, ScanInv, ReaderGood
<1>11. /\ ScanGood(reader'.scan)
       /\ \A i \in 1..Len(reader'.scan.mounts) :
            \/ MountOf(reader'.scan.mounts[i], sc)
            \/ DeclaredIn(reader'.scan.mounts[i], f, doc)
  <2> HIDE DEF doc
  <2> QED BY <1>1, <1>2, <1>7, DocumentKeeps
<1>12. ASSUME NEW m, MountOf(m, sc) \/ DeclaredIn(m, f, doc)
       PROVE  \E k \in 1..Len(reader'.got) :
                DeclaredIn(m, reader'.files[k], Holds[reader'.got[k]].document)
  <2>1. CASE MountOf(m, sc)
    <3>1. PICK k \in 1..Len(reader.got) : DeclaredIn(m, reader.files[k], Holds[reader.got[k]].document)
      BY <2>1 DEF MountOf, ScanInv, ReaderGood, MountsRead, sc
    <3> QED BY <3>1, <1>1, <1>8, <1>9
  <2>2. CASE DeclaredIn(m, f, doc)
    BY <2>2, <1>1, <1>4, <1>8, <1>9
  <2> QED BY <1>12, <2>1, <2>2
<1>13. MountsRead(reader'.scan.mounts, reader'.files, reader'.got)
  BY <1>11, <1>12 DEF MountsRead
<1>14. ReaderGood'
  BY <1>1, <1>10, <1>11, <1>13 DEF ScanInv, ReaderGood
<1>15. CorrelationsPartition'
  BY <1>1 DEF ScanInv, CorrelationsPartition, Answered
<1> QED BY <1>14, <1>15 DEF ScanInv

\* A finished scan is partitioned.
LEMMA ScanFinishes ==
  ASSUME ScanInv, NEW s \in Snapshots, FinishScan(s)
  PROVE  ScanInv'
<1> DEFINE raw == WithCorrelations(Scanned(reader.files, reader.scan), s)
           value == [raw |-> raw, published |-> RedactScan(raw), containers |-> s.containers]
<1>1. Answer("ok", value)
  BY DEF FinishScan
<1>2. PartitionOf(raw, s.containers, reader.files, reader.got)
  BY ScanPartitions DEF ScanInv, ReaderGood
<1>3. value.raw = raw /\ value.containers = s.containers
  OBVIOUS
<1> HIDE DEF raw, value
<1>4. answer'.value = value /\ answer'.files = reader.files /\ answer'.got = reader.got
  BY <1>1 DEF Answer
<1>5. CorrelationsPartition'
  <2>1. PartitionOf(answer.value.raw, answer.value.containers, answer.files, answer.got)'
    BY <1>2, <1>3, <1>4
  <2>2. (CorrelationsPartition
           <=> (Answered("scan") =>
                  PartitionOf(answer.value.raw, answer.value.containers, answer.files, answer.got)))'
    BY DEF CorrelationsPartition, PartitionOf, RuntimeOf, DeclaredOf, ServingIds, Alike
  <2> QED BY <2>1, <2>2
<1> QED BY <1>1, <1>5, ScanAnswers

\* Steps that leave the request's reads and the answer alone.
LEMMA ScanRests ==
  ASSUME ScanInv, UNCHANGED answer, reader'.files = reader.files, reader'.got = reader.got,
         reader'.scan = reader.scan
  PROVE  ScanInv'
BY DEF ScanInv, ReaderGood, CorrelationsPartition, Answered

\* Every step keeps it.
LEMMA ScanStep == BindingInv /\ ScanInv /\ [Next]_vars => ScanInv'
<1> SUFFICES ASSUME BindingInv, ScanInv, [Next]_vars PROVE ScanInv'
  OBVIOUS
<1>0. IsSeq(Discover) /\ \A k \in 1..Len(Discover) : Discover[k] \in Files
  <2>1. Discover \in Seq(Files)
    BY DiscoverIsSeq
  <2> HIDE DEF Discover
  <2> QED BY <2>1 DEF IsSeq
<1>1. ASSUME NEW f \in Files, NEW c \in Contents[f], Edit(f, c) PROVE ScanInv'
  <2>1. UNCHANGED reader /\ UNCHANGED answer
    BY <1>1 DEF Edit
  <2> QED BY <2>1, ScanRests
<1>2. CASE BeginBinding
  <2>1. Begin("binding", Discover, <<>>)
    BY <1>2 DEF BeginBinding
  <2> QED BY <2>1, <1>0, ScanBegins
<1>3. ASSUME NEW op \in {"scan", "graph", "validate"}, NEW files \in ScanRequests,
             BeginScan(op, files)
      PROVE  ScanInv'
  <2>1. CASE files = <<>>
    <3>1. Begin(op, Discover, <<>>)
      BY <1>3, <2>1 DEF BeginScan
    <3> QED BY <3>1, <1>0, ScanBegins
  <2>2. CASE files # <<>>
    <3>1. Begin(op, files, <<>>) /\ \A f \in ToSet(files) : Scannable(f)
      BY <1>3, <2>2 DEF BeginScan
    <3>2. IsSeq(files) /\ DOMAIN files = 1..Len(files)
      BY RequestsAssumption, OfItsElements, SeqFacts
    <3>3. \A k \in 1..Len(files) : files[k] \in Files
      BY <3>1, <3>2 DEF Scannable, ToSet
    <3> QED BY <3>1, <3>2, <3>3, ScanBegins
  <2> QED BY <2>1, <2>2
<1>4. ASSUME NEW r \in PlanRequests, BeginPlan(r) PROVE ScanInv'
  <2> DEFINE files == <<r.file>>
  <2>1. Begin("plan", files, r) /\ r.file \in Files
    BY <1>4 DEF BeginPlan, Scannable
  <2>2. files \in Seq(Files) /\ \A k \in 1..Len(files) : files[k] \in Files
    BY <2>1
  <2> HIDE DEF files
  <2>3. IsSeq(files)
    BY <2>2 DEF IsSeq
  <2> QED BY <2>1, <2>2, <2>3, ScanBegins
<1>5. CASE ReadFile
  BY <1>5, ScanReads
<1>6. CASE Recheck
  <2> DEFINE k == reader.checked + 1
  <2>1. CASE StillAsRead(reader.files[k], reader.got[k])
    <3>1. /\ reader'.files = reader.files /\ reader'.got = reader.got
          /\ reader'.scan = reader.scan /\ UNCHANGED answer
      BY <1>6, <2>1 DEF Recheck, BindingInv, ReaderShape
    <3> QED BY <3>1, ScanRests
  <2>2. CASE ~StillAsRead(reader.files[k], reader.got[k])
    <3>1. Answer("none", <<>>)
      BY <1>6, <2>2 DEF Recheck
    <3> QED BY <3>1, ScanAnswers
  <2> QED BY <2>1, <2>2
<1>7. CASE FinishBinding \/ FinishGraph \/ FinishValidate \/ FinishPlan
  <2>1. reader.op # "scan" /\ \E status, value : Answer(status, value)
    <3>1. CASE FinishBinding
      BY <3>1 DEF FinishBinding, AllRead
    <3>2. CASE FinishGraph
      BY <3>2 DEF FinishGraph, AllRead
    <3>3. CASE FinishValidate
      BY <3>3 DEF FinishValidate, AllRead
    <3>4. CASE FinishPlan
      BY <3>4 DEF FinishPlan, AllRead
    <3> QED BY <1>7, <3>1, <3>2, <3>3, <3>4
  <2> QED BY <2>1, ScanAnswers
<1>8. ASSUME NEW s \in Snapshots, FinishScan(s) PROVE ScanInv'
  BY <1>8, ScanFinishes
<1>9. CASE ReadFails
  <2>1. Answer("unavailable", <<>>)
    BY <1>9 DEF ReadFails
  <2> QED BY <2>1, ScanAnswers
<1>10. CASE RefuseRequest
  <2>1. answer'.op = "none" /\ UNCHANGED reader
    BY <1>10 DEF RefuseRequest, NoAnswer
  <2> QED BY <2>1 DEF ScanInv, ReaderGood, CorrelationsPartition, Answered
<1>11. CASE UNCHANGED vars
  BY <1>11, ScanRests DEF vars
<1> QED BY <1>1, <1>2, <1>3, <1>4, <1>5, <1>6, <1>7, <1>8, <1>9, <1>10, <1>11 DEF Next

\* The correlations of every scan answered by get_compose_scan sort the mounts: for all files,
\* documents, writes in between and Docker snapshots, no running mount is both matched and extra,
\* the running mounts of the services' containers are the matched and the extra ones, and no
\* declared mount is both matched and missing unless its file was read in two versions.
THEOREM CorrelationsArePartitions == Spec => []CorrelationsPartition
<1>1. ScanInv => CorrelationsPartition
  BY DEF ScanInv
<1> QED BY <1>1, ScanInit, ScanStep, BindingInvariant, PTL DEF Spec

-----------------------------------------------------------------------------
(* Texts *)

\* Sequences that agree everywhere are equal.
LEMMA SameSeq ==
  ASSUME NEW p, NEW q, IsSeq(p), IsSeq(q), Len(p) = Len(q), \A i \in 1..Len(p) : p[i] = q[i]
  PROVE  p = q
<1>1. PICK S : p \in Seq(S)
  BY DEF IsSeq
<1>2. PICK T : q \in Seq(T)
  BY DEF IsSeq
<1> DEFINE U == S \cup T
<1>3. p \in Seq(U) /\ q \in Seq(U)
  BY <1>1, <1>2
<1> HIDE DEF U
<1> QED BY <1>3

\* What joining two sequences gives.
LEMMA JoinFacts ==
  ASSUME NEW p, NEW q, IsSeq(p), IsSeq(q)
  PROVE  /\ IsSeq(p \o q) /\ Len(p \o q) = Len(p) + Len(q)
         /\ \A i \in 1..Len(p) : (p \o q)[i] = p[i]
         /\ \A i \in 1..Len(q) : (p \o q)[Len(p) + i] = q[i]
<1>1. PICK S : p \in Seq(S)
  BY DEF IsSeq
<1>2. PICK T : q \in Seq(T)
  BY DEF IsSeq
<1> DEFINE U == S \cup T
<1>3. p \in Seq(U) /\ q \in Seq(U)
  BY <1>1, <1>2
<1> HIDE DEF U
<1>4. p \o q \in Seq(U) /\ Len(p \o q) = Len(p) + Len(q)
  BY <1>3
<1>5. /\ \A i \in 1..Len(p) : (p \o q)[i] = p[i]
      /\ \A i \in 1..Len(q) : (p \o q)[Len(p) + i] = q[i]
  BY <1>3
<1> QED BY <1>4, <1>5 DEF IsSeq

\* A part of a sequence is a sequence.
LEMMA PartFacts ==
  ASSUME NEW q, NEW m \in Int, NEW n \in Int
  PROVE  /\ IsSeq(SubSeq(q, m, n)) /\ Len(SubSeq(q, m, n)) = IF m <= n THEN n - m + 1 ELSE 0
         /\ \A i \in 1..n - m + 1 : SubSeq(q, m, n)[i] = q[m + i - 1]
<1> DEFINE S == {q[i] : i \in m..n}
<1>1. \A i \in m..n : q[i] \in S
  OBVIOUS
<1> HIDE DEF S
<1>2. /\ SubSeq(q, m, n) \in Seq(S)
      /\ Len(SubSeq(q, m, n)) = IF m <= n THEN n - m + 1 ELSE 0
      /\ \A i \in 1..n - m + 1 : SubSeq(q, m, n)[i] = q[m + i - 1]
  BY <1>1, SubSeqProperties
<1> QED BY <1>2 DEF IsSeq

\* The front of a sequence that is not empty.
LEMMA FrontFacts ==
  ASSUME NEW q, IsSeq(q), Len(q) # 0
  PROVE  /\ IsSeq(Front(q)) /\ Len(Front(q)) = Len(q) - 1
         /\ \A i \in 1..Len(q) - 1 : Front(q)[i] = q[i]
<1>1. Len(q) \in Nat
  BY SeqFacts
<1>2. PICK k \in Nat : Len(q) = k + 1
  <2>1. Len(q) - 1 \in Nat /\ Len(q) = (Len(q) - 1) + 1
    BY <1>1
  <2> QED BY <2>1
<1>3. Front(q) = SubSeq(q, 1, k)
  <2>1. Len(q) - 1 = k
    BY <1>2
  <2> QED BY <2>1 DEF Front
<1>4. /\ IsSeq(SubSeq(q, 1, k)) /\ Len(SubSeq(q, 1, k)) = IF 1 <= k THEN k - 1 + 1 ELSE 0
      /\ \A i \in 1..k - 1 + 1 : SubSeq(q, 1, k)[i] = q[1 + i - 1]
  <2>1. 1 \in Int /\ k \in Int
    OBVIOUS
  <2> QED BY <2>1, PartFacts
<1>5. \A i \in 1..k : Front(q)[i] = q[i]
  BY <1>3, <1>4
<1>6. Len(Front(q)) = k /\ IsSeq(Front(q)) /\ Len(q) - 1 = k
  BY <1>2, <1>3, <1>4
<1> QED BY <1>5, <1>6

\* The tail of a sequence that is not empty.
LEMMA TailFacts ==
  ASSUME NEW q, IsSeq(q), q # <<>>
  PROVE  /\ IsSeq(Tail(q)) /\ Len(Tail(q)) = Len(q) - 1 /\ Len(q) # 0
         /\ \A i \in 1..Len(q) - 1 : Tail(q)[i] = q[i + 1]
<1>1. PICK S : q \in Seq(S)
  BY DEF IsSeq
<1>2. /\ Tail(q) \in Seq(S) /\ Len(Tail(q)) = Len(q) - 1 /\ Len(q) # 0
      /\ \A i \in 1..Len(q) - 1 : Tail(q)[i] = q[i + 1]
  BY <1>1
<1> QED BY <1>2 DEF IsSeq

\* Sequences of one and of no element.
LEMMA SmallSeqs ==
  ASSUME NEW e
  PROVE  /\ IsSeq(<<>>) /\ Len(<<>>) = 0
         /\ IsSeq(<<e>>) /\ Len(<<e>>) = 1 /\ <<e>>[1] = e
<1>1. <<>> \in Seq({}) /\ <<e>> \in Seq({e})
  OBVIOUS
<1> QED BY <1>1 DEF IsSeq

\* A sequence is empty when its length is 0.
LEMMA NoElements ==
  ASSUME NEW q, IsSeq(q)
  PROVE  q = <<>> <=> Len(q) = 0
<1>1. PICK S : q \in Seq(S)
  BY DEF IsSeq
<1> QED BY <1>1

\* Two sequences are of one set.
LEMMA CommonSet ==
  ASSUME NEW p, NEW q, IsSeq(p), IsSeq(q), NEW e
  PROVE  \E S : p \in Seq(S) /\ q \in Seq(S) /\ e \in S
<1>1. PICK A : p \in Seq(A)
  BY DEF IsSeq
<1>2. PICK B : q \in Seq(B)
  BY DEF IsSeq
<1> DEFINE S == (A \cup B) \cup {e}
<1>3. A \subseteq S /\ B \subseteq S /\ e \in S
  OBVIOUS
<1> HIDE DEF S
<1>4. p \in Seq(S) /\ q \in Seq(S)
  BY <1>1, <1>2, <1>3, SeqMonotonic
<1> QED BY <1>3, <1>4

\* Its last element and its front.
LEMMA LastOfAppend ==
  ASSUME NEW x, IsSeq(x), NEW y
  PROVE  Last(Append(x, y)) = y /\ Front(Append(x, y)) = x /\ Append(x, y) # <<>>
<1> DEFINE q == Append(x, y)
<1>1. Len(x) \in Nat
  BY SeqFacts
<1>2. /\ IsSeq(q) /\ Len(q) = Len(x) + 1 /\ q[Len(x) + 1] = y
      /\ \A i \in 1..Len(x) : q[i] = x[i]
  BY AppendFacts
<1> HIDE DEF q
<1>3. Last(q) = y
  BY <1>2 DEF Last
<1>4. Len(q) # 0 /\ Len(q) - 1 = Len(x)
  BY <1>1, <1>2
<1>5. q # <<>>
  BY <1>2, <1>4, NoElements
<1>6. IsSeq(Front(q)) /\ Len(Front(q)) = Len(x) /\ \A i \in 1..Len(x) : Front(q)[i] = q[i]
  BY <1>2, <1>4, FrontFacts
<1>7. Front(q) = x
  <2> DEFINE f == Front(q)
  <2> HIDE DEF f
  <2>1. IsSeq(f) /\ Len(f) = Len(x) /\ \A i \in 1..Len(f) : f[i] = x[i]
    BY <1>2, <1>6 DEF f
  <2>2. f = x
    BY <2>1, SameSeq
  <2> QED BY <2>2 DEF f
<1> QED BY <1>3, <1>5, <1>7 DEF q

\* Joining and appending.
LEMMA JoinAppend ==
  ASSUME NEW f, NEW x, IsSeq(f), IsSeq(x), NEW y
  PROVE  f \o Append(x, y) = Append(f \o x, y)
<1>1. PICK S : f \in Seq(S) /\ x \in Seq(S) /\ y \in S
  BY CommonSet
<1>2. <<y>> \in Seq(S) /\ f \o x \in Seq(S)
  BY <1>1
<1>3. Append(x, y) = x \o <<y>>
  BY <1>1, AppendIsConcat
<1>4. Append(f \o x, y) = (f \o x) \o <<y>>
  BY <1>1, <1>2, AppendIsConcat
<1>5. (f \o x) \o <<y>> = f \o (x \o <<y>>)
  BY <1>1, <1>2, ConcatAssociative
<1> QED BY <1>3, <1>4, <1>5

\* Joining nothing.
LEMMA JoinNothing ==
  ASSUME NEW q, IsSeq(q)
  PROVE  q \o <<>> = q /\ <<>> \o q = q
<1>1. PICK S : q \in Seq(S)
  BY DEF IsSeq
<1> QED BY <1>1, ConcatEmptySeq

\* Joining three.
LEMMA JoinThree ==
  ASSUME NEW p, NEW q, NEW r, IsSeq(p), IsSeq(q), IsSeq(r)
  PROVE  (p \o q) \o r = p \o (q \o r)
<1>1. PICK A : p \in Seq(A) /\ q \in Seq(A)
  BY CommonSet
<1>2. PICK B : r \in Seq(B)
  BY DEF IsSeq
<1> DEFINE S == A \cup B
<1>3. A \subseteq S /\ B \subseteq S
  OBVIOUS
<1> HIDE DEF S
<1>4. p \in Seq(S) /\ q \in Seq(S) /\ r \in Seq(S)
  BY <1>1, <1>2, <1>3, SeqMonotonic
<1> QED BY <1>4, ConcatAssociative

\* Changing the last element.
LEMMA ReplaceLast ==
  ASSUME NEW x, IsSeq(x), NEW q, NEW z, IsSeq(q), Len(q) = Len(x) + 1,
         \A i \in 1..Len(x) : q[i] = x[i], NEW w, w = [q EXCEPT ![Len(q)] = z]
  PROVE  w = Append(x, z)
<1> DEFINE v == Append(x, z)
<1>1. Len(x) \in Nat
  BY SeqFacts
<1>2. /\ IsSeq(v) /\ Len(v) = Len(x) + 1 /\ v[Len(x) + 1] = z
      /\ \A i \in 1..Len(x) : v[i] = x[i]
  BY AppendFacts
<1> HIDE DEF v
<1>3. Len(q) \in 1..Len(q) /\ \A i \in 1..Len(q) : i = Len(q) \/ i \in 1..Len(x)
  BY <1>1
<1>4. IsSeq(w) /\ Len(w) = Len(q) /\ \A i \in 1..Len(q) : w[i] = IF i = Len(q) THEN z ELSE q[i]
  <2>1. PICK S : q \in Seq(S) /\ q \in Seq(S) /\ z \in S
    BY CommonSet
  <2>2. w \in Seq(S) /\ Len(w) = Len(q)
    BY <1>3, <2>1
  <2>3. \A i \in 1..Len(q) : w[i] = IF i = Len(q) THEN z ELSE q[i]
    BY <1>3, <2>1
  <2> QED BY <2>2, <2>3 DEF IsSeq
<1>5. \A i \in 1..Len(w) : w[i] = v[i]
  BY <1>2, <1>3, <1>4
<1>6. w = v
  BY <1>2, <1>4, <1>5, SameSeq
<1> QED BY <1>6 DEF v

\* The token at n of a text that is cut at some positions, read into pieces.
ReadAt(pieces, t, n, cuts, runs) == Read(pieces, t[n], n \in cuts, runs)

\* One token read into pieces whose last is y.
LEMMA ReadAppend ==
  ASSUME NEW x, IsSeq(x), NEW y, NEW t, NEW n, NEW cuts, NEW runs
  PROVE  LET r == ReadAt(Append(x, y), t, n, cuts, runs)
         IN  /\ n \notin cuts => r = Append(x, Append(y, t[n]))
             /\ n \in cuts /\ runs /\ y = <<>> => r = Append(x, y)
             /\ n \in cuts /\ ~(runs /\ y = <<>>) => r = Append(Append(x, y), <<>>)
<1> DEFINE q == Append(x, y)
           z == Append(y, t[n])
           w == [q EXCEPT ![Len(q)] = Append(@, t[n])]
<1>1. Len(x) \in Nat /\ Last(q) = y
  BY SeqFacts, LastOfAppend
<1>2. /\ IsSeq(q) /\ Len(q) = Len(x) + 1 /\ q[Len(q)] = y /\ \A i \in 1..Len(x) : q[i] = x[i]
  BY AppendFacts
<1> HIDE DEF q
<1>3. w = [q EXCEPT ![Len(q)] = z]
  BY <1>2
<1> HIDE DEF z, w
<1>4. w = Append(x, z)
  BY <1>2, <1>3, ReplaceLast
<1>5. ReadAt(q, t, n, cuts, runs)
        = IF n \notin cuts THEN w ELSE IF runs /\ y = <<>> THEN q ELSE Append(q, <<>>)
  BY <1>1 DEF ReadAt, Read, w
<1> QED BY <1>4, <1>5 DEF q, z

-----------------------------------------------------------------------------
(* Recursions, solved *)

\* The pieces of a text are read one token at a time.
LEMMA PiecesSolved ==
  ASSUME NEW t, IsSeq(t), NEW cuts, NEW runs
  PROVE  \E R : /\ R[0] = <<<<>>>>
                /\ \A n \in 1..Len(t) : R[n] = ReadAt(R[n - 1], t, n, cuts, runs)
                /\ Pieces(t, cuts, runs) = R[Len(t)]
<1> DEFINE N == Len(t)
           Step(F, n) == IF n = 0 THEN <<<<>>>>
                         ELSE ReadAt(F[n - 1], t, n, cuts, runs)
           done == CHOOSE F : F = [n \in 0..N |-> Step(F, n)]
           Upto(n) == \E F : F = [i \in 0..n |-> Step(F, i)]
           H == {n \in 0..N : Upto(n)}
<1>1. N \in Nat
  BY SeqFacts
<1>2. Upto(0)
  <2> DEFINE F == [i \in 0..0 |-> <<<<>>>>]
  <2>1. F = [i \in 0..0 |-> Step(F, i)]
    OBVIOUS
  <2> QED BY <2>1
<1>3. ASSUME NEW n \in 1..N, Upto(n - 1) PROVE Upto(n)
  <2>1. PICK F : F = [i \in 0..n - 1 |-> Step(F, i)]
    BY <1>3
  <2> DEFINE G == [i \in 0..n |-> IF i = n THEN Step(F, n) ELSE F[i]]
  <2>2. \A i \in 0..n : Step(G, i) = Step(F, i)
    <3> TAKE i \in 0..n
    <3>1. i # 0 => i - 1 \in 0..n /\ i - 1 # n
      OBVIOUS
    <3>2. i # 0 => G[i - 1] = F[i - 1]
      <4> HIDE DEF Step
      <4> QED BY <3>1
    <3> HIDE DEF G
    <3> QED BY <3>2
  <2>3. \A i \in 0..n : G[i] = Step(F, i)
    <3> TAKE i \in 0..n
    <3> HIDE DEF Step
    <3>1. i # n => i \in 0..n - 1
      OBVIOUS
    <3>2. i # n => F[i] = Step(F, i)
      BY <3>1, <2>1
    <3> QED BY <3>2
  <2>4. G = [i \in 0..n |-> Step(G, i)]
    <3>1. G = [i \in 0..n |-> G[i]]
      OBVIOUS
    <3> HIDE DEF G, Step
    <3> QED BY <3>1, <2>2, <2>3
  <2> HIDE DEF G, Step
  <2> QED BY <2>4
<1>4. \A n \in 0..N : n \in H
  <2> HIDE DEF Upto
  <2>1. 0 \in H /\ \A n \in 1..N : n - 1 \in H => n \in H
    BY <1>1, <1>2, <1>3
  <2> HIDE DEF H
  <2> QED BY <2>1, <1>1, InductionUpTo
<1>5. done = [n \in 0..N |-> Step(done, n)]
  <2>1. N \in 0..N
    BY <1>1
  <2> HIDE DEF Step, N
  <2>2. Upto(N)
    BY <2>1, <1>4
  <2> QED BY <2>2
<1>6. Pieces(t, cuts, runs) = done[N]
  BY DEF Pieces, ReadAt
<1>7. \A n \in 0..N : done[n] = Step(done, n)
  <2> HIDE DEF Step, N, done
  <2> QED BY <1>5
<1> HIDE DEF done
<1>8. done[0] = <<<<>>>> /\ \A n \in 1..N : done[n] = ReadAt(done[n - 1], t, n, cuts, runs)
  <2>1. 0 \in 0..N /\ \A n \in 1..N : n \in 0..N /\ n # 0
    BY <1>1
  <2> HIDE DEF N
  <2> QED BY <1>7, <2>1
<1> HIDE DEF N
<1>9. \E R : /\ R[0] = <<<<>>>>
             /\ \A n \in 1..N : R[n] = ReadAt(R[n - 1], t, n, cuts, runs)
             /\ Pieces(t, cuts, runs) = R[N]
  BY <1>6, <1>8
<1> QED BY <1>9 DEF N

\* A path is normalised one component at a time.
LEMMA WalkSolved ==
  ASSUME NEW t, IsSeq(t)
  PROVE  \E R : /\ R[0] = <<>>
                /\ \A n \in 1..Len(t) : R[n] = Enter(R[n - 1], t[n])
                /\ NormalizeLexical(t) = R[Len(t)]
<1> DEFINE N == Len(t)
           Step(F, n) == IF n = 0 THEN <<>>
                         ELSE Enter(F[n - 1], t[n])
           done == CHOOSE F : F = [n \in 0..N |-> Step(F, n)]
           Upto(n) == \E F : F = [i \in 0..n |-> Step(F, i)]
           H == {n \in 0..N : Upto(n)}
<1>1. N \in Nat
  BY SeqFacts
<1>2. Upto(0)
  <2> DEFINE F == [i \in 0..0 |-> <<>>]
  <2>1. F = [i \in 0..0 |-> Step(F, i)]
    OBVIOUS
  <2> QED BY <2>1
<1>3. ASSUME NEW n \in 1..N, Upto(n - 1) PROVE Upto(n)
  <2>1. PICK F : F = [i \in 0..n - 1 |-> Step(F, i)]
    BY <1>3
  <2> DEFINE G == [i \in 0..n |-> IF i = n THEN Step(F, n) ELSE F[i]]
  <2>2. \A i \in 0..n : Step(G, i) = Step(F, i)
    <3> TAKE i \in 0..n
    <3>1. i # 0 => i - 1 \in 0..n /\ i - 1 # n
      OBVIOUS
    <3>2. i # 0 => G[i - 1] = F[i - 1]
      <4> HIDE DEF Step
      <4> QED BY <3>1
    <3> HIDE DEF G
    <3> QED BY <3>2
  <2>3. \A i \in 0..n : G[i] = Step(F, i)
    <3> TAKE i \in 0..n
    <3> HIDE DEF Step
    <3>1. i # n => i \in 0..n - 1
      OBVIOUS
    <3>2. i # n => F[i] = Step(F, i)
      BY <3>1, <2>1
    <3> QED BY <3>2
  <2>4. G = [i \in 0..n |-> Step(G, i)]
    <3>1. G = [i \in 0..n |-> G[i]]
      OBVIOUS
    <3> HIDE DEF G, Step
    <3> QED BY <3>1, <2>2, <2>3
  <2> HIDE DEF G, Step
  <2> QED BY <2>4
<1>4. \A n \in 0..N : n \in H
  <2> HIDE DEF Upto
  <2>1. 0 \in H /\ \A n \in 1..N : n - 1 \in H => n \in H
    BY <1>1, <1>2, <1>3
  <2> HIDE DEF H
  <2> QED BY <2>1, <1>1, InductionUpTo
<1>5. done = [n \in 0..N |-> Step(done, n)]
  <2>1. N \in 0..N
    BY <1>1
  <2> HIDE DEF Step, N
  <2>2. Upto(N)
    BY <2>1, <1>4
  <2> QED BY <2>2
<1>6. NormalizeLexical(t) = done[N]
  BY DEF NormalizeLexical
<1>7. \A n \in 0..N : done[n] = Step(done, n)
  <2> HIDE DEF Step, N, done
  <2> QED BY <1>5
<1> HIDE DEF done
<1>8. done[0] = <<>> /\ \A n \in 1..N : done[n] = Enter(done[n - 1], t[n])
  <2>1. 0 \in 0..N /\ \A n \in 1..N : n \in 0..N /\ n # 0
    BY <1>1
  <2> HIDE DEF N
  <2> QED BY <1>7, <2>1
<1> HIDE DEF N
<1>9. \E R : /\ R[0] = <<>>
             /\ \A n \in 1..N : R[n] = Enter(R[n - 1], t[n])
             /\ NormalizeLexical(t) = R[N]
  BY <1>6, <1>8
<1> QED BY <1>9 DEF N

\* The steps of Leads, and one of them.
StepsTo(source) ==
  IF IsPrefix(Root, InterpolateDefault(source)) THEN Names(InterpolateDefault(source))
  ELSE IF InHome(InterpolateDefault(source))
       THEN Names(Home) \o Names(Tail(InterpolateDefault(source)))
       ELSE Tail(BaseDir) \o Names(InterpolateDefault(source))

Taken(path, step) == CASE step = <<".">>  -> path
                       [] step = <<"..">> -> IF Len(path) = 1 THEN path ELSE Front(path)
                       [] OTHER           -> Append(path, step)

\* Leads goes one step at a time.
LEMMA LeadsSolved ==
  ASSUME NEW source, IsSeq(StepsTo(source))
  PROVE  \E R : /\ R[0] = <<Root>>
                /\ \A n \in 1..Len(StepsTo(source)) : R[n] = Taken(R[n - 1], StepsTo(source)[n])
                /\ Leads(source) = R[Len(StepsTo(source))]
<1> DEFINE N == Len(StepsTo(source))
           Step(F, n) == IF n = 0 THEN <<Root>>
                         ELSE Taken(F[n - 1], StepsTo(source)[n])
           done == CHOOSE F : F = [n \in 0..N |-> Step(F, n)]
           Upto(n) == \E F : F = [i \in 0..n |-> Step(F, i)]
           H == {n \in 0..N : Upto(n)}
<1>1. N \in Nat
  BY SeqFacts
<1>2. Upto(0)
  <2> DEFINE F == [i \in 0..0 |-> <<Root>>]
  <2>1. F = [i \in 0..0 |-> Step(F, i)]
    OBVIOUS
  <2> QED BY <2>1
<1>3. ASSUME NEW n \in 1..N, Upto(n - 1) PROVE Upto(n)
  <2>1. PICK F : F = [i \in 0..n - 1 |-> Step(F, i)]
    BY <1>3
  <2> DEFINE G == [i \in 0..n |-> IF i = n THEN Step(F, n) ELSE F[i]]
  <2>2. \A i \in 0..n : Step(G, i) = Step(F, i)
    <3> TAKE i \in 0..n
    <3>1. i # 0 => i - 1 \in 0..n /\ i - 1 # n
      OBVIOUS
    <3>2. i # 0 => G[i - 1] = F[i - 1]
      <4> HIDE DEF Step
      <4> QED BY <3>1
    <3> HIDE DEF G
    <3> QED BY <3>2
  <2>3. \A i \in 0..n : G[i] = Step(F, i)
    <3> TAKE i \in 0..n
    <3> HIDE DEF Step
    <3>1. i # n => i \in 0..n - 1
      OBVIOUS
    <3>2. i # n => F[i] = Step(F, i)
      BY <3>1, <2>1
    <3> QED BY <3>2
  <2>4. G = [i \in 0..n |-> Step(G, i)]
    <3>1. G = [i \in 0..n |-> G[i]]
      OBVIOUS
    <3> HIDE DEF G, Step
    <3> QED BY <3>1, <2>2, <2>3
  <2> HIDE DEF G, Step
  <2> QED BY <2>4
<1>4. \A n \in 0..N : n \in H
  <2> HIDE DEF Upto
  <2>1. 0 \in H /\ \A n \in 1..N : n - 1 \in H => n \in H
    BY <1>1, <1>2, <1>3
  <2> HIDE DEF H
  <2> QED BY <2>1, <1>1, InductionUpTo
<1>5. done = [n \in 0..N |-> Step(done, n)]
  <2>1. N \in 0..N
    BY <1>1
  <2> HIDE DEF Step, N
  <2>2. Upto(N)
    BY <2>1, <1>4
  <2> QED BY <2>2
<1>6. Leads(source) = done[N]
  BY DEF Leads, StepsTo, Taken
<1>7. \A n \in 0..N : done[n] = Step(done, n)
  <2> HIDE DEF Step, N, done
  <2> QED BY <1>5
<1> HIDE DEF done
<1>8. done[0] = <<Root>> /\ \A n \in 1..N : done[n] = Taken(done[n - 1], StepsTo(source)[n])
  <2>1. 0 \in 0..N /\ \A n \in 1..N : n \in 0..N /\ n # 0
    BY <1>1
  <2> HIDE DEF N
  <2> QED BY <1>7, <2>1
<1> HIDE DEF N
<1>9. \E R : /\ R[0] = <<Root>>
             /\ \A n \in 1..N : R[n] = Taken(R[n - 1], StepsTo(source)[n])
             /\ Leads(source) = R[N]
  BY <1>6, <1>8
<1> QED BY <1>9 DEF N

-----------------------------------------------------------------------------
(* The pieces of a text, and the names in a path *)

\* Pieces of which there is a last one, all of them texts.
Pieced(q) == \E x, y : /\ IsSeq(x) /\ IsSeq(y) /\ q = Append(x, y)
                       /\ \A i \in 1..Len(x) : IsSeq(x[i])

\* Reading a token keeps that.
LEMMA ReadPieced ==
  ASSUME NEW q, Pieced(q), NEW t, NEW n, NEW cuts, NEW runs
  PROVE  Pieced(ReadAt(q, t, n, cuts, runs))
<1>1. PICK x, y : /\ IsSeq(x) /\ IsSeq(y) /\ q = Append(x, y)
                  /\ \A i \in 1..Len(x) : IsSeq(x[i])
  BY DEF Pieced
<1> DEFINE r == ReadAt(q, t, n, cuts, runs)
<1>2. /\ n \notin cuts => r = Append(x, Append(y, t[n]))
      /\ n \in cuts /\ runs /\ y = <<>> => r = Append(x, y)
      /\ n \in cuts /\ ~(runs /\ y = <<>>) => r = Append(Append(x, y), <<>>)
  BY <1>1, ReadAppend
<1>3. IsSeq(Append(y, t[n])) /\ IsSeq(<<>>)
  BY <1>1, AppendFacts, SmallSeqs
<1>4. Pieced(Append(x, Append(y, t[n]))) /\ Pieced(Append(x, y))
  BY <1>1, <1>3 DEF Pieced
<1>5. Pieced(Append(Append(x, y), <<>>))
  <2> DEFINE z == Append(x, y)
  <2>1. /\ IsSeq(z) /\ Len(z) = Len(x) + 1 /\ z[Len(x) + 1] = y
        /\ \A i \in 1..Len(x) : z[i] = x[i]
    BY <1>1, AppendFacts
  <2> HIDE DEF z
  <2>2. \A i \in 1..Len(z) : i = Len(x) + 1 \/ i \in 1..Len(x)
    BY <1>1, <2>1, SeqFacts
  <2>3. \A i \in 1..Len(z) : IsSeq(z[i])
    BY <1>1, <2>1, <2>2
  <2>4. Pieced(Append(z, <<>>))
    BY <1>3, <2>1, <2>3 DEF Pieced
  <2> QED BY <2>4 DEF z
<1> QED BY <1>2, <1>4, <1>5

\* So all that is read is.
LEMMA ReadsPieced ==
  ASSUME NEW t, IsSeq(t), NEW cuts, NEW runs, NEW R, R[0] = <<<<>>>>,
         \A n \in 1..Len(t) : R[n] = ReadAt(R[n - 1], t, n, cuts, runs)
  PROVE  \A n \in 0..Len(t) : Pieced(R[n])
<1> DEFINE H == {n \in 0..Len(t) : Pieced(R[n])}
<1>1. Len(t) \in Nat
  BY SeqFacts
<1>2. Pieced(R[0])
  <2>1. IsSeq(<<>>) /\ Len(<<>>) = 0
    BY SmallSeqs
  <2>2. <<<<>>>> = Append(<<>>, <<>>)
    OBVIOUS
  <2> QED BY <2>1, <2>2 DEF Pieced
<1>3. ASSUME NEW n \in 1..Len(t), n - 1 \in H PROVE n \in H
  <2>1. Pieced(R[n - 1]) /\ n \in 0..Len(t)
    BY <1>1, <1>3
  <2>2. Pieced(R[n])
    BY <2>1, ReadPieced
  <2> QED BY <2>1, <2>2
<1>4. 0 \in H
  BY <1>1, <1>2
<1> HIDE DEF H
<1>5. \A n \in 0..Len(t) : n \in H
  BY <1>1, <1>3, <1>4, InductionUpTo
<1> QED BY <1>5 DEF H

\* Reading goes on in the last piece, whatever is before it.
LEMMA ReadJoin ==
  ASSUME NEW f, IsSeq(f), NEW q, Pieced(q), NEW t, NEW n, NEW cuts, NEW runs
  PROVE  ReadAt(f \o q, t, n, cuts, runs) = f \o ReadAt(q, t, n, cuts, runs)
<1>1. PICK x, y : IsSeq(x) /\ IsSeq(y) /\ q = Append(x, y)
  BY DEF Pieced
<1> DEFINE g == f \o x
           z == Append(y, t[n])
           e == <<>>
<1>2. IsSeq(g)
  BY <1>1, JoinFacts
<1>3. f \o q = Append(g, y)
  BY <1>1, JoinAppend
<1>4. f \o Append(x, z) = Append(g, z)
  <2> HIDE DEF z
  <2> QED BY <1>1, JoinAppend
<1>5. f \o Append(Append(x, y), e) = Append(Append(g, y), e)
  <2>1. IsSeq(q)
    BY <1>1, AppendFacts
  <2>2. f \o Append(q, e) = Append(f \o q, e)
    <3> HIDE DEF e
    <3> QED BY <2>1, JoinAppend
  <2> QED BY <2>2, <1>1, <1>3
<1> DEFINE r == ReadAt(q, t, n, cuts, runs)
           h == ReadAt(Append(g, y), t, n, cuts, runs)
<1>6. /\ n \notin cuts => r = Append(x, z)
      /\ n \in cuts /\ runs /\ y = e => r = Append(x, y)
      /\ n \in cuts /\ ~(runs /\ y = e) => r = Append(Append(x, y), e)
  BY <1>1, ReadAppend
<1> HIDE DEF g
<1>7. /\ n \notin cuts => h = Append(g, z)
      /\ n \in cuts /\ runs /\ y = e => h = Append(g, y)
      /\ n \in cuts /\ ~(runs /\ y = e) => h = Append(Append(g, y), e)
  BY <1>2, ReadAppend
<1>8. ReadAt(f \o q, t, n, cuts, runs) = h
  BY <1>3
<1>9. r = ReadAt(q, t, n, cuts, runs)
  OBVIOUS
<1> HIDE DEF e, z, r, h
<1> QED BY <1>1, <1>3, <1>4, <1>5, <1>6, <1>7, <1>8, <1>9

\* The filled pieces, whatever is before them.
LEMMA FilledJoin ==
  ASSUME NEW f, IsSeq(f), NEW q, Pieced(q)
  PROVE  Filled(f \o q) = f \o Filled(q) /\ IsSeq(Filled(q))
<1>1. PICK x, y : IsSeq(x) /\ IsSeq(y) /\ q = Append(x, y)
  BY DEF Pieced
<1> DEFINE g == f \o x
<1>2. IsSeq(g) /\ IsSeq(q)
  BY <1>1, JoinFacts, AppendFacts
<1>3. f \o q = Append(g, y)
  BY <1>1, JoinAppend
<1>4. Filled(q) = IF y = <<>> THEN x ELSE q
  BY <1>1, LastOfAppend DEF Filled
<1>5. Filled(f \o q) = IF y = <<>> THEN g ELSE f \o q
  <2> HIDE DEF g
  <2> QED BY <1>2, <1>3, LastOfAppend DEF Filled
<1> QED BY <1>1, <1>2, <1>4, <1>5

\* The positions of the slashes.
Slashes(t) == {i \in DOMAIN t : t[i] = "/"}

\* Reading the names of a text.
NameAt(pieces, t, n) == ReadAt(pieces, t, n, Slashes(t), TRUE)

\* A name ends at a slash, unless it is empty.
LEMMA NameEnds ==
  ASSUME NEW x, IsSeq(x), NEW y, NEW t, NEW n, n \in Slashes(t)
  PROVE  NameAt(Append(x, y), t, n) = IF y = <<>> THEN Append(x, y) ELSE Append(Append(x, y), <<>>)
BY LastOfAppend DEF NameAt, ReadAt, Read

\* Reading a name goes on in the last piece, whatever is before it.
LEMMA NameJoin ==
  ASSUME NEW f, IsSeq(f), NEW q, Pieced(q), NEW t, NEW n
  PROVE  NameAt(f \o q, t, n) = f \o NameAt(q, t, n)
<1> DEFINE yes == TRUE
           cuts == Slashes(t)
<1>1. /\ NameAt(f \o q, t, n) = ReadAt(f \o q, t, n, cuts, yes)
      /\ NameAt(q, t, n) = ReadAt(q, t, n, cuts, yes)
  BY DEF NameAt
<1> HIDE DEF yes, cuts
<1>2. ReadAt(f \o q, t, n, cuts, yes) = f \o ReadAt(q, t, n, cuts, yes)
  BY ReadJoin
<1> QED BY <1>1, <1>2

\* Where two texts agree, reading does not tell them apart.
LEMMA NameAlike ==
  ASSUME NEW q, NEW t, NEW u, NEW n, NEW k, t[n] = u[k], n \in Slashes(t) <=> k \in Slashes(u)
  PROVE  NameAt(q, t, n) = NameAt(q, u, k)
BY DEF NameAt, ReadAt, Read

\* There are no names in the empty text.
LEMMA NoNames == Names(<<>>) = <<>>
<1>1. IsSeq(<<>>) /\ Len(<<>>) = 0
  BY SmallSeqs
<1> DEFINE none == <<>>
           cuts == Slashes(none)
<1>2. PICK R : R[0] = <<<<>>>> /\ Pieces(none, cuts, TRUE) = R[Len(none)]
  <2> HIDE DEF cuts, none
  <2>1. IsSeq(none)
    BY <1>1 DEF none
  <2> QED BY <2>1, PiecesSolved
<1>3. Pieces(none, cuts, TRUE) = Append(<<>>, <<>>)
  <2> HIDE DEF cuts
  <2>1. <<<<>>>> = Append(<<>>, <<>>)
    OBVIOUS
  <2> QED BY <1>1, <1>2, <2>1
<1>4. Names(none) = Filled(Append(<<>>, <<>>))
  BY <1>3 DEF Names, Slashes
<1>5. Filled(Append(<<>>, <<>>)) = <<>>
  BY <1>1, LastOfAppend DEF Filled
<1> QED BY <1>4, <1>5

\* The names of a text and the reading that gives them.
LEMMA NamesSolved ==
  ASSUME NEW t, IsSeq(t)
  PROVE  \E R : /\ R[0] = <<<<>>>>
                /\ \A n \in 1..Len(t) : R[n] = NameAt(R[n - 1], t, n)
                /\ \A n \in 0..Len(t) : Pieced(R[n])
                /\ Names(t) = Filled(R[Len(t)])
<1> DEFINE cuts == Slashes(t)
<1>1. Names(t) = Filled(Pieces(t, cuts, TRUE))
  BY DEF Names, Slashes
<1> HIDE DEF cuts
<1>2. PICK R : /\ R[0] = <<<<>>>>
               /\ \A n \in 1..Len(t) : R[n] = ReadAt(R[n - 1], t, n, cuts, TRUE)
               /\ Pieces(t, cuts, TRUE) = R[Len(t)]
  BY PiecesSolved
<1>3. \A n \in 0..Len(t) : Pieced(R[n])
  BY <1>2, ReadsPieced
<1>4. /\ R[0] = <<<<>>>>
      /\ \A n \in 1..Len(t) : R[n] = NameAt(R[n - 1], t, n)
      /\ \A n \in 0..Len(t) : Pieced(R[n])
      /\ Names(t) = Filled(R[Len(t)])
  BY <1>1, <1>2, <1>3 DEF cuts, NameAt
<1> QED BY <1>4

\* Names are sequences.
LEMMA NamesAreSeq ==
  ASSUME NEW t, IsSeq(t)
  PROVE  IsSeq(Names(t))
<1>1. PICK R : (\A n \in 0..Len(t) : Pieced(R[n])) /\ Names(t) = Filled(R[Len(t)])
  BY NamesSolved
<1>2. Pieced(R[Len(t)]) /\ IsSeq(<<>>)
  <2>1. Len(t) \in 0..Len(t)
    BY SeqFacts
  <2> QED BY <1>1, <2>1, SmallSeqs
<1> QED BY <1>1, <1>2, FilledJoin

\* The names of a text that goes on with a slash are those of its two parts.
LEMMA NamesJoin ==
  ASSUME NEW a, IsSeq(a), NEW b, IsSeq(b), b # <<>>, b[1] = "/"
  PROVE  Names(a \o b) = Names(a) \o Names(b)
<1> DEFINE u == a \o b
           la == Len(a)
           lb == Len(b)
<1>1. /\ IsSeq(u) /\ Len(u) = la + lb /\ la \in Nat /\ lb \in Nat /\ lb # 0
      /\ \A i \in 1..la : u[i] = a[i]
      /\ \A i \in 1..lb : u[la + i] = b[i]
  BY SeqFacts, JoinFacts, NoElements
<1> HIDE DEF u
<1>2. PICK P : /\ P[0] = <<<<>>>>
               /\ \A n \in 1..Len(a) : P[n] = NameAt(P[n - 1], a, n)
               /\ \A n \in 0..Len(a) : Pieced(P[n])
               /\ Names(a) = Filled(P[Len(a)])
  BY NamesSolved
<1>3. PICK Q : /\ Q[0] = <<<<>>>>
               /\ \A n \in 1..Len(b) : Q[n] = NameAt(Q[n - 1], b, n)
               /\ \A n \in 0..Len(b) : Pieced(Q[n])
               /\ Names(b) = Filled(Q[Len(b)])
  BY NamesSolved
<1>4. PICK R : /\ R[0] = <<<<>>>>
               /\ \A n \in 1..Len(u) : R[n] = NameAt(R[n - 1], u, n)
               /\ \A n \in 0..Len(u) : Pieced(R[n])
               /\ Names(u) = Filled(R[Len(u)])
  BY <1>1, NamesSolved
<1>5. /\ \A i \in 1..la : i \in 1..Len(u) /\ (i \in Slashes(u) <=> i \in Slashes(a))
      /\ \A i \in 1..lb : la + i \in 1..Len(u) /\ (la + i \in Slashes(u) <=> i \in Slashes(b))
  BY <1>1, SeqFacts DEF Slashes
<1> HIDE DEF la, lb
<1>6. \A n \in 0..la : R[n] = P[n]
  <2> DEFINE H == {n \in 0..la : R[n] = P[n]}
  <2>1. 0 \in H
    BY <1>1, <1>2, <1>4
  <2>2. ASSUME NEW n \in 1..la, n - 1 \in H PROVE n \in H
    <3>1. R[n - 1] = P[n - 1] /\ n \in 1..Len(u) /\ n \in 0..la
      BY <1>1, <1>5, <2>2
    <3>2. R[n] = NameAt(R[n - 1], u, n) /\ P[n] = NameAt(P[n - 1], a, n)
      BY <1>2, <1>4, <3>1 DEF la
    <3>3. NameAt(P[n - 1], u, n) = NameAt(P[n - 1], a, n)
      BY <1>1, <1>5, NameAlike
    <3> QED BY <3>1, <3>2, <3>3
  <2> HIDE DEF H
  <2>3. \A n \in 0..la : n \in H
    BY <1>1, <2>1, <2>2, InductionUpTo
  <2> QED BY <2>3 DEF H
<1> DEFINE f == Filled(P[la])
<1>7. Pieced(P[la]) /\ IsSeq(f) /\ f = Names(a)
  <2>1. Pieced(P[la]) /\ f = Names(a)
    BY <1>1, <1>2 DEF la
  <2> QED BY <2>1, NamesAreSeq
<1>8. R[la + 1] = f \o Q[1]
  <2>1. PICK x, y : IsSeq(x) /\ IsSeq(y) /\ P[la] = Append(x, y)
    BY <1>7 DEF Pieced
  <2>2. 1 \in 1..lb /\ la + 1 \in 1..Len(u) /\ la + 1 - 1 = la /\ la \in 0..la /\ 1 - 1 = 0
    BY <1>1, <1>5
  <2>3. 1 \in Slashes(b) /\ la + 1 \in Slashes(u)
    <3>1. 1 \in DOMAIN b
      BY <2>2, SeqFacts DEF lb
    <3> QED BY <3>1, <2>2, <1>5 DEF Slashes
  <2> DEFINE k == la + 1
  <2>4. R[la + 1] = NameAt(Append(x, y), u, la + 1)
    <3>1. k \in 1..Len(u) /\ k - 1 = la /\ R[la] = Append(x, y)
      BY <1>6, <2>1, <2>2
    <3> HIDE DEF k
    <3>2. R[k] = NameAt(Append(x, y), u, k)
      BY <1>4, <3>1
    <3> QED BY <3>2 DEF k
  <2>5. IsSeq(<<>>) /\ Q[0] = Append(<<>>, <<>>)
    <3>1. <<<<>>>> = Append(<<>>, <<>>)
      OBVIOUS
    <3> QED BY <3>1, <1>3, SmallSeqs
  <2>6. Q[1] = NameAt(Append(<<>>, <<>>), b, 1)
    <3>1. Q[1] = NameAt(Q[1 - 1], b, 1)
      BY <1>3, <2>2 DEF lb
    <3> QED BY <3>1, <2>2, <2>5
  <2>7. Q[1] = Append(<<>>, <<>>)
    <3> DEFINE e == <<>>
    <3>1. Q[1] = NameAt(Append(e, e), b, 1) /\ IsSeq(e) /\ e = <<>>
      BY <2>5, <2>6
    <3> HIDE DEF e
    <3>2. Q[1] = Append(e, e)
      BY <2>3, <3>1, NameEnds
    <3> QED BY <3>2 DEF e
  <2>8. f = IF y = <<>> THEN x ELSE Append(x, y)
    BY <2>1, LastOfAppend DEF Filled
  <2>9. R[la + 1] = IF y = <<>> THEN Append(x, y) ELSE Append(Append(x, y), <<>>)
    <3>1. k \in Slashes(u) /\ R[k] = NameAt(Append(x, y), u, k)
      BY <2>3, <2>4
    <3> HIDE DEF k
    <3>2. R[k] = IF y = <<>> THEN Append(x, y) ELSE Append(Append(x, y), <<>>)
      BY <3>1, <2>1, NameEnds
    <3> QED BY <3>2 DEF k
  <2>10. R[la + 1] = Append(f, <<>>)
    BY <2>8, <2>9
  <2>11. f \o Append(<<>>, <<>>) = Append(f \o <<>>, <<>>) /\ f \o <<>> = f
    <3> HIDE DEF f
    <3> QED BY <1>7, <2>5, JoinAppend, JoinNothing
  <2> QED BY <2>7, <2>10, <2>11
<1> HIDE DEF f
<1>9. \A n \in 0..lb : n = 0 \/ R[la + n] = f \o Q[n]
  <2> DEFINE H == {n \in 0..lb : n = 0 \/ R[la + n] = f \o Q[n]}
  <2>1. 0 \in H
    BY <1>1
  <2>2. ASSUME NEW n \in 1..lb, n - 1 \in H PROVE n \in H
    <3>1. CASE n = 1
      BY <1>8, <3>1
    <3>2. CASE n # 1
      <4>1. /\ R[la + (n - 1)] = f \o Q[n - 1] /\ la + n \in 1..Len(u) /\ n - 1 \in 0..lb
        BY <1>1, <1>5, <2>2, <3>2
      <4>2. R[la + n] = NameAt(f \o Q[n - 1], u, la + n)
        <5> DEFINE k == la + n
                   p == n - 1
                   h == la + p
        <5>1. k \in 1..Len(u) /\ k - 1 = h /\ R[h] = f \o Q[p]
          <6>1. k \in 1..Len(u) /\ k - 1 = h
            BY <1>1, <4>1
          <6>2. R[h] = f \o Q[p]
            BY <4>1, Zenon
          <6> QED BY <6>1, <6>2
        <5> HIDE DEF k, p, h
        <5>2. R[k] = NameAt(f \o Q[p], u, k)
          BY <1>4, <5>1
        <5> QED BY <5>2 DEF k, p
      <4>3. Q[n] = NameAt(Q[n - 1], b, n) /\ Pieced(Q[n - 1])
        BY <1>3, <4>1 DEF lb
      <4> DEFINE q == f \o Q[n - 1]
                 k == la + n
      <4>4. NameAt(q, u, k) = NameAt(q, b, n)
        <5>1. u[k] = b[n] /\ (k \in Slashes(u) <=> n \in Slashes(b))
          BY <1>1, <1>5
        <5> HIDE DEF q, k
        <5> QED BY <5>1, NameAlike
      <4>5. NameAt(f \o Q[n - 1], b, n) = f \o NameAt(Q[n - 1], b, n)
        <5> DEFINE p == Q[n - 1]
        <5>1. Pieced(p) /\ IsSeq(f)
          BY <4>3, <1>7
        <5> HIDE DEF p
        <5>2. \A w, v : NameAt(f \o p, w, v) = f \o NameAt(p, w, v)
          BY <5>1, NameJoin
        <5> QED BY <5>2 DEF p
      <4> QED BY <4>2, <4>3, <4>4, <4>5
    <3> QED BY <3>1, <3>2
  <2> HIDE DEF H
  <2>3. \A n \in 0..lb : n \in H
    BY <1>1, <2>1, <2>2, InductionUpTo
  <2> QED BY <2>3 DEF H
<1>10. R[Len(u)] = f \o Q[lb] /\ Pieced(Q[lb])
  <2>1. lb \in 0..lb /\ lb # 0
    BY <1>1
  <2> QED BY <1>1, <1>3, <1>9, <2>1 DEF lb
<1>11. Filled(f \o Q[lb]) = f \o Filled(Q[lb])
  BY <1>7, <1>10, FilledJoin
<1>12. Names(u) = Names(a) \o Names(b)
  BY <1>3, <1>4, <1>7, <1>10, <1>11 DEF lb
<1> QED BY <1>12 DEF u

-----------------------------------------------------------------------------
(* Where a bind source leads *)

\* A path from the root.
FromRoot(p) == IsSeq(p) /\ Len(p) # 0 /\ p[1] = Root

\* A step of Leads is one of the normalisation, and stays below the root.
LEMMA StepsAgree ==
  ASSUME NEW p, FromRoot(p), NEW step
  PROVE  Enter(p, step) = Taken(p, step) /\ FromRoot(Taken(p, step))
<1>1. IsSeq(p) /\ Len(p) \in Nat /\ Len(p) # 0 /\ p[1] = Root /\ p # <<>>
  BY SeqFacts, NoElements DEF FromRoot
<1>2. p = <<Root>> <=> Len(p) = 1
  <2> DEFINE o == <<Root>>
  <2>1. IsSeq(o) /\ Len(o) = 1 /\ o[1] = Root
    BY SmallSeqs
  <2> HIDE DEF o
  <2>2. Len(p) = 1 => \A i \in 1..Len(p) : p[i] = o[i]
    BY <1>1, <2>1
  <2>3. Len(p) = 1 => p = o
    BY <1>1, <2>1, <2>2, SameSeq
  <2>4. p = o => Len(p) = 1
    BY <2>1
  <2> QED BY <2>3, <2>4 DEF o
<1>3. CASE step = <<".">>
  BY <1>3 DEF Enter, Taken
<1>4. CASE step = <<"..">>
  <2>1. step # <<".">>
    BY <1>4
  <2>2. Enter(p, step) = IF p = <<Root>> THEN p ELSE Front(p)
    BY <1>1, <1>4, <2>1 DEF Enter
  <2>3. Taken(p, step) = IF Len(p) = 1 THEN p ELSE Front(p)
    BY <1>4, <2>1 DEF Taken
  <2>4. Len(p) # 1 => FromRoot(Front(p))
    <3> DEFINE l == Len(p)
    <3>1. l # 1 => l - 1 # 0 /\ 1 \in 1..l - 1
      <4>1. l \in Nat /\ l # 0
        BY <1>1
      <4> HIDE DEF l
      <4> QED BY <4>1
    <3>2. /\ IsSeq(Front(p)) /\ Len(Front(p)) = Len(p) - 1
          /\ \A i \in 1..Len(p) - 1 : Front(p)[i] = p[i]
      BY <1>1, FrontFacts
    <3> QED BY <1>1, <3>1, <3>2 DEF FromRoot
  <2> QED BY <1>2, <2>2, <2>3, <2>4
<1>5. CASE step \notin {<<".">>, <<"..">>}
  <2>1. Enter(p, step) = Append(p, step) /\ Taken(p, step) = Append(p, step)
    BY <1>5 DEF Enter, Taken
  <2>2. FromRoot(Append(p, step))
    <3> DEFINE q == Append(p, step)
    <3>1. /\ IsSeq(q) /\ Len(q) = Len(p) + 1
          /\ \A i \in 1..Len(p) : q[i] = p[i]
      BY <1>1, AppendFacts
    <3> HIDE DEF q
    <3>2. FromRoot(q)
      BY <1>1, <3>1 DEF FromRoot
    <3> QED BY <3>2 DEF q
  <2> QED BY <2>1, <2>2
<1> QED BY <1>3, <1>4, <1>5

\* Normalising a path from the root is going along its steps.
LEMMA WalkFromRoot ==
  ASSUME NEW source, IsSeq(StepsTo(source))
  PROVE  NormalizeLexical(<<Root>> \o StepsTo(source)) = Leads(source) /\ FromRoot(Leads(source))
<1> DEFINE steps == StepsTo(source)
           o == <<Root>>
           path == o \o steps
           l == Len(steps)
<1>1. IsSeq(o) /\ Len(o) = 1 /\ o[1] = Root
  BY SmallSeqs
<1>2. PICK L : /\ L[0] = o
               /\ \A n \in 1..l : L[n] = Taken(L[n - 1], steps[n])
               /\ Leads(source) = L[l]
  BY LeadsSolved
<1> HIDE DEF steps, o
<1>3. /\ IsSeq(path) /\ Len(path) = 1 + l /\ l \in Nat /\ path[1] = Root
      /\ \A i \in 1..l : path[1 + i] = steps[i]
  <2>1. IsSeq(steps) /\ IsSeq(o)
    BY <1>1 DEF steps
  <2>2. /\ IsSeq(path) /\ Len(path) = Len(o) + Len(steps)
        /\ \A i \in 1..Len(o) : path[i] = o[i]
        /\ \A i \in 1..Len(steps) : path[Len(o) + i] = steps[i]
    BY <2>1, JoinFacts
  <2>3. l \in Nat /\ 1 \in 1..1
    BY <2>1, SeqFacts
  <2> HIDE DEF path
  <2> QED BY <1>1, <2>2, <2>3
<1> HIDE DEF path, l
<1>4. PICK N : /\ N[0] = <<>>
               /\ \A n \in 1..Len(path) : N[n] = Enter(N[n - 1], path[n])
               /\ NormalizeLexical(path) = N[Len(path)]
  BY <1>3, WalkSolved
<1>5. N[1] = o
  <2>1. 1 \in 1..Len(path) /\ 1 - 1 = 0
    BY <1>3
  <2>2. N[1] = Enter(<<>>, Root)
    <3>1. N[1] = Enter(N[1 - 1], path[1])
      BY <1>4, <2>1
    <3> QED BY <1>3, <1>4, <2>1, <3>1
  <2>3. Enter(<<>>, Root) = Append(<<>>, Root)
    BY DEF Enter, Root
  <2>4. Append(<<>>, Root) = <<Root>>
    OBVIOUS
  <2> QED BY <2>2, <2>3, <2>4 DEF o
<1> DEFINE H == {n \in 0..l : N[1 + n] = L[n] /\ FromRoot(L[n])}
<1>6. 0 \in H
  <2>1. 0 \in 0..l /\ 1 + 0 = 1
    BY <1>3
  <2> QED BY <1>1, <1>2, <1>5, <2>1 DEF FromRoot
<1>7. ASSUME NEW n \in 1..l, n - 1 \in H PROVE n \in H
  <2> DEFINE p == n - 1
             k == 1 + n
  <2>1. /\ N[1 + p] = L[p] /\ FromRoot(L[p]) /\ n \in 0..l
        /\ k \in 1..Len(path) /\ k - 1 = 1 + p /\ path[k] = steps[n]
    BY <1>3, <1>7
  <2>2. L[n] = Taken(L[p], steps[n])
    BY <1>2
  <2> HIDE DEF p, k
  <2>3. N[k] = Enter(L[p], steps[n])
    BY <1>4, <2>1
  <2>4. N[k] = L[n] /\ FromRoot(L[n])
    BY <2>1, <2>2, <2>3, StepsAgree
  <2> QED BY <2>1, <2>4 DEF k
<1> HIDE DEF H
<1>8. \A n \in 0..l : n \in H
  BY <1>3, <1>6, <1>7, InductionUpTo
<1>9. N[1 + l] = L[l] /\ FromRoot(L[l])
  <2>1. l \in H
    BY <1>3, <1>8
  <2> QED BY <2>1 DEF H
<1>10. NormalizeLexical(path) = Leads(source) /\ FromRoot(Leads(source))
  BY <1>2, <1>3, <1>4, <1>9
<1> QED BY <1>10 DEF path, o, steps

\* Beginning with one token, or with two.
LEMMA BeginsWith ==
  ASSUME NEW t, IsSeq(t), NEW c, NEW d
  PROVE  /\ IsPrefix(<<c>>, t) <=> Len(t) # 0 /\ t[1] = c
         /\ IsPrefix(<<c, d>>, t) => Len(t) > 1 /\ t[1] = c /\ t[2] = d
<1>1. Len(t) \in Nat
  BY SeqFacts
<1>2. PICK S : t \in Seq(S) /\ t \in Seq(S) /\ c \in S
  BY CommonSet
<1>3. <<c>> \in Seq(S) /\ Len(<<c>>) = 1 /\ <<c>>[1] = c
  BY <1>2
<1>4. PICK T : t \in Seq(T) /\ t \in Seq(T) /\ d \in T
  BY CommonSet
<1>5. IsPrefix(<<c>>, t) <=> Len(t) # 0 /\ t[1] = c
  <2> DEFINE o == <<c>>
             a == SubSeq(o, 1, 1)
             b == SubSeq(t, 1, 1)
  <2>1. IsPrefix(o, t) <=> 1 <= Len(t) /\ a = b
    BY <1>3 DEF IsPrefix
  <2>2. IsSeq(a) /\ Len(a) = 1 /\ a[1] = c
    <3>1. /\ IsSeq(a) /\ Len(a) = IF 1 <= 1 THEN 1 - 1 + 1 ELSE 0
          /\ \A i \in 1..1 - 1 + 1 : a[i] = o[1 + i - 1]
      <4> HIDE DEF o
      <4> QED BY PartFacts
    <3>2. a[1] = o[1 + 1 - 1]
      <4> HIDE DEF a, o
      <4> QED BY <3>1
    <3> QED BY <1>3, <3>1, <3>2
  <2>3. IsSeq(b) /\ Len(b) = 1 /\ b[1] = t[1]
    <3>1. /\ IsSeq(b) /\ Len(b) = IF 1 <= 1 THEN 1 - 1 + 1 ELSE 0
          /\ \A i \in 1..1 - 1 + 1 : b[i] = t[1 + i - 1]
      BY PartFacts
    <3> HIDE DEF b
    <3> QED BY <3>1
  <2> HIDE DEF a, b, o
  <2>4. a = b <=> c = t[1]
    <3>1. c = t[1] => \A i \in 1..Len(a) : a[i] = b[i]
      BY <2>2, <2>3
    <3> QED BY <2>2, <2>3, <3>1, SameSeq
  <2>5. IsPrefix(o, t) <=> Len(t) # 0 /\ t[1] = c
    BY <1>1, <2>1, <2>4
  <2> QED BY <2>5 DEF o
<1>6. IsPrefix(<<c, d>>, t) => Len(t) > 1 /\ t[1] = c /\ t[2] = d
  <2> DEFINE o == <<c, d>>
             a == SubSeq(o, 1, 2)
             b == SubSeq(t, 1, 2)
  <2>1. Len(o) = 2 /\ o[1] = c /\ o[2] = d
    OBVIOUS
  <2>2. IsPrefix(o, t) <=> 2 <= Len(t) /\ a = b
    BY <2>1 DEF IsPrefix
  <2> HIDE DEF o
  <2>3. \A i \in 1..2 - 1 + 1 : a[i] = o[1 + i - 1]
    BY PartFacts
  <2>4. \A i \in 1..2 - 1 + 1 : b[i] = t[1 + i - 1]
    BY PartFacts
  <2> HIDE DEF a, b
  <2>5. a[1] = c /\ a[2] = d /\ b[1] = t[1] /\ b[2] = t[2]
    BY <2>1, <2>3, <2>4
  <2>6. IsPrefix(o, t) => Len(t) > 1 /\ t[1] = c /\ t[2] = d
    BY <1>1, <2>2, <2>5
  <2> QED BY <2>6 DEF o
<1> QED BY <1>5, <1>6

\* The text with a default for its variable is a text.
LEMMA WithDefaultIsSeq ==
  ASSUME NEW before, IsSeq(before), NEW expr, IsSeq(expr), NEW both, both \subseteq Nat,
         NEW dash \in Nat, NEW after, IsSeq(after)
  PROVE  IsSeq(WithDefault(before, expr, both, dash, after))
<1> DEFINE from == IF both # {} THEN Min(both) + 2 ELSE dash + 1
           upto == Len(expr)
           default == SubSeq(expr, from, upto)
<1>1. from \in Int /\ upto \in Int
  <2>1. both # {} => Min(both) \in Nat
    BY MinFacts
  <2> QED BY <2>1, SeqFacts
<1>2. WithDefault(before, expr, both, dash, after) = before \o default \o after
  BY DEF WithDefault
<1> HIDE DEF from, upto
<1>3. IsSeq(default)
  BY <1>1, PartFacts
<1> HIDE DEF default
<1>4. IsSeq(before \o default)
  BY <1>3, JoinFacts
<1>5. IsSeq((before \o default) \o after)
  <2> DEFINE p == before \o default
  <2>1. IsSeq(p)
    BY <1>4
  <2> HIDE DEF p
  <2>2. IsSeq(p \o after)
    BY <2>1, JoinFacts
  <2> QED BY <2>2 DEF p
<1> QED BY <1>2, <1>5

\* The place of the first token of a kind.
LEMMA FirstIsNat ==
  ASSUME NEW I, I \subseteq Nat
  PROVE  (IF I # {} THEN Min(I) ELSE 0) \in Nat
<1>1. I # {} => Min(I) \in Nat
  BY MinFacts
<1> QED BY <1>1

\* interpolate_default gives a text.
LEMMA InterpolatedIsSeq ==
  ASSUME NEW t, IsSeq(t)
  PROVE  IsSeq(InterpolateDefault(t))
<1> DEFINE start == SelectInSeq(t, LAMBDA k : k = "${")
           end == SelectInSubSeq(t, start + 1, Len(t), LAMBDA k : k = "}")
           expr == SubSeq(t, start + 1, end - 1)
           both == {i \in 1..Len(expr) - 1 : expr[i] = ":" /\ expr[i + 1] = "-"}
           dash == SelectInSeq(expr, LAMBDA k : k = "-")
           before == SubSeq(t, 1, start - 1)
           after == SubSeq(t, end + 1, Len(t))
<1>1. start \in Nat
  <2> DEFINE I == {i \in 1..Len(t) : t[i] = "${"}
  <2>1. I \subseteq Nat
    <3>1. Len(t) \in Nat
      BY SeqFacts
    <3>2. 1..Len(t) \subseteq Nat
      BY <3>1
    <3> QED BY <3>2
  <2>2. start = IF I # {} THEN Min(I) ELSE 0
    BY DEF SelectInSeq
  <2> HIDE DEF I, start
  <2> QED BY <2>1, <2>2, FirstIsNat
<1>2. InterpolateDefault(t) = Interpolated(t, start, end, expr)
  BY DEF InterpolateDefault, FromBrace, Braced
<1> HIDE DEF start
<1>3. end \in Nat
  <2> DEFINE I == {i \in start + 1..Len(t) : t[i] = "}"}
  <2>1. I \subseteq Nat
    <3>1. Len(t) \in Nat
      BY SeqFacts
    <3>2. start + 1..Len(t) \subseteq Nat
      BY <1>1, <3>1
    <3> QED BY <3>2
  <2>2. end = IF I # {} THEN Min(I) ELSE 0
    BY DEF SelectInSubSeq
  <2> HIDE DEF I, end
  <2> QED BY <2>1, <2>2, FirstIsNat
<1> HIDE DEF end
<1>4. IsSeq(expr) /\ IsSeq(before) /\ IsSeq(after) /\ IsSeq(t)
  <2> DEFINE a == start + 1
             b == end - 1
             c == start - 1
             d == end + 1
             e == Len(t)
             o == 1
  <2>1. a \in Int /\ b \in Int /\ c \in Int /\ d \in Int /\ e \in Int /\ o \in Int
    BY <1>1, <1>3, SeqFacts
  <2> HIDE DEF a, b, c, d, e, o
  <2>2. IsSeq(SubSeq(t, a, b)) /\ IsSeq(SubSeq(t, o, c)) /\ IsSeq(SubSeq(t, d, e))
    BY <2>1, PartFacts
  <2> QED BY <2>2 DEF a, b, c, d, e, o
<1>5. Interpolated(t, start, end, expr) = t \/
      Interpolated(t, start, end, expr) = WithDefault(before, expr, both, dash, after)
  BY DEF Interpolated
<1> HIDE DEF expr, before, after
<1>6. dash \in Nat /\ both \subseteq Nat
  <2> DEFINE I == {i \in 1..Len(expr) : expr[i] = "-"}
  <2>1. I \subseteq Nat /\ dash = IF I # {} THEN Min(I) ELSE 0
    BY DEF SelectInSeq
  <2>2. both \subseteq Nat
    OBVIOUS
  <2> HIDE DEF I, dash
  <2> QED BY <2>1, <2>2, FirstIsNat
<1> HIDE DEF dash, both
<1>7. IsSeq(WithDefault(before, expr, both, dash, after))
  BY <1>4, <1>6, WithDefaultIsSeq
<1> QED BY <1>2, <1>4, <1>5, <1>7

\* Where a bind source of this host leads (Leads) is where resolve_source resolves it: from the
\* root, by way of the home directory, or by way of the project directory.
LEMMA ResolvesWhereItLeads ==
  ASSUME NEW source, IsSeq(source), source # NoText, ~IsWindowsAbsolute(InterpolateDefault(source))
  PROVE  ResolveSource("bind", source) = Leads(source) /\ FromRoot(Leads(source))
<1> DEFINE t == InterpolateDefault(source)
           steps == StepsTo(source)
           o == <<Root>>
<1>1. IsSeq(t)
  BY InterpolatedIsSeq
<1>2. ResolveSource("bind", source) = Resolve(ExpandTilde(t))
  BY DEF ResolveSource
<1>3. /\ IsSeq(BaseDir) /\ BaseDir # <<>> /\ BaseDir[1] = Root
      /\ IsSeq(Home) /\ (Home = <<>> \/ Home[1] = "/")
  BY PlacesAssumption, OfItsElements DEF Root
<1>4. IsSeq(o) /\ IsSeq(<<>>) /\ Len(o) = 1 /\ o[1] = Root
  BY SmallSeqs
<1>5. IsSeq(Names(t))
  BY <1>1, NamesAreSeq
<1>a. /\ IsPrefix(Root, t) <=> Len(t) # 0 /\ t[1] = "/"
      /\ InHome(t) => Len(t) # 0 /\ t[1] = "~" /\ (Tail(t) = <<>> \/ Tail(t)[1] = "/")
      /\ InHome(t) => Home # <<>> /\ t # <<>>
  <2> HIDE DEF t
  <2>1. IsPrefix(Root, t) <=> Len(t) # 0 /\ t[1] = "/"
    BY <1>1, BeginsWith DEF Root
  <2>2. IsPrefix(<<"~", "/">>, t) => Len(t) > 1 /\ t[1] = "~" /\ t[2] = "/"
    BY <1>1, BeginsWith
  <2>3. ASSUME InHome(t), t = <<"~">> PROVE Len(t) # 0 /\ t[1] = "~" /\ Tail(t) = <<>>
    BY <2>3
  <2>4. ASSUME InHome(t), IsPrefix(<<"~", "/">>, t)
        PROVE  Len(t) # 0 /\ t[1] = "~" /\ Tail(t)[1] = "/"
    <3>1. Len(t) \in Nat /\ Len(t) > 1 /\ t[1] = "~" /\ t[2] = "/"
      BY <1>1, <2>2, <2>4, SeqFacts
    <3>2. t # <<>> /\ Len(t) # 0 /\ 1 \in 1..Len(t) - 1 /\ 1 + 1 = 2
      BY <1>1, <3>1, NoElements
    <3>3. Tail(t)[1] = t[1 + 1]
      BY <1>1, <3>2, TailFacts
    <3> QED BY <3>1, <3>2, <3>3
  <2>5. InHome(t) => Home # <<>> /\ (t = <<"~">> \/ IsPrefix(<<"~", "/">>, t))
    BY DEF InHome
  <2>6. InHome(t) => Len(t) # 0 /\ t[1] = "~" /\ (Tail(t) = <<>> \/ Tail(t)[1] = "/")
    BY <2>3, <2>4, <2>5
  <2>7. InHome(t) => t # <<>>
    BY <1>1, <2>6, NoElements
  <2> QED BY <2>1, <2>5, <2>6, <2>7
<1>6. /\ IsPrefix(Root, t) => steps = Names(t)
      /\ ~IsPrefix(Root, t) /\ InHome(t) => steps = Names(Home) \o Names(Tail(t))
      /\ ~IsPrefix(Root, t) /\ ~InHome(t) => steps = Tail(BaseDir) \o Names(t)
  BY DEF StepsTo
<1>7. ~IsWindowsAbsolute(t)
  OBVIOUS
<1> HIDE DEF t, o
<1>8. \A q : IsPrefix(Root, q) => Components(q) = o \o Names(q)
  BY DEF Components, o
<1>9. \A q : IsSeq(q) => <<>> \o q = q
  BY JoinNothing
<1> HIDE DEF steps
<1>10. IsSeq(steps) /\ Resolve(ExpandTilde(t)) = NormalizeLexical(o \o steps)
  <2>1. CASE IsPrefix(Root, t)
    <3>1. ~InHome(t) /\ steps = Names(t)
      BY <1>a, <1>6, <2>1
    <3>2. ExpandTilde(t) = t
      BY <3>1 DEF ExpandTilde
    <3>3. Resolve(t) = NormalizeLexical(<<>> \o (o \o steps))
      BY <1>8, <2>1, <3>1 DEF Resolve
    <3>4. IsSeq(o \o steps)
      BY <1>4, <1>5, <3>1, JoinFacts
    <3> QED BY <1>5, <1>9, <3>1, <3>2, <3>3, <3>4
  <2>2. CASE ~IsPrefix(Root, t) /\ InHome(t)
    <3> DEFINE rest == Tail(t)
               q == Home \o rest
    <3>1. IsSeq(rest) /\ (rest = <<>> \/ rest[1] = "/") /\ Home # <<>> /\ Home[1] = "/"
      BY <1>1, <1>3, <1>a, <2>2, TailFacts
    <3>2. ExpandTilde(t) = q
      BY <2>2 DEF ExpandTilde
    <3>s. steps = Names(Home) \o Names(rest)
      BY <1>6, <2>2
    <3> HIDE DEF rest
    <3>3. IsSeq(q) /\ Len(q) # 0 /\ q[1] = "/"
      <4>1. /\ IsSeq(q) /\ Len(q) = Len(Home) + Len(rest)
            /\ \A i \in 1..Len(Home) : q[i] = Home[i]
        BY <1>3, <3>1, JoinFacts
      <4>2. Len(Home) \in Nat /\ Len(rest) \in Nat /\ Len(Home) # 0
        BY <1>3, <3>1, SeqFacts, NoElements
      <4>3. 1 \in 1..Len(Home)
        BY <4>2
      <4> HIDE DEF q
      <4> QED BY <3>1, <4>1, <4>2, <4>3
    <3>4. IsSeq(Names(Home)) /\ IsSeq(Names(rest))
      BY <1>3, <3>1, NamesAreSeq
    <3>5. Names(q) = Names(Home) \o Names(rest)
      <4>1. CASE rest = <<>>
        <5>1. q = Home
          BY <1>3, <4>1, JoinNothing
        <5>2. Names(rest) = <<>>
          BY <4>1, NoNames
        <5>3. Names(Home) \o <<>> = Names(Home)
          BY <3>4, JoinNothing
        <5> QED BY <5>1, <5>2, <5>3
      <4>2. CASE rest # <<>>
        BY <1>3, <3>1, <4>2, NamesJoin
      <4> QED BY <4>1, <4>2
    <3> HIDE DEF q
    <3>6. IsPrefix(Root, q)
      BY <3>3, BeginsWith DEF Root
    <3>7. Resolve(q) = NormalizeLexical(<<>> \o (o \o Names(q)))
      BY <1>8, <3>6 DEF Resolve
    <3>8. Names(q) = steps
      BY <3>s, <3>5
    <3>9. IsSeq(steps) /\ IsSeq(o \o steps)
      BY <1>4, <3>3, <3>8, NamesAreSeq, JoinFacts
    <3> QED BY <1>9, <3>2, <3>7, <3>8, <3>9
  <2>3. CASE ~IsPrefix(Root, t) /\ ~InHome(t)
    <3> DEFINE rest == Tail(BaseDir)
               names == Names(t)
    <3>1. IsSeq(rest) /\ IsSeq(names) /\ steps = rest \o names
      BY <1>3, <1>5, <1>6, <2>3, TailFacts
    <3>2. ExpandTilde(t) = t
      BY <2>3 DEF ExpandTilde
    <3>3. Components(t) = <<>> \o names
      BY <2>3 DEF Components
    <3>4. Resolve(t) = NormalizeLexical(BaseDir \o Components(t))
      BY <1>7, <2>3 DEF Resolve
    <3>5. BaseDir = o \o rest
      <4> DEFINE p == o \o rest
      <4>1. /\ IsSeq(rest) /\ Len(rest) = Len(BaseDir) - 1 /\ Len(BaseDir) # 0
            /\ \A i \in 1..Len(BaseDir) - 1 : rest[i] = BaseDir[i + 1]
        BY <1>3, TailFacts
      <4> HIDE DEF rest
      <4>2. /\ IsSeq(p) /\ Len(p) = Len(o) + Len(rest)
            /\ \A i \in 1..Len(o) : p[i] = o[i]
            /\ \A i \in 1..Len(rest) : p[Len(o) + i] = rest[i]
        <5>1. IsSeq(o) /\ IsSeq(rest)
          BY <1>4, <4>1
        <5> QED BY <5>1, JoinFacts
      <4> HIDE DEF p
      <4>3. Len(BaseDir) \in Nat
        BY <1>3, SeqFacts
      <4>4. Len(p) = Len(BaseDir) /\ p[1] = Root
        <5>1. 1 \in 1..1
          OBVIOUS
        <5> QED BY <1>4, <4>1, <4>2, <4>3, <5>1
      <4>5. ASSUME NEW i \in 1..Len(BaseDir), i # 1 PROVE p[i] = BaseDir[i]
        <5> DEFINE j == i - 1
        <5>1. j \in 1..Len(BaseDir) - 1 /\ 1 + j = i /\ j + 1 = i
          BY <4>3, <4>5
        <5> HIDE DEF j
        <5>2. p[1 + j] = rest[j] /\ rest[j] = BaseDir[j + 1]
          BY <1>4, <4>1, <4>2, <5>1
        <5> QED BY <5>1, <5>2
      <4>6. \A i \in 1..Len(p) : p[i] = BaseDir[i]
        BY <1>3, <4>4, <4>5
      <4>7. p = BaseDir
        BY <1>3, <4>2, <4>4, <4>6, SameSeq
      <4> QED BY <4>7 DEF p
    <3> HIDE DEF rest, names
    <3>6. (o \o rest) \o names = o \o (rest \o names)
      <4>1. IsSeq(o) /\ IsSeq(rest) /\ IsSeq(names)
        BY <1>4, <3>1
      <4> QED BY <4>1, JoinThree
    <3>7. IsSeq(steps)
      BY <3>1, JoinFacts
    <3>8. <<>> \o names = names
      BY <3>1, JoinNothing
    <3> QED BY <3>1, <3>2, <3>3, <3>4, <3>5, <3>6, <3>7, <3>8
  <2> QED BY <2>1, <2>2, <2>3
<1>11. NormalizeLexical(<<Root>> \o StepsTo(source)) = Leads(source) /\ FromRoot(Leads(source))
  BY <1>10, WalkFromRoot DEF steps
<1> QED BY <1>2, <1>10, <1>11 DEF o, steps

-----------------------------------------------------------------------------
(* Every bind that was read is a mount of the scan, or its entry is refused *)

\* One more token of a text.
LEMMA PartGrows ==
  ASSUME NEW t, NEW n \in Nat, n # 0
  PROVE  SubSeq(t, 1, n) = Append(SubSeq(t, 1, n - 1), t[n])
<1> DEFINE p == SubSeq(t, 1, n - 1)
           q == SubSeq(t, 1, n)
           r == Append(p, t[n])
<1>1. 1 \in Int /\ n - 1 \in Int /\ n \in Int /\ 1 <= n /\ (1 <= n - 1 <=> n # 1)
  OBVIOUS
<1>2. /\ IsSeq(p) /\ Len(p) = IF 1 <= n - 1 THEN n - 1 - 1 + 1 ELSE 0
      /\ \A i \in 1..n - 1 - 1 + 1 : p[i] = t[1 + i - 1]
  BY <1>1, PartFacts
<1>3. /\ IsSeq(q) /\ Len(q) = IF 1 <= n THEN n - 1 + 1 ELSE 0
      /\ \A i \in 1..n - 1 + 1 : q[i] = t[1 + i - 1]
  BY <1>1, PartFacts
<1> HIDE DEF p, q
<1>4. Len(p) = n - 1 /\ Len(q) = n
  BY <1>1, <1>2, <1>3
<1>5. /\ IsSeq(r) /\ Len(r) = Len(p) + 1 /\ r[Len(p) + 1] = t[n]
      /\ \A i \in 1..Len(p) : r[i] = p[i]
  BY <1>2, AppendFacts
<1> HIDE DEF r
<1>6. ASSUME NEW i \in 1..Len(q) PROVE q[i] = r[i]
  <2>1. q[i] = t[i]
    BY <1>3, <1>4, <1>6
  <2>2. CASE i = n
    BY <1>4, <1>5, <2>1, <2>2
  <2>3. CASE i # n
    BY <1>2, <1>4, <1>5, <2>1, <2>3
  <2> QED BY <2>2, <2>3
<1>7. q = r
  BY <1>1, <1>3, <1>4, <1>5, <1>6, SameSeq
<1> QED BY <1>7 DEF p, q, r

\* Where no run of separators counts as one, the first piece of a text is what is before its
\* first cut.
LEMMA FirstPiece ==
  ASSUME NEW t, IsSeq(t), NEW cuts, NEW runs,
         \A x, y, n : n \in cuts => ReadAt(Append(x, y), t, n, cuts, runs) = Append(Append(x, y), <<>>),
         NEW k \in 1..Len(t), k \in cuts, \A i \in 1..k - 1 : i \notin cuts,
         NEW q, q = Pieces(t, cuts, runs)
  PROVE  Len(q) \in Nat /\ Len(q) >= 2 /\ q[1] = SubSeq(t, 1, k - 1)
<1> DEFINE e == <<>>
           Part(n) == SubSeq(t, 1, n)
           Begun(p) == \E x, y : IsSeq(x) /\ Len(x) >= 1 /\ x[1] = Part(k - 1) /\ p = Append(x, y)
<1>1. PICK R : /\ R[0] = <<<<>>>>
               /\ \A n \in 1..Len(t) : R[n] = ReadAt(R[n - 1], t, n, cuts, runs)
               /\ Pieces(t, cuts, runs) = R[Len(t)]
  BY PiecesSolved
<1>2. Len(t) \in Nat /\ k \in Nat /\ k # 0 /\ k - 1 \in Nat /\ IsSeq(e) /\ Len(e) = 0
  <2>1. IsSeq(e) /\ Len(e) = 0
    BY SmallSeqs
  <2>2. Len(t) \in Nat
    BY SeqFacts
  <2> HIDE DEF e
  <2> QED BY <2>1, <2>2
<1>3. Part(0) = e
  <2>1. 1 \in Int /\ 0 \in Int /\ ~(1 <= 0)
    OBVIOUS
  <2>2. IsSeq(Part(0)) /\ Len(Part(0)) = IF 1 <= 0 THEN 0 - 1 + 1 ELSE 0
    BY <2>1, PartFacts
  <2> HIDE DEF Part
  <2> QED BY <2>1, <2>2, NoElements
<1>4. \A n \in Nat : n # 0 => Part(n) = Append(Part(n - 1), t[n])
  BY PartGrows
<1>5. R[0] = Append(e, e)
  BY <1>1
<1> HIDE DEF e, Part
<1>6. \A n \in 0..k - 1 : R[n] = Append(e, Part(n))
  <2> DEFINE H == {n \in 0..k - 1 : R[n] = Append(e, Part(n))}
  <2>1. 0 \in H
    BY <1>2, <1>3, <1>5
  <2>2. ASSUME NEW n \in 1..k - 1, n - 1 \in H PROVE n \in H
    <3>1. /\ R[n - 1] = Append(e, Part(n - 1)) /\ n \in 1..Len(t) /\ n \notin cuts
          /\ n \in 0..k - 1 /\ n \in Nat /\ n # 0
      BY <1>2, <2>2
    <3> DEFINE y == Part(n - 1)
    <3>2. R[n] = ReadAt(Append(e, y), t, n, cuts, runs)
      BY <1>1, <3>1
    <3> HIDE DEF y
    <3>3. R[n] = Append(e, Append(y, t[n]))
      <4>1. LET r == ReadAt(Append(e, y), t, n, cuts, runs)
            IN  n \notin cuts => r = Append(e, Append(y, t[n]))
        <5>1. IsSeq(e)
          BY <1>2
        <5> QED BY <5>1, ReadAppend
      <4> QED BY <3>1, <3>2, <4>1
    <3> USE DEF y
    <3> QED BY <1>4, <3>1, <3>3
  <2> HIDE DEF H
  <2>3. \A n \in 0..k - 1 : n \in H
    BY <1>2, <2>1, <2>2, InductionUpTo
  <2> QED BY <2>3 DEF H
<1>7. ASSUME NEW p, Begun(p), NEW n PROVE Begun(ReadAt(p, t, n, cuts, runs))
  <2>1. PICK x, y : IsSeq(x) /\ Len(x) >= 1 /\ x[1] = Part(k - 1) /\ p = Append(x, y)
    BY <1>7
  <2> DEFINE z == Append(x, y)
  <2>2. /\ IsSeq(z) /\ Len(z) = Len(x) + 1 /\ \A i \in 1..Len(x) : z[i] = x[i]
    BY <2>1, AppendFacts
  <2>3. Len(x) \in Nat /\ 1 \in 1..Len(x)
    BY <2>1, SeqFacts
  <2>4. Len(z) >= 1 /\ z[1] = Part(k - 1)
    BY <2>1, <2>2, <2>3
  <2>5. LET r == ReadAt(Append(x, y), t, n, cuts, runs)
        IN  \/ r = Append(x, Append(y, t[n]))
            \/ r = Append(Append(x, y), <<>>)
    BY <2>1, ReadAppend
  <2>6. \A w : Begun(Append(x, w)) /\ Begun(Append(z, w))
    <3> HIDE DEF z
    <3> QED BY <2>1, <2>2, <2>4
  <2> HIDE DEF Begun
  <2> QED BY <2>1, <2>5, <2>6
<1>8. Begun(R[k])
  <2> DEFINE x == Append(e, Part(k - 1))
  <2>1. k - 1 \in 0..k - 1
    BY <1>2
  <2>2. R[k] = ReadAt(x, t, k, cuts, runs)
    BY <1>1, <1>6, <2>1
  <2>3. R[k] = Append(x, <<>>)
    BY <2>2
  <2>4. IsSeq(x) /\ Len(x) = 1 /\ x[1] = Part(k - 1)
    <3>1. IsSeq(x) /\ Len(x) = Len(e) + 1 /\ x[Len(e) + 1] = Part(k - 1)
      BY <1>2, AppendFacts
    <3> HIDE DEF x
    <3> QED BY <1>2, <3>1
  <2> HIDE DEF x
  <2> QED BY <2>3, <2>4
<1> HIDE DEF Begun
<1>9. \A n \in 0..Len(t) : n < k \/ Begun(R[n])
  <2> DEFINE H == {n \in 0..Len(t) : n < k \/ Begun(R[n])}
  <2>1. 0 \in H
    BY <1>2
  <2>2. ASSUME NEW n \in 1..Len(t), n - 1 \in H PROVE n \in H
    <3>1. n \in 0..Len(t) /\ (n < k \/ n = k \/ ~(n - 1 < k))
      BY <1>2
    <3>2. CASE ~(n - 1 < k)
      BY <1>1, <1>7, <2>2, <3>1, <3>2
    <3> QED BY <1>8, <3>1, <3>2
  <2> HIDE DEF H
  <2>3. \A n \in 0..Len(t) : n \in H
    BY <1>2, <2>1, <2>2, InductionUpTo
  <2> QED BY <2>3 DEF H
<1>10. Begun(q)
  BY <1>1, <1>2, <1>9
<1>11. PICK x, y : IsSeq(x) /\ Len(x) >= 1 /\ x[1] = Part(k - 1) /\ q = Append(x, y)
  BY <1>10 DEF Begun
<1>12. Len(q) = Len(x) + 1 /\ \A i \in 1..Len(x) : q[i] = x[i]
  BY <1>11, AppendFacts
<1>13. Len(x) \in Nat /\ 1 \in 1..Len(x)
  BY <1>11, SeqFacts
<1> QED BY <1>11, <1>12, <1>13 DEF Part

\* The source of a short bind is the first of its parts, and is taken for a path.
LEMMA ShortBinds ==
  ASSUME NEW item, item.form = "short", IsSeq(item.text), NEW source \in BindSources(item),
         NEW parts, parts = SplitShortVolume(item.text)
  PROVE  /\ Len(parts) \in Nat /\ Len(parts) >= 2 /\ parts[1] = source
         /\ ShortKind(source) = "bind" /\ source # NoText /\ IsSeq(source)
<1> DEFINE t == item.text
           cuts == {i \in DOMAIN t : t[i] = ":" /\ ~(i = 2 /\ t[1] \in Letters)}
           no == FALSE
<1>1. PICK k \in 2..Len(t) : /\ source = SubSeq(t, 1, k - 1)
                             /\ t[1] \in Dotted \cup {"/", "~"} /\ t[k] = ":"
                             /\ \A i \in 1..k - 1 : t[i] # ":"
  BY DEF BindSources
<1>2. Len(t) \in Nat /\ DOMAIN t = 1..Len(t)
  BY SeqFacts
<1>3. t[1] \notin Letters
  BY <1>1, TokensAssumption
<1>4. k \in 1..Len(t) /\ k \in cuts /\ \A i \in 1..k - 1 : i \notin cuts
  BY <1>1, <1>2, <1>3
<1>5. parts = Pieces(t, cuts, no)
  BY DEF SplitShortVolume
<1> HIDE DEF cuts, no, t
<1>6. Len(parts) \in Nat /\ Len(parts) >= 2 /\ parts[1] = SubSeq(t, 1, k - 1)
  <2>1. IsSeq(t)
    BY DEF t
  <2>2. \A x, y, n : n \in cuts => ReadAt(Append(x, y), t, n, cuts, no) = Append(Append(x, y), <<>>)
    BY DEF ReadAt, Read, no
  <2> QED BY <1>4, <1>5, <2>1, <2>2, FirstPiece
<1>7. IsSeq(source) /\ Len(source) = k - 1 /\ source[1] = t[1]
  <2>1. 1 \in Int /\ k - 1 \in Int /\ 1 <= k - 1
    BY <1>1, <1>2
  <2>2. /\ IsSeq(source) /\ Len(source) = IF 1 <= k - 1 THEN k - 1 - 1 + 1 ELSE 0
        /\ \A i \in 1..k - 1 - 1 + 1 : source[i] = t[1 + i - 1]
    BY <1>1, <2>1, PartFacts
  <2>3. 1 \in 1..k - 1 - 1 + 1 /\ 1 + 1 - 1 = 1 /\ k - 1 - 1 + 1 = k - 1
    BY <1>1, <1>2, <2>1
  <2> QED BY <2>1, <2>2, <2>3
<1>8. source # <<>> /\ source # NoText
  <2>1. NoText[1] = "(none)" /\ "(none)" # "/" /\ "(none)" # "~"
    BY DEF NoText
  <2>2. source # NoText
    BY <1>1, <1>7, <2>1, TokensAssumption
  <2> QED BY <1>1, <1>2, <1>7, <2>2, NoElements
<1>9. ShortKind(source) = "bind"
  BY <1>1, <1>7, <1>8 DEF ShortKind, LooksLikeHostPath
<1> QED BY <1>1, <1>6, <1>7, <1>8, <1>9

\* An entry that Compose binds is refused, or is a bind of that source.
LEMMA EntryBinds ==
  ASSUME NEW at, NEW item, ItemGood(item), NEW source \in BindSources(item)
  PROVE  /\ source # NoText /\ IsSeq(source)
         /\ \/ \E id : /\ Diagnostic(id, "error", at) \in Refusals(at)
                       /\ \A scan : ParseMount(scan, at, item) = WithDiagnostic(scan, id, "error", at)
            \/ \E target, readOnly : \A scan :
                 ParseMount(scan, at, item) = WithMount(scan, at, "bind", source, target, readOnly)
<1>1. CASE item.form = "short"
  <2> DEFINE parts == SplitShortVolume(item.text)
  <2>1. /\ Len(parts) \in Nat /\ Len(parts) >= 2 /\ parts[1] = source
        /\ ShortKind(source) = "bind" /\ source # NoText /\ IsSeq(source)
    BY <1>1, ShortBinds DEF ItemGood
  <2>2. \A scan : ParseMount(scan, at, item) = ParseShortMount(scan, at, parts)
    BY <1>1 DEF ParseMount
  <2> HIDE DEF parts
  <2>3. CASE Len(parts) \notin {2, 3}
    <3>0. Len(parts) \notin {1, 2, 3}
      <4> DEFINE n == Len(parts)
      <4>1. n \in Nat /\ n >= 2
        BY <2>1
      <4>2. n # 1
        <5> HIDE DEF n
        <5> QED BY <4>1
      <4> QED BY <2>3, <4>2
    <3>1. \A scan : ParseShortMount(scan, at, parts)
                      = WithDiagnostic(scan, "compose_invalid_short_mount", "error", at)
      BY <3>0 DEF ParseShortMount
    <3>2. Diagnostic("compose_invalid_short_mount", "error", at) \in Refusals(at)
      BY DEF Refusals
    <3> QED BY <2>1, <2>2, <3>1, <3>2, Zenon
  <2>4. CASE Len(parts) \in {2, 3}
    <3> DEFINE readOnly == Len(parts) = 3 /\ \E k \in {"ro", "readonly"} : HasToken(parts[3], k)
    <3>1. \A scan : ParseShortMount(scan, at, parts)
                      = WithMount(scan, at, ShortKind(parts[1]), parts[1], parts[2], readOnly)
      BY <2>4 DEF ParseShortMount
    <3> HIDE DEF readOnly
    <3>2. \A scan : ParseMount(scan, at, item)
                      = WithMount(scan, at, "bind", source, parts[2], readOnly)
      BY <2>1, <2>2, <3>1
    <3> QED BY <2>1, <3>2, Zenon
  <2> QED BY <2>3, <2>4
<1>2. CASE item.form = "long"
  <2>1. item.type = "bind" /\ source = item.source /\ source # NoText /\ IsSeq(source)
    BY <1>2 DEF BindSources, ItemGood
  <2>2. CASE item.target = NoText
    <3>1. \A scan : ParseMount(scan, at, item)
                      = WithDiagnostic(scan, "compose_mount_missing_target", "error", at)
      BY <1>2, <2>2 DEF ParseMount
    <3>2. Diagnostic("compose_mount_missing_target", "error", at) \in Refusals(at)
      BY DEF Refusals
    <3> QED BY <2>1, <3>1, <3>2, Zenon
  <2>3. CASE item.target # NoText
    <3>1. LongKind(item.type, item.source) = "bind"
      BY <2>1 DEF LongKind
    <3>2. \A scan : ParseMount(scan, at, item)
                      = WithMount(scan, at, "bind", source, item.target, item.readOnly)
      BY <1>2, <2>1, <2>3, <3>1 DEF ParseMount
    <3> QED BY <2>1, <3>2, Zenon
  <2> QED BY <2>2, <2>3
<1>3. CASE item.form # "short" /\ item.form # "long"
  BY <1>3 DEF BindSources
<1> QED BY <1>1, <1>2, <1>3

\* A scan as parsing leaves it.
Parsed(sc) == ScanShape(sc) /\ IsSeq(sc.mounts)

\* Nothing that was found is lost.
Grows(sc, r) == sc.diagnostics \subseteq r.diagnostics /\ \A m : MountOf(m, sc) => MountOf(m, r)

\* A bind is a mount of the scan, or its entry is refused.
Accounted(sc, at, source) ==
  \/ Refusals(at) \cap sc.diagnostics # {}
  \/ \E m : MountOf(m, sc) /\ m.id = at /\ m.kind = "bind" /\ m.resolved = ResolveSource("bind", source)

\* It stays so.
LEMMA AccountedStays ==
  ASSUME NEW sc, NEW r, Grows(sc, r), NEW at, NEW source, Accounted(sc, at, source)
  PROVE  Accounted(r, at, source)
<1>1. CASE Refusals(at) \cap sc.diagnostics # {}
  <2>1. Refusals(at) \cap r.diagnostics # {}
    BY <1>1 DEF Grows
  <2> QED BY <2>1 DEF Accounted
<1>2. CASE \E m : /\ MountOf(m, sc) /\ m.id = at /\ m.kind = "bind"
                  /\ m.resolved = ResolveSource("bind", source)
  <2>1. \E m : /\ MountOf(m, r) /\ m.id = at /\ m.kind = "bind"
               /\ m.resolved = ResolveSource("bind", source)
    BY <1>2 DEF Grows
  <2> QED BY <2>1 DEF Accounted
<1> QED BY <1>1, <1>2 DEF Accounted

\* Growing again.
LEMMA GrowsOn ==
  ASSUME NEW p, NEW q, NEW r, Grows(p, q), Grows(q, r)
  PROVE  Grows(p, r)
BY DEF Grows

\* A diagnostic is added.
LEMMA DiagnosticGrows ==
  ASSUME NEW sc, Parsed(sc), NEW id, NEW severity, NEW at,
         NEW r, r = WithDiagnostic(sc, id, severity, at)
  PROVE  Parsed(r) /\ Grows(sc, r) /\ Diagnostic(id, severity, at) \in r.diagnostics
<1>1. PICK a, b, c, d : sc = [services |-> a, mounts |-> b, correlations |-> c, diagnostics |-> d]
  BY DEF Parsed, ScanShape
<1>2. r = [services |-> a, mounts |-> b, correlations |-> c,
           diagnostics |-> d \cup {Diagnostic(id, severity, at)}]
  BY <1>1 DEF WithDiagnostic
<1>3. sc.diagnostics \subseteq r.diagnostics /\ Diagnostic(id, severity, at) \in r.diagnostics
  BY <1>1, <1>2
<1>4. ScanShape(r) /\ r.mounts = sc.mounts
  BY <1>1, <1>2 DEF ScanShape
<1> QED BY <1>3, <1>4 DEF Parsed, Grows, MountOf

\* A mount is added.
LEMMA MountGrows ==
  ASSUME NEW sc, Parsed(sc), NEW at, NEW kind, NEW source, NEW target, NEW readOnly,
         NEW r, r = WithMount(sc, at, kind, source, target, readOnly)
  PROVE  Parsed(r) /\ Grows(sc, r) /\ MountOf(MountRecord(at, kind, source, target, readOnly), r)
<1> DEFINE m == MountRecord(at, kind, source, target, readOnly)
           n == Len(sc.mounts) + 1
<1>1. ScanShape(r) /\ r.mounts = Append(sc.mounts, m)
  BY MountAdds DEF Parsed
<1>2. r.diagnostics = sc.diagnostics
  <2>1. PICK a, b, c, d : sc = [services |-> a, mounts |-> b, correlations |-> c, diagnostics |-> d]
    BY DEF Parsed, ScanShape
  <2>2. r = [sc EXCEPT !.mounts = Append(@, m)]
    BY Zenon DEF WithMount, MountRecord
  <2> HIDE DEF m
  <2>3. r.diagnostics = d
    BY <2>1, <2>2
  <2> QED BY <2>1, <2>3
<1> HIDE DEF m
<1>3. IsSeq(sc.mounts) /\ Len(sc.mounts) \in Nat
  BY SeqFacts DEF Parsed
<1>4. /\ IsSeq(r.mounts) /\ Len(r.mounts) = n /\ r.mounts[n] = m
      /\ \A i \in 1..Len(sc.mounts) : r.mounts[i] = sc.mounts[i]
  BY <1>1, <1>3, AppendFacts
<1>5. n \in 1..n /\ 1..Len(sc.mounts) \subseteq 1..n
  BY <1>3
<1> HIDE DEF n
<1> QED BY <1>1, <1>2, <1>4, <1>5 DEF Parsed, Grows, MountOf, m

\* An entry adds to the scan, and what Compose binds for it is accounted for.
LEMMA EntryGrows ==
  ASSUME NEW sc, Parsed(sc), NEW at, NEW item, ItemGood(item), NEW r, r = ParseMount(sc, at, item)
  PROVE  /\ Parsed(r) /\ Grows(sc, r)
         /\ \A source \in BindSources(item) : Accounted(r, at, source)
<1>1. Parsed(r) /\ Grows(sc, r)
  <2>1. ASSUME NEW id, NEW severity,
               \A scan : ParseMount(scan, at, item) = WithDiagnostic(scan, id, severity, at)
        PROVE  Parsed(r) /\ Grows(sc, r)
    BY <2>1, DiagnosticGrows
  <2>2. ASSUME NEW kind, NEW source, NEW target, NEW readOnly,
               \A scan : ParseMount(scan, at, item)
                           = WithMount(scan, at, kind, source, target, readOnly)
        PROVE  Parsed(r) /\ Grows(sc, r)
    BY <2>2, MountGrows
  <2>3. CASE \E id, severity : \A scan :
               ParseMount(scan, at, item) = WithDiagnostic(scan, id, severity, at)
    BY <2>1, <2>3, Zenon
  <2>4. CASE \E kind, source, target, readOnly : \A scan :
               ParseMount(scan, at, item) = WithMount(scan, at, kind, source, target, readOnly)
    BY <2>2, <2>4, Zenon
  <2> QED BY <2>3, <2>4, EntryIsEither, Zenon
<1>2. ASSUME NEW source \in BindSources(item) PROVE Accounted(r, at, source)
  <2>1. ASSUME NEW id, Diagnostic(id, "error", at) \in Refusals(at),
               \A scan : ParseMount(scan, at, item) = WithDiagnostic(scan, id, "error", at)
        PROVE  Accounted(r, at, source)
    <3>1. r = WithDiagnostic(sc, id, "error", at)
      BY <2>1
    <3>2. Diagnostic(id, "error", at) \in r.diagnostics
      BY <3>1, DiagnosticGrows
    <3> QED BY <2>1, <3>2 DEF Accounted
  <2>2. ASSUME NEW target, NEW readOnly,
               \A scan : ParseMount(scan, at, item)
                           = WithMount(scan, at, "bind", source, target, readOnly)
        PROVE  Accounted(r, at, source)
    <3> DEFINE m == MountRecord(at, "bind", source, target, readOnly)
    <3>1. r = WithMount(sc, at, "bind", source, target, readOnly)
      BY <2>2
    <3>2. MountOf(m, r)
      BY <3>1, MountGrows
    <3>3. m.id = at /\ m.kind = "bind" /\ m.resolved = ResolveSource("bind", source)
      BY DEF MountRecord
    <3> HIDE DEF m
    <3> QED BY <3>2, <3>3 DEF Accounted
  <2>3. \/ \E id : /\ Diagnostic(id, "error", at) \in Refusals(at)
                   /\ \A scan : ParseMount(scan, at, item) = WithDiagnostic(scan, id, "error", at)
        \/ \E target, readOnly : \A scan :
             ParseMount(scan, at, item) = WithMount(scan, at, "bind", source, target, readOnly)
    BY EntryBinds
  <2> QED BY <2>1, <2>2, <2>3, Zenon
<1> QED BY <1>1, <1>2

\* What Compose binds for the entries of a service is accounted for.
ServiceAccounted(sc, f, name, items) ==
  \A n \in 1..Len(items) : \A source \in BindSources(items[n]) :
    Accounted(sc, <<f, name, n>>, source)

\* So it is when its volumes are parsed.
LEMMA VolumesAccounted ==
  ASSUME NEW sc, Parsed(sc), NEW f, NEW name, NEW volumes, IsSeq(volumes.items),
         \A n \in 1..Len(volumes.items) : ItemGood(volumes.items[n]),
         NEW r, r = ParseVolumes(sc, f, name, volumes)
  PROVE  /\ Parsed(r) /\ Grows(sc, r)
         /\ volumes.form # "invalid" => ServiceAccounted(r, f, name, volumes.items)
<1> DEFINE items == volumes.items
           N == Len(items)
           At(n) == <<f, name, n>>
<1>1. N \in Nat
  BY SeqFacts
<1>2. PICK done : /\ done[0] = sc
                  /\ \A n \in 1..N : done[n] = ParseMount(done[n - 1], At(n), items[n])
                  /\ volumes.form # "invalid" => ParseVolumes(sc, f, name, volumes) = done[N]
  BY VolumesSolved
<1> DEFINE Kept(n) == /\ Parsed(done[n]) /\ Grows(sc, done[n])
                      /\ \A i \in 1..n : \A source \in BindSources(items[i]) :
                           Accounted(done[n], At(i), source)
           K == {n \in 0..N : Kept(n)}
<1> HIDE DEF At
<1>3. 0 \in K
  <2>1. Grows(sc, sc)
    BY DEF Grows
  <2> QED BY <1>1, <1>2, <2>1
<1>4. ASSUME NEW n \in 1..N, n - 1 \in K PROVE n \in K
  <2>1. Kept(n - 1) /\ n \in 0..N /\ \A i \in 1..n : i = n \/ i \in 1..n - 1
    BY <1>1, <1>4
  <2>2. /\ Parsed(done[n]) /\ Grows(done[n - 1], done[n])
        /\ \A source \in BindSources(items[n]) : Accounted(done[n], At(n), source)
    <3>1. done[n] = ParseMount(done[n - 1], At(n), items[n]) /\ ItemGood(items[n])
      BY <1>2
    <3> QED BY <2>1, <3>1, EntryGrows
  <2>3. Grows(sc, done[n])
    BY <2>1, <2>2, GrowsOn
  <2>4. ASSUME NEW i \in 1..n, NEW source \in BindSources(items[i])
        PROVE  Accounted(done[n], At(i), source)
    <3>1. CASE i = n
      BY <2>2, <3>1
    <3>2. CASE i # n
      <4>1. Accounted(done[n - 1], At(i), source)
        BY <2>1, <3>2
      <4> QED BY <2>2, <4>1, AccountedStays
    <3> QED BY <3>1, <3>2
  <2>5. Kept(n)
    BY <2>2, <2>3, <2>4
  <2> HIDE DEF Kept
  <2> QED BY <2>1, <2>5
<1>5. Kept(N)
  <2> HIDE DEF N, Kept
  <2>1. 0 \in K /\ \A n \in 1..N : n - 1 \in K => n \in K
    BY <1>3, <1>4
  <2> HIDE DEF K
  <2>2. \A n \in 0..N : n \in K
    BY <1>1, <2>1, InductionUpTo
  <2>3. N \in 0..N
    BY <1>1
  <2> QED BY <2>2, <2>3 DEF K
<1>6. CASE volumes.form = "invalid"
  <2>1. r = WithDiagnostic(sc, "compose_invalid_volumes", "error", <<f, name>>)
    BY <1>6 DEF ParseVolumes
  <2> QED BY <1>6, <2>1, DiagnosticGrows
<1>7. CASE volumes.form # "invalid"
  <2>1. r = done[N]
    BY <1>2, <1>7
  <2> QED BY <1>5, <2>1 DEF ServiceAccounted, At
<1> QED BY <1>6, <1>7

\* The service that an entry of `services` gives, when Compose runs it.
ServiceRuns(s) == s.name # NoText /\ s.volumes.form # "invalid"

\* A service is accounted for when it is parsed.
LEMMA ServiceGrows ==
  ASSUME NEW sc, Parsed(sc), NEW f, NEW s, IsSeq(s.volumes.items),
         \A n \in 1..Len(s.volumes.items) : ItemGood(s.volumes.items[n]),
         NEW r, r = ParseServiceEntry(sc, f, s)
  PROVE  /\ Parsed(r) /\ Grows(sc, r)
         /\ ServiceRuns(s) => ServiceAccounted(r, f, s.name, s.volumes.items)
<1>1. CASE s.name = NoText
  <2>1. r = WithDiagnostic(sc, "compose_non_string_service_name", "error", <<f>>)
    BY <1>1 DEF ParseServiceEntry
  <2> QED BY <1>1, <2>1, DiagnosticGrows DEF ServiceRuns
<1>2. CASE s.name # NoText
  <2> DEFINE new == ParseService(s)
             d == [sc EXCEPT !.services = Append(@, new)]
  <2>1. r = ParseVolumes(d, f, s.name, s.volumes)
    BY <1>2 DEF ParseServiceEntry
  <2> HIDE DEF new
  <2>2. Parsed(d) /\ d.mounts = sc.mounts /\ d.diagnostics = sc.diagnostics
    <3>1. PICK a, b, c, e : sc = [services |-> a, mounts |-> b, correlations |-> c, diagnostics |-> e]
      BY DEF Parsed, ScanShape
    <3>2. d = [services |-> Append(a, new), mounts |-> b, correlations |-> c, diagnostics |-> e]
      BY <3>1
    <3> HIDE DEF d
    <3>3. ScanShape(d) /\ d.mounts = sc.mounts /\ d.diagnostics = sc.diagnostics
      BY <3>1, <3>2 DEF ScanShape
    <3> QED BY <3>3 DEF Parsed
  <2> HIDE DEF d
  <2>3. Grows(sc, d)
    BY <2>2 DEF Grows, MountOf
  <2> DEFINE name == s.name
             volumes == s.volumes
  <2> HIDE DEF name, volumes
  <2>4. /\ Parsed(r) /\ Grows(d, r)
        /\ volumes.form # "invalid" => ServiceAccounted(r, f, name, volumes.items)
    <3>1. /\ IsSeq(volumes.items) /\ \A n \in 1..Len(volumes.items) : ItemGood(volumes.items[n])
          /\ r = ParseVolumes(d, f, name, volumes)
      BY <2>1 DEF name, volumes
    <3> QED BY <2>2, <3>1, VolumesAccounted
  <2>5. Grows(sc, r)
    BY <2>3, <2>4, GrowsOn
  <2> QED BY <2>4, <2>5 DEF ServiceRuns, name, volumes
<1> QED BY <1>1, <1>2

\* What Compose binds for a document is accounted for.
DocumentAccounted(sc, f, document) ==
  document.parses /\ document.hasServices =>
    \A i \in 1..Len(document.services) :
      ServiceRuns(document.services[i]) =>
        ServiceAccounted(sc, f, document.services[i].name, document.services[i].volumes.items)

\* It stays so.
LEMMA DocumentStays ==
  ASSUME NEW sc, NEW r, Grows(sc, r), NEW f, NEW document, DocumentAccounted(sc, f, document)
  PROVE  DocumentAccounted(r, f, document)
BY AccountedStays DEF DocumentAccounted, ServiceAccounted

\* A document is accounted for when it is parsed.
LEMMA DocumentGrows ==
  ASSUME NEW sc, Parsed(sc), NEW f, NEW document, DocumentGood(document),
         NEW r, r = ParseFile(sc, f, document)
  PROVE  Parsed(r) /\ Grows(sc, r) /\ DocumentAccounted(r, f, document)
<1> DEFINE items == document.services
           N == Len(items)
           In(d, n) == ServiceRuns(items[n]) =>
                         ServiceAccounted(d, f, items[n].name, items[n].volumes.items)
<1>1. N \in Nat /\ IsSeq(items)
  BY SeqFacts DEF DocumentGood
<1>2. PICK done : /\ done[0] = sc
                  /\ \A n \in 1..N : done[n] = ParseServiceEntry(done[n - 1], f, items[n])
                  /\ document.parses /\ document.hasServices => ParseFile(sc, f, document) = done[N]
  BY <1>1, ServicesSolved
<1>3. ASSUME NEW d, NEW e, Grows(d, e), NEW n, In(d, n) PROVE In(e, n)
  BY <1>3, AccountedStays DEF ServiceAccounted
<1> DEFINE Kept(n) == Parsed(done[n]) /\ Grows(sc, done[n]) /\ \A i \in 1..n : In(done[n], i)
           K == {n \in 0..N : Kept(n)}
<1>4. ASSUME NEW n \in 1..N
      PROVE  /\ IsSeq(items[n].volumes.items)
             /\ \A k \in 1..Len(items[n].volumes.items) : ItemGood(items[n].volumes.items[k])
  BY DEF DocumentGood
<1>5. ASSUME NEW n \in 1..N, Parsed(done[n - 1])
      PROVE  Parsed(done[n]) /\ Grows(done[n - 1], done[n]) /\ In(done[n], n)
  <2>1. done[n] = ParseServiceEntry(done[n - 1], f, items[n])
    BY <1>2
  <2> QED BY <1>4, <1>5, <2>1, ServiceGrows
<1> HIDE DEF In
<1>6. 0 \in K
  <2>1. Grows(sc, sc)
    BY DEF Grows
  <2> QED BY <1>1, <1>2, <2>1
<1>7. ASSUME NEW n \in 1..N, n - 1 \in K PROVE n \in K
  <2>1. Kept(n - 1) /\ n \in 0..N /\ \A i \in 1..n : i = n \/ i \in 1..n - 1
    BY <1>1, <1>7
  <2>2. Parsed(done[n]) /\ Grows(done[n - 1], done[n]) /\ In(done[n], n)
    BY <1>5, <2>1
  <2>3. Grows(sc, done[n])
    BY <2>1, <2>2, GrowsOn
  <2>4. \A i \in 1..n : In(done[n], i)
    BY <1>3, <2>1, <2>2
  <2>5. Kept(n)
    BY <2>2, <2>3, <2>4
  <2> HIDE DEF Kept
  <2> QED BY <2>1, <2>5
<1>8. Kept(N)
  <2> HIDE DEF N, Kept
  <2>1. 0 \in K /\ \A n \in 1..N : n - 1 \in K => n \in K
    BY <1>6, <1>7
  <2> HIDE DEF K
  <2>2. \A n \in 0..N : n \in K
    BY <1>1, <2>1, InductionUpTo
  <2>3. N \in 0..N
    BY <1>1
  <2> QED BY <2>2, <2>3 DEF K
<1>9. CASE ~document.parses
  <2>1. r = WithDiagnostic(sc, "compose_yaml_parse_error", "blocked", <<f>>)
    BY <1>9 DEF ParseFile
  <2> QED BY <1>9, <2>1, DiagnosticGrows DEF DocumentAccounted
<1>10. CASE document.parses /\ ~document.hasServices
  <2>1. r = WithDiagnostic(sc, "compose_missing_services", "error", <<f>>)
    BY <1>10 DEF ParseFile
  <2> QED BY <1>10, <2>1, DiagnosticGrows DEF DocumentAccounted
<1>11. CASE document.parses /\ document.hasServices
  <2>1. r = done[N]
    BY <1>2, <1>11
  <2> QED BY <1>8, <2>1 DEF DocumentAccounted, In
<1> QED BY <1>9, <1>10, <1>11

-----------------------------------------------------------------------------
(* What a validation reports *)

\* What validate_compose_scan says of the mounts is among its diagnostics.
LEMMA ValidatedSays ==
  ASSUME NEW sc, ScanShape(sc), NEW files, files # <<>>, NEW i \in DOMAIN sc.mounts,
         NEW d, d \in MountDiagnostics(sc.mounts[i])
  PROVE  d \in Scanned(files, sc).diagnostics
<1>1. PICK a, b, c, e : sc = [services |-> a, mounts |-> b, correlations |-> c, diagnostics |-> e]
  BY DEF ScanShape
<1> DEFINE merged == Coalesce(a)
           more == e \cup UNION {MountDiagnostics(b[j]) : j \in DOMAIN b}
                     \cup {Diagnostic("compose_duplicate_target", "error", b[j].id) :
                             j \in DuplicateTargets(b)}
<1>2. Scanned(files, sc)
        = [[services |-> a, mounts |-> b, correlations |-> c, diagnostics |-> e] EXCEPT
             !.services = merged, !.diagnostics = more]
  BY <1>1 DEF Scanned, Validate
<1>3. d \in more
  <2>1. d \in UNION {MountDiagnostics(b[j]) : j \in DOMAIN b}
    BY <1>1
  <2> QED BY <2>1
<1> HIDE DEF merged, more
<1> QED BY <1>2, <1>3

\* So is what parsing has found.
LEMMA ValidatedKeeps ==
  ASSUME NEW sc, ScanShape(sc), NEW files, files # <<>>, NEW d \in sc.diagnostics
  PROVE  d \in Scanned(files, sc).diagnostics
<1>1. PICK a, b, c, e : sc = [services |-> a, mounts |-> b, correlations |-> c, diagnostics |-> e]
  BY DEF ScanShape
<1> DEFINE merged == Coalesce(a)
           more == e \cup UNION {MountDiagnostics(b[j]) : j \in DOMAIN b}
                     \cup {Diagnostic("compose_duplicate_target", "error", b[j].id) :
                             j \in DuplicateTargets(b)}
<1>2. Scanned(files, sc)
        = [[services |-> a, mounts |-> b, correlations |-> c, diagnostics |-> e] EXCEPT
             !.services = merged, !.diagnostics = more]
  BY <1>1 DEF Scanned, Validate
<1>3. d \in more
  <2>1. d \in e
    BY <1>1
  <2> QED BY <2>1
<1> HIDE DEF merged, more
<1> QED BY <1>2, <1>3

\* A bind of Docker's state or of credentials is reported.
LEMMA UnsafeIsReported ==
  ASSUME NEW m, m.kind = "bind", m.resolved # NoPath,
         IsDaemonState(m.resolved) \/ HoldsCredentials(m.resolved)
  PROVE  Diagnostic("compose_unsafe_bind_source", "blocked", m.id) \in MountDiagnostics(m)
<1> DEFINE check == <<"compose_unsafe_bind_source", UnsafeSeverity(m.resolved),
                      m.kind = "bind" /\ m.resolved # NoPath /\ UnsafeSeverity(m.resolved) # "none">>
<1>1. UnsafeSeverity(m.resolved) = "blocked"
  BY DEF UnsafeSeverity
<1>2. check[1] = "compose_unsafe_bind_source" /\ check[2] = "blocked" /\ check[3]
  BY <1>1
<1>3. Diagnostic(check[1], check[2], m.id) \in MountDiagnostics(m)
  BY <1>2, Zenon DEF MountDiagnostics
<1> QED BY <1>2, <1>3

\* A bind of the scan that leads to Docker's state or to credentials is among what is reported.
LEMMA LeakIsReported ==
  ASSUME NEW sc, Parsed(sc), NEW files, files # <<>>, NEW at, NEW source, IsSeq(source),
         source # NoText, Leaks(source), Accounted(sc, at, source)
  PROVE  Refusals(at) \cap Scanned(files, sc).diagnostics # {}
<1>1. CASE Refusals(at) \cap sc.diagnostics # {}
  BY <1>1, ValidatedKeeps DEF Parsed
<1>2. CASE \E m : /\ MountOf(m, sc) /\ m.id = at /\ m.kind = "bind"
                  /\ m.resolved = ResolveSource("bind", source)
  <2>1. PICK m : /\ MountOf(m, sc) /\ m.id = at /\ m.kind = "bind"
                 /\ m.resolved = ResolveSource("bind", source)
    BY <1>2
  <2>2. PICK i \in 1..Len(sc.mounts) : m = sc.mounts[i]
    BY <2>1 DEF MountOf
  <2>3. m.resolved = Leads(source) /\ FromRoot(Leads(source))
    BY <2>1, ResolvesWhereItLeads DEF Leaks
  <2>4. m.resolved # NoPath
    <3>1. NoPath[1] = <<"(none)">> /\ Root = <<"/">> /\ <<"(none)">> # <<"/">>
      BY DEF NoPath, NoText, Root
    <3> QED BY <2>3, <3>1 DEF FromRoot
  <2> DEFINE d == Diagnostic("compose_unsafe_bind_source", "blocked", at)
  <2>5. d \in MountDiagnostics(m)
    BY <2>1, <2>3, <2>4, UnsafeIsReported DEF Leaks
  <2>6. d \in Refusals(at)
    BY DEF Refusals
  <2> HIDE DEF d
  <2>7. i \in DOMAIN sc.mounts /\ ScanShape(sc)
    BY SeqFacts DEF Parsed
  <2>8. d \in Scanned(files, sc).diagnostics
    BY <2>2, <2>5, <2>7, ValidatedSays
  <2> QED BY <2>6, <2>8
<1> QED BY <1>1, <1>2 DEF Accounted

\* Whatever refuses an entry fails the validation.
LEMMA RefusalBlocks ==
  ASSUME NEW scan, NEW at, Refusals(at) \cap scan.diagnostics # {}
  PROVE  ExitCode(scan) = 1
<1>1. PICK d \in scan.diagnostics : d \in Refusals(at)
  OBVIOUS
<1>2. d.severity \in {"error", "blocked"}
  BY <1>1 DEF Refusals, Diagnostic
<1> QED BY <1>2 DEF ExitCode, Blocking

\* What a request has read is accounted for in its scan.
AllAccounted ==
  \A k \in 1..Len(reader.got) :
    DocumentAccounted(reader.scan, reader.files[k], Holds[reader.got[k]].document)

\* A file that is read is.
LEMMA ReadAccounts ==
  ASSUME BindingInv, ScanInv, AllAccounted, ReadFile
  PROVE  AllAccounted'
<1> DEFINE f == NextFile
           v == fs[f]
           n == Len(reader.got) + 1
           sc == reader.scan
           doc == Holds[v].document
<1>1. /\ reader'.files = reader.files /\ reader'.got = Append(reader.got, v)
      /\ reader'.scan = ParseFile(sc, f, doc)
  BY DEF ReadFile, BindingInv, ReaderShape, Document
<1>2. /\ IsSeq(reader.got) /\ Parsed(sc) /\ Len(reader.got) \in Nat /\ Len(reader.files) \in Nat
  BY SeqFacts DEF ScanInv, ReaderGood, ReadGood, ScanGood, Parsed
<1>3. Len(reader.got) < Len(reader.files) /\ Holds[v].form \in {"file", "link"}
  BY DEF ReadFile, Unread, Usable, Readable, Form
<1>4. n \in 1..Len(reader.files) /\ f = reader.files[n]
  BY <1>2, <1>3 DEF NextFile
<1>5. f \in Files /\ v \in Contents[f]
  <2>1. f \in Files
    BY <1>4 DEF ScanInv, ReaderGood
  <2> QED BY <2>1 DEF BindingInv, FilesAreMoments, Moments
<1>6. DocumentGood(doc)
  BY <1>3, <1>5, ReadableIsDocument
<1>7. /\ Len(reader'.got) = n /\ reader'.got[n] = v
      /\ \A k \in 1..Len(reader.got) : reader'.got[k] = reader.got[k]
  BY <1>1, <1>2, AppendFacts
<1>8. \A k \in 1..n : k = n \/ k \in 1..Len(reader.got)
  BY <1>2
<1> HIDE DEF f, v, n, sc
<1>9. Grows(sc, reader'.scan) /\ DocumentAccounted(reader'.scan, f, doc)
  <2> HIDE DEF doc
  <2> QED BY <1>1, <1>2, <1>6, DocumentGrows
<1>10. \A k \in 1..Len(reader.got) :
         DocumentAccounted(reader'.scan, reader.files[k], Holds[reader.got[k]].document)
  BY <1>9, DocumentStays DEF AllAccounted, sc
<1> QED BY <1>1, <1>4, <1>7, <1>8, <1>9, <1>10 DEF AllAccounted

\* Every other step keeps the reads of the request, or ends it, or begins one.
LEMMA OthersKeepReads ==
  ASSUME BindingInv, [Next]_vars, ~ReadFile
  PROVE  \/ reader'.got = <<>>
         \/ reader'.got = reader.got /\ reader'.files = reader.files /\ reader'.scan = reader.scan
<1>1. ASSUME NEW op, NEW files, NEW request, Begin(op, files, request) PROVE reader'.got = <<>>
  BY <1>1 DEF Begin, Idle
<1>2. ASSUME NEW status, NEW value, Answer(status, value) PROVE reader'.got = <<>>
  BY <1>2 DEF Answer, Idle
<1>3. CASE \E f \in Files : \E c \in Contents[f] : Edit(f, c)
  BY <1>3 DEF Edit
<1>4. CASE BeginBinding
  BY <1>1, <1>4 DEF BeginBinding
<1>5. ASSUME NEW op \in {"scan", "graph", "validate"}, NEW files \in ScanRequests, BeginScan(op, files)
      PROVE  reader'.got = <<>>
  BY <1>1, <1>5 DEF BeginScan
<1>6. ASSUME NEW r \in PlanRequests, BeginPlan(r) PROVE reader'.got = <<>>
  BY <1>1, <1>6 DEF BeginPlan
<1>7. CASE RefuseRequest
  BY <1>7 DEF RefuseRequest
<1>8. CASE ReadFails
  <2>1. Answer("unavailable", <<>>)
    BY <1>8 DEF ReadFails
  <2> QED BY <2>1, <1>2
<1>9. CASE Recheck
  <2> DEFINE k == reader.checked + 1
  <2>1. CASE StillAsRead(reader.files[k], reader.got[k])
    BY <1>9, <2>1 DEF Recheck, BindingInv, ReaderShape
  <2>2. CASE ~StillAsRead(reader.files[k], reader.got[k])
    <3>1. Answer("none", <<>>)
      BY <1>9, <2>2 DEF Recheck
    <3> QED BY <3>1, <1>2
  <2> QED BY <2>1, <2>2
<1>10. CASE FinishBinding \/ FinishGraph \/ FinishValidate \/ FinishPlan
  <2>1. \E status, value : Answer(status, value)
    <3>1. CASE FinishBinding
      BY <3>1 DEF FinishBinding
    <3>2. CASE FinishGraph
      BY <3>2 DEF FinishGraph
    <3>3. CASE FinishValidate
      BY <3>3 DEF FinishValidate
    <3>4. CASE FinishPlan
      BY <3>4 DEF FinishPlan
    <3> QED BY <1>10, <3>1, <3>2, <3>3, <3>4
  <2> QED BY <2>1, <1>2
<1>11. ASSUME NEW s \in Snapshots, FinishScan(s) PROVE reader'.got = <<>>
  <2>1. \E value : Answer("ok", value)
    BY <1>11 DEF FinishScan
  <2> QED BY <2>1, <1>2
<1>12. CASE UNCHANGED vars
  BY <1>12 DEF vars
<1> QED BY <1>3, <1>4, <1>5, <1>6, <1>7, <1>8, <1>9, <1>10, <1>11, <1>12 DEF Next

\* Every step keeps it.
LEMMA AccountStep == BindingInv /\ ScanInv /\ AllAccounted /\ [Next]_vars => AllAccounted'
<1> SUFFICES ASSUME BindingInv, ScanInv, AllAccounted, [Next]_vars PROVE AllAccounted'
  OBVIOUS
<1>1. CASE ReadFile
  BY <1>1, ReadAccounts
<1>2. CASE reader'.got = <<>>
  <2>1. 1..Len(<<>>) = {}
    OBVIOUS
  <2> QED BY <1>2, <2>1 DEF AllAccounted
<1>3. CASE reader'.got = reader.got /\ reader'.files = reader.files /\ reader'.scan = reader.scan
  BY <1>3 DEF AllAccounted
<1> QED BY <1>1, <1>2, <1>3, OthersKeepReads

\* A validation that ends fails for such a bind.
LEMMA ValidationBlocks ==
  ASSUME BindingInv, ScanInv, AllAccounted, FinishValidate
  PROVE  UnsafeBindsBlocked'
<1> DEFINE sc == reader.scan
           scan == Scanned(reader.files, sc)
           value == [exit |-> ExitCode(scan), diagnostics |-> scan.diagnostics]
<1>1. answer'.value = value /\ answer'.files = reader.files /\ answer'.got = reader.got
  BY DEF FinishValidate, Answer
<1>2. value.exit = ExitCode(scan) /\ value.diagnostics = scan.diagnostics
  OBVIOUS
<1>3. Parsed(sc)
  BY DEF ScanInv, ReaderGood, ScanGood, Parsed
<1>4. ReadGood(reader.files, reader.got)
  BY DEF ScanInv, ReaderGood
<1>5. /\ DOMAIN reader.got = 1..Len(reader.got) /\ Len(reader.got) \in Nat
      /\ Len(reader.files) \in Nat /\ Len(reader.got) <= Len(reader.files)
  BY <1>4, SeqFacts DEF ReadGood
<1> HIDE DEF value
<1>6. ASSUME NEW k \in DOMAIN reader.got, NEW s \in Runs(Holds[reader.got[k]].document),
             NEW n \in DOMAIN s.volumes.items, NEW source \in BindSources(s.volumes.items[n]),
             Leaks(source)
      PROVE  /\ ExitCode(scan) = 1
             /\ Refusals(<<reader.files[k], s.name, n>>) \cap scan.diagnostics # {}
  <2> DEFINE doc == Holds[reader.got[k]].document
             at == <<reader.files[k], s.name, n>>
  <2>1. DocumentGood(doc) /\ DocumentAccounted(sc, reader.files[k], doc)
    BY <1>4, <1>5 DEF AllAccounted, ReadGood
  <2>2. /\ doc.parses /\ doc.hasServices /\ s.name # NoText /\ s.volumes.form # "invalid"
        /\ s \in ToSet(doc.services)
    BY DEF Runs
  <2> HIDE DEF doc
  <2>3. PICK i \in 1..Len(doc.services) : s = doc.services[i]
    BY <2>1, <2>2, SeqFacts DEF ToSet, DocumentGood
  <2>4. /\ IsSeq(s.volumes.items)
        /\ \A j \in 1..Len(s.volumes.items) : ItemGood(s.volumes.items[j])
    BY <2>1, <2>3 DEF DocumentGood
  <2>5. n \in 1..Len(s.volumes.items) /\ ItemGood(s.volumes.items[n])
    BY <2>4, SeqFacts
  <2>6. ServiceAccounted(sc, reader.files[k], s.name, s.volumes.items)
    BY <2>1, <2>2, <2>3 DEF DocumentAccounted, ServiceRuns
  <2>7. Accounted(sc, at, source)
    BY <2>5, <2>6 DEF ServiceAccounted
  <2> HIDE DEF at
  <2>8. source # NoText /\ IsSeq(source)
    BY <2>5, EntryBinds
  <2>9. reader.files # <<>>
    <3>1. Len(reader.files) # 0 /\ Len(<<>>) = 0
      BY <1>5
    <3> QED BY <3>1
  <2>10. Refusals(at) \cap scan.diagnostics # {}
    BY <1>3, <1>6, <2>7, <2>8, <2>9, LeakIsReported
  <2> HIDE DEF scan
  <2>11. ExitCode(scan) = 1
    BY <2>10, RefusalBlocks
  <2> QED BY <2>10, <2>11 DEF at
<1> HIDE DEF scan
<1> QED BY <1>1, <1>2, <1>6 DEF UnsafeBindsBlocked

\* No other step ends a validation.
LEMMA OthersKeepBlocked ==
  ASSUME UnsafeBindsBlocked, [Next]_vars, ~FinishValidate
  PROVE  UnsafeBindsBlocked'
<1>1. \/ UNCHANGED answer
      \/ answer'.op # "validate"
      \/ answer'.status # "ok"
  <2>1. ASSUME NEW f \in Files, NEW c \in Contents[f], Edit(f, c) PROVE UNCHANGED answer
    BY <2>1 DEF Edit
  <2>2. ASSUME NEW op, NEW files, NEW request, Begin(op, files, request)
        PROVE  answer'.op = "none"
    BY <2>2 DEF Begin, NoAnswer
  <2>3. CASE BeginBinding
    BY <2>2, <2>3 DEF BeginBinding
  <2>4. ASSUME NEW op \in {"scan", "graph", "validate"}, NEW files \in ScanRequests,
               BeginScan(op, files)
        PROVE  answer'.op = "none"
    BY <2>2, <2>4 DEF BeginScan
  <2>5. ASSUME NEW r \in PlanRequests, BeginPlan(r) PROVE answer'.op = "none"
    BY <2>2, <2>5 DEF BeginPlan
  <2>6. CASE RefuseRequest
    BY <2>6 DEF RefuseRequest, NoAnswer
  <2>7. CASE ReadFile
    BY <2>7 DEF ReadFile
  <2>8. ASSUME NEW status, NEW value, Answer(status, value)
        PROVE  answer'.op = reader.op /\ answer'.status = status
    BY <2>8 DEF Answer
  <2>9. CASE ReadFails
    <3>1. Answer("unavailable", <<>>)
      BY <2>9 DEF ReadFails
    <3> QED BY <3>1, <2>8
  <2>10. CASE Recheck
    <3>1. reader.op = "binding" /\ (UNCHANGED answer \/ Answer("none", <<>>))
      BY <2>10 DEF Recheck, AllRead
    <3> QED BY <3>1, <2>8
  <2>11. CASE FinishBinding
    <3>1. reader.op = "binding" /\ \E status, value : Answer(status, value)
      BY <2>11 DEF FinishBinding, AllRead
    <3> QED BY <3>1, <2>8
  <2>12. ASSUME NEW s \in Snapshots, FinishScan(s) PROVE answer'.op = "scan"
    <3>1. reader.op = "scan" /\ \E value : Answer("ok", value)
      BY <2>12 DEF FinishScan, AllRead
    <3> QED BY <3>1, <2>8
  <2>13. CASE FinishGraph
    <3>1. reader.op = "graph" /\ \E value : Answer("ok", value)
      BY <2>13 DEF FinishGraph, AllRead
    <3> QED BY <3>1, <2>8
  <2>14. CASE FinishPlan
    <3>1. reader.op = "plan" /\ \E status, value : Answer(status, value)
      BY <2>14 DEF FinishPlan, AllRead
    <3> QED BY <3>1, <2>8
  <2>15. CASE UNCHANGED vars
    BY <2>15 DEF vars
  <2> QED BY <2>1, <2>3, <2>4, <2>5, <2>6, <2>7, <2>9, <2>10, <2>11, <2>12, <2>13, <2>14, <2>15 DEF Next
<1> QED BY <1>1 DEF UnsafeBindsBlocked, Answered

\* No project whose files bind Docker's state (its socket or /var/lib/docker) or a credentials
\* directory is valid for `validate`: it exits with 1, and the entry is reported as blocked, or as
\* malformed, for all files, documents, directories and writes in between.  The binds are those
\* of BindSources, in either syntax, that lead there from the root, from the home directory or
\* from the project, with any number of . and .. in them; a default is taken in the long syntax,
\* and in the short one after the beginning of a path and without a colon.
THEOREM UnsafeBindsAreBlocked == Spec => []UnsafeBindsBlocked
<1>1. Init => AllAccounted /\ UnsafeBindsBlocked
  <2> SUFFICES ASSUME Init PROVE AllAccounted /\ UnsafeBindsBlocked
    OBVIOUS
  <2>1. reader.got = <<>> /\ 1..Len(<<>>) = {} /\ answer.op = "none"
    BY DEF Init, Idle, NoAnswer
  <2> QED BY <2>1 DEF AllAccounted, UnsafeBindsBlocked, Answered
<1>2. BindingInv /\ ScanInv /\ AllAccounted /\ UnsafeBindsBlocked /\ [Next]_vars
        => AllAccounted' /\ UnsafeBindsBlocked'
  BY AccountStep, ValidationBlocks, OthersKeepBlocked
<1> QED BY <1>1, <1>2, ScanInit, ScanStep, BindingInvariant, PTL DEF Spec
================================================================================
