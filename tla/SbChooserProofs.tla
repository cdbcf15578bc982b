--------------------------- MODULE SbChooserProofs ---------------------------
(***************************************************************************)
(* Proofs about sbchooser, for any files, certificate tables, databases,   *)
(* options and systems: the databases in use are those the options name,   *)
(* every signature of a file is found, its digest is the one its signer    *)
(* saw, and the verdict that is printed on each file, and the reason for   *)
(* it, are those of db and dbx.                                            *)
(***************************************************************************)
EXTENDS SbChooser, WellFoundedInduction, SequenceTheorems, FiniteSetTheorems, TLAPS

(***************************************************************************)
(* Induction over numbers: a statement is proved as a fact about the set   *)
(* of numbers it holds for.                                                *)
(***************************************************************************)

Below == {mn \in Nat \X Nat : mn[1] < mn[2]}

\* A set of natural numbers has a smallest one.
LEMMA Least ==
    ASSUME NEW S \in SUBSET Nat, S # {}
    PROVE  \E n \in S : \A m \in S : n <= m
<1>1. IsWellFoundedOn(Below, Nat)
    BY NatLessThanWellFounded DEF OpToRel, Below
<1>2. PICK n \in S : \A m \in S : <<m, n>> \notin Below
    BY <1>1, WFMin
<1>3. ASSUME NEW m \in S PROVE n <= m
  <2>1. <<m, n>> \notin Below /\ m \in Nat /\ n \in Nat
    BY <1>2
  <2> QED
    BY <2>1 DEF Below
<1> QED
    BY <1>3

\* What holds for 0 and, with a number, for the next one, holds for all.
LEMMA Induction ==
    ASSUME NEW S, 0 \in S, \A n \in Nat : n \in S => n + 1 \in S
    PROVE  Nat \subseteq S
<1> SUFFICES ASSUME Nat \ S # {} PROVE FALSE
    OBVIOUS
<1>1. PICK n \in Nat \ S : \A m \in Nat \ S : n <= m
    BY Least
<1>2. n # 0 /\ n - 1 \in Nat
    BY <1>1
<1>3. n - 1 \in S
    BY <1>1, <1>2
<1> QED
    BY <1>1, <1>2, <1>3

\* The same up to a bound.
LEMMA InductionTo ==
    ASSUME NEW N \in Nat, NEW S, 0 \in S,
           \A n \in 0 .. (N - 1) : n \in S => n + 1 \in S
    PROVE  0 .. N \subseteq S
<1> DEFINE T == {n \in Nat : n <= N => n \in S}
<1>1. 0 \in T
    OBVIOUS
<1>2. ASSUME NEW n \in Nat, n \in T PROVE n + 1 \in T
    BY <1>2
<1> HIDE DEF T
<1>3. Nat \subseteq T
    BY <1>1, <1>2, Induction
<1> QED
    BY <1>3 DEF T

\* The first of the greatest of some numbers
LEMMA FirstGreatest ==
    ASSUME NEW n \in Nat \ {0}, NEW N \in Nat, NEW b,
           \A i \in 1 .. n : b[i] \in Nat /\ b[i] <= N
    PROVE  \E w \in 1 .. n : \A j \in 1 .. n : b[j] < b[w] \/ (b[j] = b[w] /\ w <= j)
<1> DEFINE M == {m \in Nat : \E i \in 1 .. n : m = N - b[i]}
<1>1. 1 \in 1 .. n /\ b[1] \in Nat /\ N - b[1] \in M
    OBVIOUS
<1>2. M \in SUBSET Nat /\ M # {}
    BY <1>1
<1>3. \A i \in 1 .. n : N - b[i] \in M
    OBVIOUS
<1>4. \A m \in M : \E i \in 1 .. n : m = N - b[i]
    OBVIOUS
<1> HIDE DEF M
<1>5. PICK m \in M : \A x \in M : m <= x
    BY <1>2, Least
<1>6. PICK k \in 1 .. n : m = N - b[k]
    BY <1>4, <1>5
<1>7. ASSUME NEW i \in 1 .. n PROVE b[i] <= b[k]
  <2>1. N - b[k] <= N - b[i]
    BY <1>3, <1>5, <1>6
  <2>2. b[i] \in Int /\ b[k] \in Int
    OBVIOUS
  <2> QED
    BY <2>1, <2>2
<1> DEFINE I == {i \in 1 .. n : b[i] = b[k]}
<1>8. I \in SUBSET Nat /\ I # {}
    OBVIOUS
<1>9. PICK w \in I : \A i \in I : w <= i
    BY <1>8, Least
<1>10. ASSUME NEW j \in 1 .. n PROVE b[j] < b[w] \/ (b[j] = b[w] /\ w <= j)
  <2>1. b[w] = b[k] /\ b[j] <= b[k] /\ b[j] \in Int /\ b[k] \in Int
    BY <1>7
  <2>2. b[j] = b[w] => w <= j
    BY <1>9
  <2> QED
    BY <2>1, <2>2
<1> QED
    BY <1>10

\* g has the sums of the first elements of s, for up to n elements.
IsSum(g, s, n) == g = [k \in 0 .. n |-> IF k = 0 THEN 0 ELSE g[k - 1] + s[k]]

LEMMA SumsExist ==
    ASSUME NEW s, NEW n \in Nat
    PROVE  \E g : IsSum(g, s, n)
<1> DEFINE S == {k \in Nat : \E g : IsSum(g, s, k)}
<1>1. 0 \in S
  <2>1. IsSum([k \in 0 .. 0 |-> 0], s, 0)
    BY DEF IsSum
  <2> QED
    BY <2>1
<1>2. ASSUME NEW m \in Nat, m \in S PROVE m + 1 \in S
  <2>1. PICK g : IsSum(g, s, m)
    BY <1>2
  <2> DEFINE h == [k \in 0 .. (m + 1) |-> IF k = m + 1 THEN g[m] + s[m + 1] ELSE g[k]]
  <2>2. ASSUME NEW k \in 0 .. (m + 1)
        PROVE  h[k] = IF k = 0 THEN 0 ELSE h[k - 1] + s[k]
    <3>1. CASE k = m + 1
      BY <3>1
    <3>2. CASE k \in 0 .. m
      <4>1. g[k] = IF k = 0 THEN 0 ELSE g[k - 1] + s[k]
        BY <2>1, <3>2 DEF IsSum
      <4> QED
        BY <3>2, <4>1
    <3> QED
      BY <3>1, <3>2
  <2>3. IsSum(h, s, m + 1)
    BY <2>2 DEF IsSum
  <2> QED
    BY <2>3
<1> HIDE DEF S
<1>3. n \in S
    BY <1>1, <1>2, Induction
<1> QED
    BY <1>3 DEF S

LEMMA SumSteps ==
    ASSUME NEW n \in Nat, NEW s, NEW g, IsSum(g, s, n)
    PROVE  g[0] = 0 /\ \A k \in 1 .. n : g[k] = g[k - 1] + s[k]
    BY DEF IsSum

\* The sums of positive numbers grow.
LEMMA SumsGrow ==
    ASSUME NEW n \in Nat, NEW s, \A k \in 1 .. n : s[k] \in Nat \ {0},
           NEW g, IsSum(g, s, n)
    PROVE  /\ \A k \in 0 .. n : g[k] \in Nat
           /\ \A i, j \in 0 .. n : i < j => g[i] < g[j]
<1>1. g[0] = 0 /\ \A k \in 1 .. n : g[k] = g[k - 1] + s[k]
    BY SumSteps
<1> DEFINE S == {k \in 0 .. n : g[k] \in Nat}
           T == {j \in 0 .. n : \A i \in 0 .. n : i < j => g[i] < g[j]}
<1>2. 0 \in S
    BY <1>1
<1>3. ASSUME NEW k \in 0 .. (n - 1), k \in S PROVE k + 1 \in S
    BY <1>1, <1>3
<1>4. 0 .. n \subseteq S
  <2> HIDE DEF S
  <2> QED
    BY <1>2, <1>3, InductionTo
<1>5. 0 \in T
    OBVIOUS
<1>6. ASSUME NEW k \in 0 .. (n - 1), k \in T PROVE k + 1 \in T
  <2>1. g[k + 1] = g[k] + s[k + 1] /\ g[k] \in Nat /\ s[k + 1] \in Nat \ {0}
    BY <1>1, <1>4
  <2>2. ASSUME NEW i \in 0 .. n, i < k + 1 PROVE g[i] < g[k + 1]
    <3>1. g[i] \in Nat
      BY <1>4
    <3>2. CASE i = k
      BY <2>1, <3>2
    <3>3. CASE i < k
      <4>1. g[i] < g[k]
        BY <1>6, <3>3
      <4> QED
        BY <2>1, <3>1, <4>1
    <3> QED
      BY <2>2, <3>2, <3>3
  <2> QED
    BY <2>2
<1>7. 0 .. n \subseteq T
  <2> HIDE DEF T
  <2> QED
    BY <1>5, <1>6, InductionTo
<1> QED
    BY <1>4, <1>7

(***************************************************************************)
(* The options                                                             *)
(***************************************************************************)

FileOption(d) == IF d = "db" THEN "-d" ELSE "-x"
OnOption(d) == IF d = "db" THEN "-s" ELSE "-S"
OffOption(d) == IF d = "db" THEN "-D" ELSE "-X"

Has(d) == IF d = "db" THEN db ELSE dbx

\* Whether main() is past the system's database.
Past(d) == phase \notin {"options", "args", "db"} /\ (d = "dbx" => phase # "dbx")

\* The system's database was loaded, by an option or as the default.
Taken(d) ==
    /\ sys[d].kind = "there"
    /\ \/ OnOption(d) \in given
       \/ Past(d) /\ given \cap {FileOption(d), OffOption(d)} = {}

SysPart(d) == IF Taken(d) THEN sys[d].entries ELSE {}

DbOK(d) ==
    /\ d \in needs <=> given \cap {FileOption(d), OnOption(d), OffOption(d)} = {}
    /\ FileOption(d) \notin given => Has(d) = SysPart(d)
    /\ FileOption(d) \in given =>
            \E s \in menu.secdbs \ {Damaged} : Has(d) = s \cup SysPart(d)
    /\ IsDb(Has(d))

Dbs == {"db", "dbx"}

OptInv ==
    /\ menu \in Menus /\ sys \in menu.systems
    /\ phase \notin {"exit", "killed"} => \A d \in Dbs : DbOK(d)

LEMMA OptInit == Init => OptInv
    BY DEF Init, OptInv, DbOK, Has, SysPart, Taken, Past, FileOption, OnOption, OffOption, IsDb, Dbs

LEMMA IsDbUnion ==
    ASSUME NEW s, NEW t, IsDb(s), IsDb(t)
    PROVE  IsDb(s \cup t)
    BY DEF IsDb

\* Loading the system's database
LEMMA LoadVarFacts ==
    ASSUME OptInv, NEW d \in Dbs, NEW next, LoadVar(d, next), phase' # "exit"
    PROVE  /\ phase' = next
           /\ LET e == IF sys[d].kind = "there" THEN sys[d].entries ELSE {}
              IN /\ IsDb(e)
                 /\ db' = IF d = "db" THEN db \cup e ELSE db
                 /\ dbx' = IF d = "dbx" THEN dbx \cup e ELSE dbx
<1>1. phase' = next
    BY DEF LoadVar, Exit
<1>2. CASE sys[d].kind = "there"
  <2>1. sys[d].entries # Damaged /\ Added(d, sys[d].entries)
    BY <1>2 DEF LoadVar, Exit
  <2>2. IsDb(sys[d].entries)
    BY <1>2, <2>1, MenusAssumption DEF OptInv, Dbs
  <2> QED
    BY <1>1, <1>2, <2>1, <2>2 DEF Added
<1>3. CASE sys[d].kind # "there"
  <2>1. UNCHANGED <<db, dbx>>
    BY <1>3 DEF LoadVar
  <2>2. IsDb({})
    BY DEF IsDb
  <2> QED
    BY <1>1, <1>3, <2>1, <2>2
<1> QED
    BY <1>2, <1>3

\* A step that neither takes an option nor loads a database.
LEMMA DbsKept ==
    ASSUME OptInv, UNCHANGED <<choice, given, dbs>>,
           \/ phase' \in {"exit", "killed"}
           \/ phase \notin {"exit", "killed"} /\ \A d \in Dbs : Past(d)' = Past(d)
    PROVE  OptInv'
<1>1. CASE phase' \in {"exit", "killed"}
    BY <1>1 DEF OptInv, choice
<1>2. CASE phase' \notin {"exit", "killed"}
  <2>1. ASSUME NEW d \in Dbs PROVE DbOK(d)'
    <3>1. DbOK(d) /\ Has(d)' = Has(d)
      BY <1>2 DEF OptInv, Has, dbs
    <3>2. SysPart(d)' = SysPart(d)
      BY <1>2 DEF SysPart, Taken, choice
    <3> QED
      BY <3>1, <3>2 DEF DbOK, choice, dbs
  <2> QED
    BY <2>1 DEF OptInv, choice
<1> QED
    BY <1>1, <1>2

LEMMA FlagKeeps ==
    ASSUME OptInv, NEW o, NEW f, Flag(o, f), o \in {"-e", "-f", "-i -"}
    PROVE  OptInv'
<1>1. /\ phase = "options" /\ given' = given \cup {o}
      /\ UNCHANGED <<choice, phase, dbs>>
    BY DEF Flag, Option, Parsing
<1>2. ASSUME NEW d \in Dbs PROVE DbOK(d)'
  <2>1. DbOK(d) /\ Has(d)' = Has(d)
    BY <1>1 DEF OptInv, Has, dbs
  <2>2. \A x \in {FileOption(d), OnOption(d), OffOption(d)} : x \in given' <=> x \in given
    BY <1>1 DEF FileOption, OnOption, OffOption
  <2>3. SysPart(d)' = SysPart(d)
    BY <1>1, <2>2 DEF SysPart, Taken, Past, choice
  <2> QED
    BY <1>1, <2>1, <2>2, <2>3 DEF DbOK, choice, dbs
<1> QED
    BY <1>1, <1>2 DEF OptInv, choice

\* An option that names the database e
LEMMA OtherDb ==
    ASSUME OptInv, phase = "options", NEW e \in Dbs, NEW o,
           o \in {FileOption(e), OnOption(e), OffOption(e)},
           given' = given \cup {o}, needs' = needs \ {e}, UNCHANGED <<choice, phase>>,
           NEW d \in Dbs, d # e, Has(d)' = Has(d)
    PROVE  DbOK(d)'
<1>1. DbOK(d)
    BY DEF OptInv
<1>2. \A x \in {FileOption(d), OnOption(d), OffOption(d)} : x \in given' <=> x \in given
    BY DEF FileOption, OnOption, OffOption, Dbs
<1>3. SysPart(d)' = SysPart(d)
    BY <1>2 DEF SysPart, Taken, Past, choice
<1> QED
    BY <1>1, <1>2, <1>3 DEF DbOK, choice

LEMMA NoSystemKeeps ==
    ASSUME OptInv, NEW e \in Dbs, NoSystem(OffOption(e), e)
    PROVE  OptInv'
<1> DEFINE o == OffOption(e)
<1>1. /\ phase = "options" /\ given' = given \cup {o} /\ o \notin given /\ needs' = needs \ {e}
      /\ UNCHANGED <<choice, phase, db, dbx>>
    BY DEF NoSystem, Option, Parsing
<1>2. ASSUME NEW d \in Dbs PROVE DbOK(d)'
  <2>1. DbOK(d) /\ Has(d)' = Has(d)
    BY <1>1 DEF OptInv, Has
  <2>2. CASE d # e
    BY <1>1, <2>1, <2>2, OtherDb
  <2>3. CASE d = e
    <3>1. /\ FileOption(d) \in given' <=> FileOption(d) \in given
          /\ OnOption(d) \in given' <=> OnOption(d) \in given
          /\ OffOption(d) \in given'
      BY <1>1, <2>3 DEF FileOption, OnOption, OffOption, Dbs
    <3>2. SysPart(d)' = SysPart(d)
      BY <1>1, <3>1 DEF SysPart, Taken, Past, choice
    <3> QED
      BY <1>1, <2>1, <2>3, <3>1, <3>2 DEF DbOK, choice
  <2> QED
    BY <2>2, <2>3
<1> QED
    BY <1>1, <1>2 DEF OptInv, choice

LEMMA FromFileKeeps ==
    ASSUME OptInv, NEW e \in Dbs, FromFile(FileOption(e), e)
    PROVE  OptInv'
<1> DEFINE o == FileOption(e)
<1>1. /\ phase = "options" /\ given' = given \cup {o} /\ o \notin given /\ UNCHANGED choice
    BY DEF FromFile, Option, Parsing
<1>2. CASE phase' = "exit"
    BY <1>1, <1>2 DEF OptInv, choice
<1>3. CASE phase' # "exit"
  <2>1. PICK s \in menu.secdbs \ {Damaged} : Added(e, s) /\ needs' = needs \ {e} /\ phase' = phase
    BY <1>3 DEF FromFile, Exit, Done
  <2>2. IsDb(s)
    BY <2>1, MenusAssumption DEF OptInv
  <2>3. ASSUME NEW d \in Dbs PROVE DbOK(d)'
    <3>1. DbOK(d)
      BY <1>1 DEF OptInv
    <3>2. CASE d # e
      <4>1. Has(d)' = Has(d)
        BY <2>1, <3>2 DEF Added, Has, Dbs
      <4> QED
        BY <1>1, <2>1, <3>2, <4>1, OtherDb
    <3>3. CASE d = e
      <4>1. Has(d)' = Has(d) \cup s
        BY <2>1, <3>3 DEF Added, Has, Dbs
      <4>2. /\ FileOption(d) \in given' /\ FileOption(d) \notin given
            /\ OnOption(d) \in given' <=> OnOption(d) \in given
        BY <1>1, <3>3 DEF FileOption, OnOption, Dbs
      <4>3. SysPart(d)' = SysPart(d)
        BY <1>1, <2>1, <4>2 DEF SysPart, Taken, Past, choice
      <4>4. Has(d)' = s \cup SysPart(d)' /\ IsDb(Has(d))'
        BY <2>2, <3>1, <4>1, <4>2, <4>3, IsDbUnion DEF DbOK, IsDb
      <4>5. s \in menu'.secdbs \ {Damaged}
        BY <1>1 DEF choice
      <4> QED
        BY <2>1, <3>3, <4>2, <4>4, <4>5 DEF DbOK
    <3> QED
      BY <3>2, <3>3
  <2> QED
    BY <1>1, <2>3 DEF OptInv, choice
<1> QED
    BY <1>2, <1>3

LEMMA FromSystemKeeps ==
    ASSUME OptInv, NEW e \in Dbs, FromSystem(OnOption(e), e)
    PROVE  OptInv'
<1> DEFINE o == OnOption(e)
           x == IF sys[e].kind = "there" THEN sys[e].entries ELSE {}
<1>1. /\ phase = "options" /\ given' = given \cup {o} /\ o \notin given /\ needs' = needs \ {e}
      /\ LoadVar(e, phase) /\ UNCHANGED choice
    BY DEF FromSystem, Option, Parsing
<1>2. CASE phase' = "exit"
    BY <1>1, <1>2 DEF OptInv, choice
<1>3. CASE phase' # "exit"
  <2>1. /\ phase' = phase /\ IsDb(x)
        /\ db' = IF e = "db" THEN db \cup x ELSE db
        /\ dbx' = IF e = "dbx" THEN dbx \cup x ELSE dbx
    BY <1>1, <1>3, LoadVarFacts
  <2> HIDE DEF x
  <2>2. ASSUME NEW d \in Dbs PROVE DbOK(d)'
    <3>1. DbOK(d)
      BY <1>1 DEF OptInv
    <3>2. CASE d # e
      <4>1. Has(d)' = Has(d)
        BY <2>1, <3>2 DEF Has, Dbs
      <4> QED
        BY <1>1, <2>1, <3>2, <4>1, OtherDb
    <3>3. CASE d = e
      <4>1. Has(d)' = Has(d) \cup x
        BY <2>1, <3>3 DEF Has, Dbs
      <4>2. /\ FileOption(d) \in given' <=> FileOption(d) \in given
            /\ OnOption(d) \in given' /\ OnOption(d) \notin given
        BY <1>1, <3>3 DEF FileOption, OnOption, Dbs
      <4>3. SysPart(d)' = x /\ SysPart(d) = {}
        BY <1>1, <2>1, <3>3, <4>2 DEF SysPart, Taken, Past, choice, x
      <4>4. IsDb(Has(d))'
        BY <2>1, <3>1, <4>1, IsDbUnion DEF DbOK, IsDb
      <4>5. /\ d \notin needs'
            /\ FileOption(d) \notin given' => Has(d)' = SysPart(d)'
        BY <1>1, <3>1, <3>3, <4>1, <4>2, <4>3 DEF DbOK
      <4>6. FileOption(d) \in given' =>
                \E s \in menu'.secdbs \ {Damaged} : Has(d)' = s \cup SysPart(d)'
        BY <1>1, <3>1, <4>1, <4>2, <4>3 DEF DbOK, choice
      <4> QED
        BY <4>2, <4>4, <4>5, <4>6 DEF DbOK
    <3> QED
      BY <3>2, <3>3
  <2> QED
    BY <1>1, <2>2 DEF OptInv, choice
<1> QED
    BY <1>2, <1>3

\* The default: the database e of the system is loaded on the way to next.
LEMMA DefaultKeeps ==
    ASSUME OptInv, NEW e \in Dbs, NEW next, DefaultDb(e, e, next),
           e = "db" => next = "dbx", e = "dbx" => next = "parse"
    PROVE  OptInv'
<1> DEFINE x == IF sys[e].kind = "there" THEN sys[e].entries ELSE {}
<1>1. phase = e /\ UNCHANGED <<choice, given, needs>>
    BY DEF DefaultDb
<1>2. CASE phase' = "exit"
    BY <1>1, <1>2 DEF OptInv, choice
<1>3. CASE phase' # "exit"
  <2>1. /\ phase' = next /\ (e \in needs => IsDb(x))
        /\ db' = IF e = "db" /\ e \in needs THEN db \cup x ELSE db
        /\ dbx' = IF e = "dbx" /\ e \in needs THEN dbx \cup x ELSE dbx
    BY <1>3, LoadVarFacts DEF DefaultDb
  <2> HIDE DEF x
  <2>2. ASSUME NEW d \in Dbs PROVE DbOK(d)'
    <3>1. DbOK(d)
      BY <1>1 DEF OptInv, Dbs
    <3>2. CASE d # e
      <4>1. Has(d)' = Has(d) /\ Past(d)' = Past(d)
        BY <1>1, <2>1, <3>2 DEF Has, Past, Dbs
      <4>2. SysPart(d)' = SysPart(d)
        BY <1>1, <4>1 DEF SysPart, Taken, choice
      <4> QED
        BY <1>1, <3>1, <4>1, <4>2 DEF DbOK, choice
    <3>3. CASE d = e /\ d \in needs
      <4>1. /\ Has(d)' = Has(d) \cup x /\ ~Past(d) /\ Past(d)'
            /\ given \cap {FileOption(d), OnOption(d), OffOption(d)} = {}
        BY <1>1, <2>1, <3>1, <3>3 DEF Has, Past, DbOK, Dbs
      <4>2. SysPart(d)' = x /\ SysPart(d) = {}
        BY <1>1, <3>3, <4>1 DEF SysPart, Taken, choice, x
      <4>3. IsDb(Has(d))'
        BY <2>1, <3>1, <3>3, <4>1, IsDbUnion DEF DbOK, IsDb
      <4> QED
        BY <1>1, <3>1, <4>1, <4>2, <4>3 DEF DbOK
    <3>4. CASE d = e /\ d \notin needs
      <4>1. Has(d)' = Has(d)
        BY <2>1, <3>4 DEF Has, Dbs
      <4>2. given \cap {FileOption(d), OnOption(d), OffOption(d)} # {}
        BY <3>1, <3>4 DEF DbOK
      <4>3. SysPart(d)' = SysPart(d)
        BY <1>1, <4>2 DEF SysPart, Taken, choice
      <4> QED
        BY <1>1, <3>1, <4>1, <4>3 DEF DbOK, choice
    <3> QED
      BY <3>2, <3>3, <3>4
  <2> QED
    BY <1>1, <2>2 DEF OptInv, choice
<1> QED
    BY <1>2, <1>3

LEMMA OptNext ==
    ASSUME OptInv, [Next]_vars
    PROVE  OptInv'
<1>1. CASE Flag("-e", "explain") \/ Flag("-f", "first") \/ Flag("-i -", "stdin")
    BY <1>1, FlagKeeps
<1>2. CASE NoSystem("-D", "db") \/ NoSystem("-X", "dbx")
    BY <1>2, NoSystemKeeps DEF OffOption, Dbs
<1>3. CASE FromFile("-d", "db") \/ FromFile("-x", "dbx")
    BY <1>3, FromFileKeeps DEF FileOption, Dbs
<1>4. CASE FromSystem("-s", "db") \/ FromSystem("-S", "dbx")
    BY <1>4, FromSystemKeeps DEF OnOption, Dbs
<1>5. CASE DefaultDb("db", "db", "dbx") \/ DefaultDb("dbx", "dbx", "parse")
    BY <1>5, DefaultKeeps DEF Dbs
<1>6. CASE AddFile \/ Loading \/ Loaded
    BY <1>6, DbsKept DEF AddFile, Loading, Loaded, OptInv, Past, choice, dbs, DbOK
<1>7. CASE LoadFailed \/ Killed
    BY <1>7, DbsKept DEF LoadFailed, Killed, Exit
<1>8. CASE EndOptions \/ EndArgs
    BY <1>8, DbsKept DEF EndOptions, EndArgs, Parsing, Past
<1>9. CASE ParseSecdbInfo \/ ChooseInput \/ EndInput
    BY <1>9, DbsKept DEF ParseSecdbInfo, ChooseInput, EndInput, Exit, Past
<1>10. CASE CheckHashes \/ ScoreSig \/ FileScored \/ Sort \/ PrintFile \/ Finish
    BY <1>10, DbsKept DEF CheckHashes, ScoreSig, FileScored, Sort, PrintFile, Finish, Past
<1>11. CASE UNCHANGED vars
    BY <1>11, DbsKept DEF vars, Past
<1> QED
    BY <1>1, <1>2, <1>3, <1>4, <1>5, <1>6, <1>7, <1>8, <1>9, <1>10, <1>11 DEF Next

\* The databases are, at every moment, the files that were given and what was
\* taken of the system so far.
THEOREM OptInvariance == Spec => []OptInv
BY OptInit, OptNext, PTL DEF Spec

\* The databases sbchooser judges by are those the options name, in whatever
\* order and combination they are given (main of sbchooser.c).
THEOREM OptionsHeeded == Spec => []OptionsRight
<1>1. OptInv => OptionsRight
  <2> SUFFICES ASSUME OptInv, phase \in {"input", "stdin", "score", "print", "done"} PROVE OptionsRight
    BY DEF OptionsRight
  <2>1. \A d \in Dbs : DbOK(d) /\ Past(d)
    BY DEF OptInv, Past
  <2> QED
    BY <2>1 DEF OptionsRight, DbOK, SysPart, Taken, Has, FileOption, OnOption, OffOption, Dbs
<1> QED
    BY <1>1, OptInvariance, PTL

(***************************************************************************)
(* The signatures of a file                                                *)
(***************************************************************************)

\* s has the signatures among the first n certificates of the table t.
FoundTo(t, n, s) ==
    /\ s \in Seq(Seq(Certificate)) /\ Len(s) = NumSigs(t, n)
    /\ \A k \in 1 .. n : t[k].kind = "pkcs7" =>
            NumSigs(t, k) \in 1 .. Len(s) /\ s[NumSigs(t, k)] = t[k].signers
    /\ \A i \in 1 .. Len(s) : \E k \in 1 .. n : t[k].kind = "pkcs7" /\ NumSigs(t, k) = i

\* The walk over the table is behind certificates that have a length.
Walking(i) ==
    LET t == i.table IN
    /\ pos.entry \in 1 .. Len(t) + 1 /\ pos.off = TableEnd(t)[pos.entry - 1]
    /\ \A k \in 1 .. pos.entry - 1 : t[k].len > 0
    /\ FoundTo(t, pos.entry - 1, sigs)

\* The walk is over; it covered the table if nothing in it ended it.
Found(i, s) ==
    \E n \in 0 .. Len(i.table) :
        FoundTo(i.table, n, s) /\ (Whole(i) => n = Len(i.table))

LoadInv ==
    /\ lpc # "idle" => /\ phase \in {"options", "args", "stdin"}
                       /\ loading.name \in DOMAIN Files /\ img = Files[loading.name]
    /\ lpc \in {"idle", "headers"} => sigs = <<>> /\ pos = [entry |-> 1, off |-> 0]
    /\ lpc = "sigs" => Walking(img)
    /\ lpc \in {"hash", "sort", "sections", "rest", "loaded"} => Found(img, sigs)

LEMMA FileTable ==
    ASSUME NEW n \in DOMAIN Files
    PROVE  Files[n].table \in Seq(TableEntry) /\ Files[n].dirsize \in Nat
    BY FilesAssumption, WordAssumption DEF Image, U32

LEMMA EntryType ==
    ASSUME NEW t \in Seq(TableEntry), NEW k \in 1 .. Len(t)
    PROVE  /\ t[k].kind \in {"pkcs7", "other", "bad"} /\ t[k].len \in Nat
           /\ t[k].signers \in Seq(Certificate)
<1>1. t[k] \in TableEntry
    OBVIOUS
<1> QED
    BY <1>1, WordAssumption DEF TableEntry, U32

LEMMA NumSigsFacts ==
    ASSUME NEW t \in Seq(TableEntry)
    PROVE  /\ NumSigs(t, 0) = 0
           /\ \A k \in 0 .. Len(t) : NumSigs(t, k) \in Nat
           /\ \A k \in 0 .. Len(t) - 1 :
                NumSigs(t, k + 1) = NumSigs(t, k) + (IF t[k + 1].kind = "pkcs7" THEN 1 ELSE 0)
<1> DEFINE J(k) == {j \in 1 .. k : t[j].kind = "pkcs7"}
<1>1. ASSUME NEW k \in Nat PROVE IsFiniteSet(J(k)) /\ Cardinality(J(k)) \in Nat
  <2>1. IsFiniteSet(1 .. k)
    BY FS_Interval
  <2>2. IsFiniteSet(J(k))
    BY <2>1, FS_Subset
  <2> QED
    BY <2>2, FS_CardinalityType
<1>2. Cardinality(J(0)) = 0
  <2>1. J(0) = {}
    OBVIOUS
  <2> QED
    BY <2>1, FS_EmptySet
<1>3. ASSUME NEW k \in Nat
      PROVE  IF t[k + 1].kind = "pkcs7" THEN J(k + 1) = J(k) \cup {k + 1} /\ k + 1 \notin J(k)
             ELSE J(k + 1) = J(k)
    OBVIOUS
<1>4. \A k : NumSigs(t, k) = Cardinality(J(k))
    BY DEF NumSigs
<1> HIDE DEF J
<1>5. ASSUME NEW k \in Nat
      PROVE  Cardinality(J(k + 1)) = Cardinality(J(k)) + (IF t[k + 1].kind = "pkcs7" THEN 1 ELSE 0)
  <2>1. IsFiniteSet(J(k)) /\ Cardinality(J(k)) \in Nat
    BY <1>1
  <2>2. CASE t[k + 1].kind = "pkcs7"
    <3>1. J(k + 1) = J(k) \cup {k + 1} /\ k + 1 \notin J(k)
      BY <1>3, <2>2
    <3>2. Cardinality(J(k) \cup {k + 1}) = Cardinality(J(k)) + 1
      BY <2>1, <3>1, FS_AddElement
    <3> QED
      BY <2>2, <3>1, <3>2
  <2>3. CASE t[k + 1].kind # "pkcs7"
    <3>1. J(k + 1) = J(k)
      BY <1>3, <2>3
    <3> QED
      BY <2>1, <2>3, <3>1
  <2> QED
    BY <2>2, <2>3
<1>6. Len(t) \in Nat /\ \A k \in 0 .. Len(t) : k \in Nat
    OBVIOUS
<1>7. \A k \in 0 .. Len(t) - 1 : k \in Nat
    BY <1>6
<1> QED
    BY <1>1, <1>2, <1>4, <1>5, <1>6, <1>7

LEMMA TableEndFacts ==
    ASSUME NEW t \in Seq(TableEntry)
    PROVE  /\ TableEnd(t)[0] = 0
           /\ \A k \in 1 .. Len(t) : TableEnd(t)[k] = TableEnd(t)[k - 1] + t[k].len
           /\ (\A k \in 1 .. Len(t) : t[k].len > 0) =>
                /\ \A k \in 0 .. Len(t) : TableEnd(t)[k] \in Nat
                /\ \A i, j \in 0 .. Len(t) : i < j => TableEnd(t)[i] < TableEnd(t)[j]
<1> DEFINE n == Len(t)
           s == [k \in 1 .. n |-> t[k].len]
           IsEnd(g) == g = [k \in 0 .. n |-> IF k = 0 THEN 0 ELSE g[k - 1] + t[k].len]
<1>1. n \in Nat /\ \A k \in 1 .. n : s[k] = t[k].len /\ t[k].len \in Nat
    BY EntryType
<1>2. \E g : IsEnd(g)
  <2>1. PICK g : IsSum(g, s, n)
    BY <1>1, SumsExist
  <2>2. ASSUME NEW k \in 0 .. n
        PROVE  (IF k = 0 THEN 0 ELSE g[k - 1] + s[k]) = (IF k = 0 THEN 0 ELSE g[k - 1] + t[k].len)
    BY <1>1
  <2> HIDE DEF n, s
  <2>3. IsEnd(g)
    BY <2>1, <2>2 DEF IsSum
  <2> QED
    BY <2>3
<1>3. IsEnd(TableEnd(t))
  <2>1. TableEnd(t) = CHOOSE g : IsEnd(g)
    BY DEF TableEnd
  <2> QED
    BY <1>2, <2>1
<1>4. IsSum(TableEnd(t), s, n)
  <2>1. ASSUME NEW g, NEW k \in 0 .. n
        PROVE  (IF k = 0 THEN 0 ELSE g[k - 1] + s[k]) = (IF k = 0 THEN 0 ELSE g[k - 1] + t[k].len)
    BY <1>1
  <2> HIDE DEF n, s
  <2> QED
    BY <1>3, <2>1 DEF IsSum
<1> HIDE DEF s, IsEnd
<1>5. /\ TableEnd(t)[0] = 0
      /\ \A k \in 1 .. n : TableEnd(t)[k] = TableEnd(t)[k - 1] + t[k].len
    BY <1>1, <1>4, SumSteps
<1>6. ASSUME \A k \in 1 .. n : t[k].len > 0
      PROVE  /\ \A k \in 0 .. n : TableEnd(t)[k] \in Nat
             /\ \A i, j \in 0 .. n : i < j => TableEnd(t)[i] < TableEnd(t)[j]
  <2>1. \A k \in 1 .. n : s[k] \in Nat \ {0}
    BY <1>1, <1>6
  <2> QED
    BY <1>1, <1>4, <2>1, SumsGrow
<1> QED
    BY <1>5, <1>6

\* One more certificate of the table
LEMMA FoundNext ==
    ASSUME NEW t \in Seq(TableEntry), NEW n \in 0 .. Len(t) - 1, NEW s, FoundTo(t, n, s)
    PROVE  /\ t[n + 1].kind # "pkcs7" => FoundTo(t, n + 1, s)
           /\ t[n + 1].kind = "pkcs7" => FoundTo(t, n + 1, Append(s, t[n + 1].signers))
<1> DEFINE e == t[n + 1]
<1>0. n \in Nat /\ n + 1 \in 1 .. Len(t) /\ n + 1 \in 0 .. Len(t) /\ n \in 0 .. Len(t)
    OBVIOUS
<1>1. /\ NumSigs(t, n) \in Nat /\ NumSigs(t, n + 1) \in Nat
      /\ NumSigs(t, n + 1) = NumSigs(t, n) + (IF e.kind = "pkcs7" THEN 1 ELSE 0)
    BY <1>0, NumSigsFacts
<1>2. s \in Seq(Seq(Certificate)) /\ Len(s) = NumSigs(t, n) /\ e.signers \in Seq(Certificate)
    BY <1>0, EntryType DEF FoundTo
<1>3. CASE e.kind # "pkcs7"
  <2>1. NumSigs(t, n + 1) = NumSigs(t, n)
    BY <1>1, <1>3
  <2>2. \A k \in 1 .. n + 1 : t[k].kind = "pkcs7" => k \in 1 .. n
    BY <1>0, <1>3
  <2>3. \A k \in 1 .. n : k \in 1 .. n + 1
    BY <1>0
  <2> HIDE DEF e
  <2> QED
    BY <1>3, <2>1, <2>2, <2>3 DEF FoundTo, e
<1>4. CASE e.kind = "pkcs7"
  <2> DEFINE r == Append(s, e.signers)
             m == Len(s)
  <2>1. /\ m \in Nat /\ r \in Seq(Seq(Certificate)) /\ Len(r) = m + 1 /\ r[m + 1] = e.signers
        /\ \A i \in 1 .. m : r[i] = s[i]
    BY <1>2
  <2>2. NumSigs(t, n + 1) = m + 1
    BY <1>1, <1>2, <1>4
  <2> HIDE DEF r, m
  <2>3. ASSUME NEW k \in 1 .. n + 1, t[k].kind = "pkcs7"
        PROVE  NumSigs(t, k) \in 1 .. Len(r) /\ r[NumSigs(t, k)] = t[k].signers
    <3>1. CASE k = n + 1
      BY <2>1, <2>2, <3>1
    <3>2. CASE k \in 1 .. n
      <4>1. NumSigs(t, k) \in 1 .. m /\ s[NumSigs(t, k)] = t[k].signers
        BY <2>3, <3>2 DEF FoundTo, m
      <4>2. NumSigs(t, k) \in 1 .. m + 1
        BY <2>1, <4>1
      <4> QED
        BY <2>1, <4>1, <4>2
    <3> QED
      BY <1>0, <3>1, <3>2
  <2>4. ASSUME NEW i \in 1 .. Len(r)
        PROVE  \E k \in 1 .. n + 1 : t[k].kind = "pkcs7" /\ NumSigs(t, k) = i
    <3>1. CASE i = m + 1
      BY <1>0, <1>4, <2>2, <3>1
    <3>2. CASE i \in 1 .. m
      <4>1. PICK k \in 1 .. n : t[k].kind = "pkcs7" /\ NumSigs(t, k) = i
        BY <3>2 DEF FoundTo, m
      <4>2. k \in 1 .. n + 1
        BY <1>0
      <4> QED
        BY <4>1, <4>2
    <3> QED
      BY <2>1, <3>1, <3>2
  <2>5. FoundTo(t, n + 1, r)
    BY <2>1, <2>2, <2>3, <2>4 DEF FoundTo
  <2> QED
    BY <1>4, <2>5 DEF r
<1> QED
    BY <1>3, <1>4

LEMMA FoundNone ==
    ASSUME NEW t \in Seq(TableEntry)
    PROVE  FoundTo(t, 0, <<>>)
<1>1. NumSigs(t, 0) = 0
    BY NumSigsFacts
<1>2. <<>> \in Seq(Seq(Certificate)) /\ Len(<<>>) = 0
    OBVIOUS
<1> QED
    BY <1>1, <1>2 DEF FoundTo

\* While the walk over a whole table goes on there is a certificate at its place.
LEMMA EntryThere ==
    ASSUME NEW n \in DOMAIN Files, img = Files[n], Walking(img), Whole(img)
    PROVE  /\ TableEnds => pos.entry = Len(img.table) + 1
           /\ ~TableEnds => pos.entry \in 1 .. Len(img.table)
<1> DEFINE t == img.table
<1>1. t \in Seq(TableEntry) /\ img.dirsize \in Nat /\ Len(t) \in Nat /\ DOMAIN t = 1 .. Len(t)
    BY FileTable
<1>2. img.dirsize = TableEnd(t)[Len(t)] /\ \A k \in 1 .. Len(t) : t[k].len > 0
    BY <1>1 DEF Whole
<1>3. pos.entry \in 1 .. Len(t) + 1 /\ pos.off = TableEnd(t)[pos.entry - 1]
    BY DEF Walking
<1>4. ASSUME TableEnds, pos.entry # Len(t) + 1 PROVE FALSE
  <2>1. pos.entry - 1 \in 0 .. Len(t) /\ Len(t) \in 0 .. Len(t) /\ pos.entry - 1 < Len(t)
    BY <1>1, <1>3, <1>4
  <2>2. /\ TableEnd(t)[pos.entry - 1] \in Nat /\ TableEnd(t)[Len(t)] \in Nat
        /\ TableEnd(t)[pos.entry - 1] < TableEnd(t)[Len(t)]
    BY <1>1, <1>2, <2>1, TableEndFacts
  <2> QED
    BY <1>2, <1>3, <1>4, <2>2 DEF TableEnds
<1>5. ASSUME ~TableEnds, pos.entry \notin 1 .. Len(t) PROVE FALSE
  <2>1. pos.entry = Len(t) + 1 /\ pos.entry - 1 = Len(t)
    BY <1>1, <1>3, <1>5
  <2>2. pos.off = img.dirsize
    BY <1>2, <1>3, <2>1
  <2> QED
    BY <1>1, <1>5, <2>2 DEF TableEnds
<1> QED
    BY <1>4, <1>5

\* SkipCert and AddSig go on, or end the walk at a certificate without a length.
LEMMA WalkStep ==
    ASSUME NEW n \in DOMAIN Files, img = Files[n], img' = img, Walking(img), AtCert, Advance,
           \/ Entry.kind = "other" /\ sigs' = sigs
           \/ Entry.kind = "pkcs7" /\ sigs' = Append(sigs, Entry.signers)
    PROVE  \/ lpc' = "sigs" /\ Walking(img)'
           \/ lpc' = "hash" /\ Found(img, sigs)'
<1> DEFINE t == img.table
           k == pos.entry
<1>1. t \in Seq(TableEntry) /\ Len(t) \in Nat /\ k \in 1 .. Len(t)
    BY FileTable DEF Walking, AtCert
<1>2. FoundTo(t, k - 1, sigs) /\ (k - 1) + 1 = k /\ k - 1 \in 0 .. Len(t) - 1
    BY <1>1 DEF Walking
<1>3. FoundTo(t, k, sigs')
    BY <1>1, <1>2, FoundNext DEF Entry
<1>4. t[k].len \in Nat
    BY <1>1, EntryType
<1>5. CASE Entry.len = 0
  <2>1. lpc' = "hash"
    BY <1>5 DEF Advance
  <2>2. ~Whole(img)
    BY <1>1, <1>5 DEF Whole, Entry
  <2>3. k \in 0 .. Len(t)
    BY <1>1
  <2>4. \E m \in 0 .. Len(t) : FoundTo(t, m, sigs') /\ (Whole(img) => m = Len(t))
    BY <1>3, <2>2, <2>3
  <2> QED
    BY <2>1, <2>4 DEF Found, Whole, TableEnd
<1>6. CASE Entry.len # 0
  <2>1. lpc' = "sigs" /\ pos' = [entry |-> k + 1, off |-> pos.off + Entry.len]
    BY <1>6 DEF Advance, AtCert
  <2>2. pos'.entry = k + 1 /\ pos'.off = pos.off + t[k].len
    BY <2>1 DEF Entry
  <2>3. TableEnd(t)[k] = TableEnd(t)[k - 1] + t[k].len
    BY <1>1, TableEndFacts
  <2>4. pos'.off = TableEnd(t)[k]
    BY <2>2, <2>3 DEF Walking
  <2>5. \A j \in 1 .. k : t[j].len > 0
    <3>1. t[k].len > 0
      BY <1>4, <1>6 DEF Entry
    <3>2. \A j \in 1 .. k - 1 : t[j].len > 0
      BY DEF Walking
    <3> QED
      BY <1>1, <3>1, <3>2
  <2>6. pos'.entry \in 1 .. Len(t) + 1 /\ pos'.entry - 1 = k
    BY <1>1, <2>2
  <2> HIDE DEF k
  <2>7. Walking(img)'
    BY <1>3, <2>4, <2>5, <2>6 DEF Walking
  <2> QED
    BY <2>1, <2>7
<1> QED
    BY <1>5, <1>6

LEMMA FoundKept ==
    ASSUME img' = img, sigs' = sigs
    PROVE  Found(img, sigs)' <=> Found(img, sigs)
    BY DEF Found, FoundTo, NumSigs, Whole, TableEnd

LEMMA WalkKept ==
    ASSUME img' = img, sigs' = sigs, pos' = pos
    PROVE  Walking(img)' <=> Walking(img)
    BY DEF Walking, FoundTo, NumSigs, TableEnd

\* A step outside of parse_sigs
LEMMA LateStep ==
    ASSUME LoadInv, lpc \in {"hash", "sort", "sections", "rest"},
           lpc' \in {"sort", "sections", "rest", "loaded", "failed", "killed"},
           UNCHANGED <<img, sigs, phase, loading>>
    PROVE  LoadInv'
<1>1. Found(img, sigs)
    BY DEF LoadInv
<1>2. Found(img, sigs)'
    BY <1>1, FoundKept
<1> QED
    BY <1>2 DEF LoadInv

LEMMA LoadStepKeeps ==
    ASSUME LoadInv, LoadStep, UNCHANGED <<phase, loading>>
    PROVE  LoadInv'
<1> DEFINE t == img.table
<1>1. CASE CheckHeaders
  <2>1. /\ lpc = "headers" /\ lpc' \in {"sigs", "failed"} /\ UNCHANGED <<img, pos, sigs>>
    BY <1>1 DEF CheckHeaders
  <2>2. /\ loading.name \in DOMAIN Files /\ img = Files[loading.name]
        /\ sigs = <<>> /\ pos.entry = 1 /\ pos.off = 0
    BY <2>1 DEF LoadInv
  <2>3. t \in Seq(TableEntry) /\ Len(t) \in Nat
    BY <2>2, FileTable
  <2>4. TableEnd(t)[0] = 0 /\ FoundTo(t, 0, sigs)
    BY <2>2, <2>3, TableEndFacts, FoundNone
  <2>5. Walking(img)
    BY <2>2, <2>3, <2>4 DEF Walking
  <2>6. Walking(img)'
    BY <2>1, <2>5, WalkKept
  <2> QED
    BY <2>1, <2>6 DEF LoadInv
<1>2. CASE EndSigs
  <2>1. lpc = "sigs" /\ lpc' = "hash" /\ TableEnds /\ UNCHANGED <<img, pos, sigs>>
    BY <1>2 DEF EndSigs
  <2>2. loading.name \in DOMAIN Files /\ img = Files[loading.name] /\ Walking(img)
    BY <2>1 DEF LoadInv
  <2>3. Whole(img) => pos.entry = Len(t) + 1
    BY <2>1, <2>2, EntryThere
  <2>4. t \in Seq(TableEntry) /\ Len(t) \in Nat
    BY <2>2, FileTable
  <2>5. /\ pos.entry - 1 \in 0 .. Len(t) /\ (Whole(img) => pos.entry - 1 = Len(t))
        /\ FoundTo(t, pos.entry - 1, sigs)
    BY <2>2, <2>3, <2>4 DEF Walking
  <2>6. Found(img, sigs)
    BY <2>5 DEF Found
  <2>7. Found(img, sigs)'
    BY <2>1, <2>6, FoundKept
  <2> QED
    BY <2>1, <2>7 DEF LoadInv
<1>3. CASE SkipCert \/ AddSig
  <2>1. /\ lpc = "sigs" /\ AtCert /\ Advance /\ img' = img
        /\ \/ Entry.kind = "other" /\ sigs' = sigs
           \/ Entry.kind = "pkcs7" /\ sigs' = Append(sigs, Entry.signers)
    BY <1>3 DEF SkipCert, AddSig, AtCert
  <2>2. loading.name \in DOMAIN Files /\ img = Files[loading.name] /\ Walking(img)
    BY <2>1 DEF LoadInv
  <2>3. \/ lpc' = "sigs" /\ Walking(img)'
        \/ lpc' = "hash" /\ Found(img, sigs)'
    BY <2>1, <2>2, WalkStep
  <2> QED
    BY <2>1, <2>3 DEF LoadInv
<1>4. CASE BadSig
    BY <1>4 DEF BadSig, AtCert, LoadInv
<1>11. CASE StrayCert
  <2>1. /\ lpc = "sigs" /\ lpc' \in {"hash", "failed", "killed"} /\ pos.entry > Len(t)
        /\ UNCHANGED <<img, pos, sigs>>
    BY <1>11 DEF StrayCert
  <2>2. loading.name \in DOMAIN Files /\ img = Files[loading.name] /\ Walking(img)
    BY <2>1 DEF LoadInv
  <2>3. Len(t) \in Nat /\ pos.entry \in 1 .. Len(t) + 1
    BY <2>2, FileTable DEF Walking
  <2>4. pos.entry - 1 = Len(t) /\ Len(t) \in 0 .. Len(t)
    BY <2>1, <2>3
  <2>5. FoundTo(t, Len(t), sigs)
    BY <2>2, <2>4 DEF Walking
  <2>6. Found(img, sigs)
    BY <2>4, <2>5 DEF Found
  <2>7. Found(img, sigs)'
    BY <2>1, <2>6, FoundKept
  <2> QED
    BY <2>1, <2>7 DEF LoadInv
<1>5. CASE HashHeaders
    BY <1>5, LateStep DEF HashHeaders, Update
<1>6. CASE SortSection
    BY <1>6, LateStep DEF SortSection
<1>7. CASE SectionsSorted
    BY <1>7, LateStep DEF SectionsSorted
<1>8. CASE HashSection
    BY <1>8, LateStep DEF HashSection, Update
<1>9. CASE HashUpToTable
    BY <1>9, LateStep DEF HashUpToTable, Update
<1>10. CASE HashRest
    BY <1>10, LateStep DEF HashRest, Update
<1> QED
    BY <1>1, <1>2, <1>3, <1>4, <1>5, <1>6, <1>7, <1>8, <1>9, <1>10, <1>11 DEF LoadStep

\* A step outside of load_pe
LEMMA NoLoad ==
    ASSUME LoadInv, UNCHANGED <<img, lpc, pos, sigs, loading>>,
           phase' = phase \/ lpc = "idle"
    PROVE  LoadInv'
<1>1. Walking(img)' <=> Walking(img)
    BY WalkKept
<1>2. Found(img, sigs)' <=> Found(img, sigs)
    BY FoundKept
<1> QED
    BY <1>1, <1>2 DEF LoadInv

LEMMA LoadInit == Init => LoadInv
    BY DEF Init, PeInit, LoadInv

LEMMA LoadNext ==
    ASSUME LoadInv, OptInv, [Next]_vars
    PROVE  LoadInv'
<1>1. CASE \/ Flag("-e", "explain") \/ Flag("-f", "first") \/ Flag("-i -", "stdin")
           \/ NoSystem("-D", "db") \/ NoSystem("-X", "dbx")
           \/ FromFile("-d", "db") \/ FromFile("-x", "dbx")
           \/ FromSystem("-s", "db") \/ FromSystem("-S", "dbx")
    BY <1>1, NoLoad DEF Flag, NoSystem, FromFile, FromSystem, Option, Parsing, peVars
<1>2. CASE DefaultDb("db", "db", "dbx") \/ DefaultDb("dbx", "dbx", "parse")
  <2>1. lpc = "idle" /\ UNCHANGED <<img, lpc, pos, sigs, loading>>
    BY <1>2 DEF LoadInv, DefaultDb, peVars
  <2> QED
    BY <2>1, NoLoad
<1>3. CASE AddFile
  <2>1. PICK n \in menu.files : StartLoad(Files[n]) /\ loading' = [name |-> n, back |-> phase]
    BY <1>3 DEF AddFile
  <2>2. n \in DOMAIN Files
    BY MenusAssumption DEF OptInv
  <2>3. phase' \in {"options", "args", "stdin"}
    BY <1>3 DEF AddFile, Parsing
  <2> QED
    BY <2>1, <2>2, <2>3 DEF LoadInv, StartLoad
<1>4. CASE Loading
    BY <1>4, LoadStepKeeps DEF Loading
<1>5. CASE Loaded \/ LoadFailed \/ Killed
    BY <1>5 DEF Loaded, LoadFailed, Killed, EndLoad, LoadInv
<1>6. CASE EndOptions \/ EndArgs \/ EndInput
    BY <1>6, NoLoad DEF EndOptions, EndArgs, EndInput, Parsing, peVars
<1>7. CASE ParseSecdbInfo \/ ChooseInput \/ Sort \/ Finish
  <2>1. lpc = "idle" /\ UNCHANGED <<img, lpc, pos, sigs, loading>>
    BY <1>7 DEF LoadInv, ParseSecdbInfo, ChooseInput, Sort, Finish, peVars
  <2> QED
    BY <2>1, NoLoad
<1>8. CASE CheckHashes \/ ScoreSig \/ FileScored \/ PrintFile
    BY <1>8, NoLoad DEF CheckHashes, ScoreSig, FileScored, PrintFile, peVars
<1>9. CASE UNCHANGED vars
    BY <1>9, NoLoad DEF vars, peVars
<1> QED
    BY <1>1, <1>2, <1>3, <1>4, <1>5, <1>6, <1>7, <1>8, <1>9 DEF Next

\* While load_pe runs, what it found is what the certificate table has up to
\* where it is.
THEOREM LoadInvariance == Spec => []LoadInv
<1>1. LoadInv /\ OptInv /\ [Next]_vars => LoadInv'
    BY LoadNext
<1> QED
    BY <1>1, LoadInit, OptInvariance, PTL DEF Spec

\* parse_sigs finds every signature of a certificate table of any length, in
\* its order, whatever other certificates are among them.
THEOREM SignaturesFound == Spec => []SigsComplete
<1>1. LoadInv => SigsComplete
  <2> SUFFICES ASSUME LoadInv, lpc = "loaded", Whole(img)
               PROVE  /\ Len(sigs) = NumSigs(img.table, Len(img.table))
                      /\ \A k \in DOMAIN img.table :
                            img.table[k].kind = "pkcs7" =>
                                sigs[NumSigs(img.table, k)] = img.table[k].signers
    BY DEF SigsComplete
  <2>1. FoundTo(img.table, Len(img.table), sigs)
    BY DEF LoadInv, Found
  <2>2. DOMAIN img.table = 1 .. Len(img.table)
    BY FileTable DEF LoadInv
  <2> QED
    BY <2>1, <2>2 DEF FoundTo
<1> QED
    BY <1>1, LoadInvariance, PTL

(***************************************************************************)
(* The digest                                                              *)
(***************************************************************************)

LEMMA RemoveFacts ==
    ASSUME NEW S, NEW s \in Seq(S), NEW q \in 1 .. Len(s)
    PROVE  /\ RemoveAt(s, q) \in Seq(S) /\ Len(RemoveAt(s, q)) = Len(s) - 1
           /\ \A k \in 1 .. Len(s) - 1 : RemoveAt(s, q)[k] = IF k < q THEN s[k] ELSE s[k + 1]
<1> DEFINE a == SubSeq(s, 1, q - 1)
           b == SubSeq(s, q + 1, Len(s))
           z == a \o b
<1>1. Len(s) \in Nat /\ \A k \in 1 .. Len(s) : s[k] \in S
    BY LenProperties
<1>2. /\ a \in Seq(S) /\ Len(a) = q - 1
      /\ \A k \in 1 .. q - 1 : a[k] = s[k]
  <2>1. \A k \in 1 .. q - 1 : s[k] \in S
    BY <1>1
  <2> QED
    BY <1>1, <2>1, SubSeqProperties
<1>3. /\ b \in Seq(S) /\ Len(b) = Len(s) - q
      /\ \A k \in 1 .. Len(s) - q : b[k] = s[q + k]
  <2>1. \A k \in q + 1 .. Len(s) : s[k] \in S
    BY <1>1
  <2> QED
    BY <1>1, <2>1, SubSeqProperties
<1>4. RemoveAt(s, q) = z
    BY DEF RemoveAt
<1> HIDE DEF a, b
<1>5. /\ z \in Seq(S) /\ Len(z) = Len(s) - 1
      /\ \A k \in 1 .. Len(s) - 1 : z[k] = IF k <= q - 1 THEN a[k] ELSE b[k - (q - 1)]
    BY <1>1, <1>2, <1>3, ConcatProperties
<1> HIDE DEF z
<1>6. ASSUME NEW k \in 1 .. Len(s) - 1
      PROVE  z[k] = IF k < q THEN s[k] ELSE s[k + 1]
  <2>1. CASE k < q
    BY <1>1, <1>2, <1>5, <2>1
  <2>2. CASE k >= q
    <3>1. k - (q - 1) \in 1 .. Len(s) - q /\ q + (k - (q - 1)) = k + 1
      BY <1>1, <2>2
    <3> QED
      BY <1>1, <1>3, <1>5, <2>2, <3>1
  <2>3. k \in Int /\ q \in Int
    BY <1>1
  <2> QED
    BY <2>1, <2>2, <2>3
<1> QED
    BY <1>4, <1>5, <1>6

LEMMA InsertFacts ==
    ASSUME NEW S, NEW s \in Seq(S), NEW e \in S, NEW q \in 1 .. Len(s) + 1
    PROVE  /\ InsertAt(s, q, e) \in Seq(S) /\ Len(InsertAt(s, q, e)) = Len(s) + 1
           /\ \A k \in 1 .. Len(s) + 1 : InsertAt(s, q, e)[k] =
                IF k < q THEN s[k] ELSE IF k = q THEN e ELSE s[k - 1]
<1> DEFINE a == SubSeq(s, 1, q - 1)
           b == SubSeq(s, q, Len(s))
           m == a \o <<e>>
           z == m \o b
<1>1. Len(s) \in Nat /\ \A k \in 1 .. Len(s) : s[k] \in S
    BY LenProperties
<1>2. /\ a \in Seq(S) /\ Len(a) = q - 1
      /\ \A k \in 1 .. q - 1 : a[k] = s[k]
  <2>1. \A k \in 1 .. q - 1 : s[k] \in S
    BY <1>1
  <2> QED
    BY <1>1, <2>1, SubSeqProperties
<1>3. /\ b \in Seq(S) /\ Len(b) = Len(s) - q + 1
      /\ \A k \in 1 .. Len(s) - q + 1 : b[k] = s[q + k - 1]
  <2>1. \A k \in q .. Len(s) : s[k] \in S
    BY <1>1
  <2> QED
    BY <1>1, <2>1, SubSeqProperties
<1>4. InsertAt(s, q, e) = z
    BY DEF InsertAt
<1>5. /\ m \in Seq(S) /\ Len(m) = q
      /\ \A k \in 1 .. q : m[k] = IF k < q THEN s[k] ELSE e
  <2> HIDE DEF a, b
  <2>1. <<e>> \in Seq(S) /\ Len(<<e>>) = 1 /\ <<e>>[1] = e
    OBVIOUS
  <2>2. /\ m \in Seq(S) /\ Len(m) = (q - 1) + 1
        /\ \A k \in 1 .. (q - 1) + 1 : m[k] = IF k <= q - 1 THEN a[k] ELSE <<e>>[k - (q - 1)]
    BY <1>2, <2>1, ConcatProperties
  <2> HIDE DEF m
  <2>3. ASSUME NEW k \in 1 .. q PROVE m[k] = IF k < q THEN s[k] ELSE e
    <3>1. CASE k < q
      BY <1>1, <1>2, <2>2, <3>1
    <3>2. CASE k = q
      <4>1. k - (q - 1) = 1 /\ ~(k <= q - 1)
        BY <1>1, <3>2
      <4> QED
        BY <1>1, <2>1, <2>2, <3>2, <4>1
    <3> QED
      BY <1>1, <3>1, <3>2
  <2> QED
    BY <1>1, <2>2, <2>3
<1> HIDE DEF a, b, m
<1>6. /\ z \in Seq(S) /\ Len(z) = Len(s) + 1
      /\ \A k \in 1 .. Len(s) + 1 : z[k] = IF k <= q THEN m[k] ELSE b[k - q]
  <2>1. /\ z \in Seq(S) /\ Len(z) = Len(m) + Len(b)
        /\ \A k \in 1 .. Len(m) + Len(b) : z[k] = IF k <= Len(m) THEN m[k] ELSE b[k - Len(m)]
    BY <1>3, <1>5, ConcatProperties
  <2>2. Len(m) + Len(b) = Len(s) + 1
    BY <1>1, <1>3, <1>5
  <2> HIDE DEF z
  <2> QED
    BY <1>5, <2>1, <2>2
<1> HIDE DEF z
<1>7. ASSUME NEW k \in 1 .. Len(s) + 1
      PROVE  z[k] = IF k < q THEN s[k] ELSE IF k = q THEN e ELSE s[k - 1]
  <2>1. CASE k <= q
    BY <1>1, <1>5, <1>6, <2>1
  <2>2. CASE k > q
    <3>1. k - q \in 1 .. Len(s) - q + 1 /\ q + (k - q) - 1 = k - 1
      BY <1>1, <2>2
    <3> QED
      BY <1>1, <1>3, <1>6, <2>2, <3>1
  <2>3. k \in Int /\ q \in Int
    BY <1>1
  <2> QED
    BY <2>1, <2>2, <2>3
<1> QED
    BY <1>4, <1>6, <1>7

LEMMA U32Nat == U32 \subseteq Nat
    BY WordAssumption DEF U32

ByteAt(i, o) == IF o < i.body THEN o ELSE Zero

LEMMA PieceFacts ==
    ASSUME NEW i \in Image, NEW a \in Nat, NEW n \in Nat
    PROVE  /\ Piece(i, a, n) \in Seq(Int) /\ Len(Piece(i, a, n)) = n
           /\ \A k \in 1 .. n : Piece(i, a, n)[k] = ByteAt(i, a + k - 1)
<1>1. i.body \in Nat
    BY DEF Image
<1>2. \A k \in 1 .. n : (IF a + k - 1 < i.body THEN a + k - 1 ELSE Zero) \in Int
    BY <1>1 DEF Zero
<1> QED
    BY <1>1, <1>2 DEF Piece, ByteAt

\* The k-th byte that is hashed
Place(i, k) == IF k <= Checksum(i) THEN k - 1 ELSE IF k < SecDir(i) THEN k ELSE k + 1

LEMMA Offsets ==
    ASSUME NEW i \in Image
    PROVE  Checksum(i) \in Nat /\ SecDir(i) \in Nat /\ Checksum(i) < SecDir(i)
<1>1. i.lfanew \in Nat
    BY U32Nat DEF Image
<1> QED
    BY <1>1, DirAssumption DEF Checksum, SecDir, FileHeader, OptFixed

LEMMA HashableFacts ==
    ASSUME NEW i \in Image, NEW n \in Nat, n > SecDir(i)
    PROVE  /\ Hashable(i, n) \in Seq(Int) /\ Len(Hashable(i, n)) = n - 2
           /\ \A k \in 1 .. n - 2 : Hashable(i, n)[k] = ByteAt(i, Place(i, k))
<1> DEFINE c == Checksum(i)
           d == SecDir(i)
           p == Piece(i, 0, n)
           r == RemoveAt(p, d + 1)
           h == RemoveAt(r, c + 1)
<1>1. c \in Nat /\ d \in Nat /\ c < d
    BY Offsets
<1>2. /\ p \in Seq(Int) /\ Len(p) = n
      /\ \A k \in 1 .. n : p[k] = ByteAt(i, 0 + k - 1)
    BY PieceFacts
<1>3. h = Hashable(i, n) /\ \A k : Place(i, k) = IF k <= c THEN k - 1 ELSE IF k < d THEN k ELSE k + 1
    BY DEF Hashable, Place
<1>4. n > d
    OBVIOUS
<1> HIDE DEF p
<1>5. /\ r \in Seq(Int) /\ Len(r) = n - 1
      /\ \A k \in 1 .. n - 1 : r[k] = IF k < d + 1 THEN p[k] ELSE p[k + 1]
  <2>1. d + 1 \in 1 .. Len(p)
    BY <1>1, <1>2, <1>4
  <2> QED
    BY <1>2, <2>1, RemoveFacts
<1> HIDE DEF r
<1>6. /\ h \in Seq(Int) /\ Len(h) = n - 2
      /\ \A k \in 1 .. n - 2 : h[k] = IF k < c + 1 THEN r[k] ELSE r[k + 1]
  <2>1. c + 1 \in 1 .. Len(r)
    BY <1>1, <1>4, <1>5
  <2>2. Len(r) - 1 = n - 2
    BY <1>5
  <2> QED
    BY <1>5, <2>1, <2>2, RemoveFacts
<1> HIDE DEF h, c, d
<1>7. ASSUME NEW k \in 1 .. n - 2 PROVE h[k] = ByteAt(i, Place(i, k))
  <2>1. CASE k <= c
    <3>1. h[k] = r[k]
      BY <1>1, <1>6, <2>1
    <3>3. r[k] = p[k]
      BY <1>1, <1>5, <2>1
    <3>4. p[k] = ByteAt(i, 0 + k - 1)
      BY <1>2
    <3>2. Place(i, k) = 0 + k - 1
      BY <1>3, <2>1
    <3> QED
      BY <3>1, <3>2, <3>3, <3>4
  <2>2. CASE k > c /\ k < d
    <3>1. h[k] = r[k + 1]
      BY <1>1, <1>6, <2>2
    <3>3. r[k + 1] = p[k + 1]
      BY <1>1, <1>5, <2>2
    <3>4. p[k + 1] = ByteAt(i, 0 + (k + 1) - 1)
      BY <1>2
    <3>2. Place(i, k) = 0 + (k + 1) - 1
      BY <1>1, <1>3, <2>2
    <3> QED
      BY <3>1, <3>2, <3>3, <3>4
  <2>3. CASE k >= d
    <3>1. h[k] = r[k + 1]
      BY <1>1, <1>6, <2>3
    <3>2. r[k + 1] = p[(k + 1) + 1]
      BY <1>1, <1>5, <2>3
    <3>3. p[(k + 1) + 1] = ByteAt(i, 0 + ((k + 1) + 1) - 1)
      BY <1>1, <1>2, <2>3
    <3>4. Place(i, k) = 0 + ((k + 1) + 1) - 1
      BY <1>1, <1>3, <2>3
    <3> QED
      BY <3>1, <3>2, <3>3, <3>4
  <2> QED
    BY <1>1, <2>1, <2>2, <2>3
<1> QED
    BY <1>3, <1>6, <1>7

\* What follows the first n bytes
LEMMA HashableMore ==
    ASSUME NEW i \in Image, NEW n \in Nat, n > SecDir(i), NEW m \in Nat
    PROVE  Hashable(i, n) \o Piece(i, n, m) = Hashable(i, n + m)
<1> DEFINE h == Hashable(i, n)
           p == Piece(i, n, m)
           g == Hashable(i, n + m)
           z == h \o p
<1>1. Checksum(i) \in Nat /\ SecDir(i) \in Nat /\ Checksum(i) < SecDir(i)
    BY Offsets
<1>2. h \in Seq(Int) /\ Len(h) = n - 2 /\ \A k \in 1 .. n - 2 : h[k] = ByteAt(i, Place(i, k))
    BY HashableFacts
<1>3. p \in Seq(Int) /\ Len(p) = m /\ \A k \in 1 .. m : p[k] = ByteAt(i, n + k - 1)
    BY PieceFacts
<1>4. g \in Seq(Int) /\ Len(g) = n + m - 2 /\ \A k \in 1 .. n + m - 2 : g[k] = ByteAt(i, Place(i, k))
  <2>1. n + m \in Nat /\ n + m > SecDir(i)
    BY <1>1
  <2> QED
    BY <2>1, HashableFacts
<1> HIDE DEF h, p, g
<1>5. z \in Seq(Int) /\ Len(z) = Len(h) + Len(p)
      /\ \A k \in 1 .. Len(h) + Len(p) : z[k] = IF k <= Len(h) THEN h[k] ELSE p[k - Len(h)]
    BY <1>2, <1>3, ConcatProperties
<1> HIDE DEF z
<1>6. Len(z) = n + m - 2
    BY <1>2, <1>3, <1>5
<1>7. ASSUME NEW k \in 1 .. n + m - 2 PROVE z[k] = g[k]
  <2>1. CASE k <= n - 2
    <3>1. z[k] = h[k] /\ h[k] = ByteAt(i, Place(i, k))
      BY <1>2, <1>3, <1>5, <2>1
    <3> QED
      BY <1>4, <3>1
  <2>2. CASE k > n - 2
    <3>1. k - (n - 2) \in 1 .. m /\ n + (k - (n - 2)) - 1 = k + 1
      BY <2>2
    <3>2. z[k] = p[k - (n - 2)]
      BY <1>2, <1>3, <1>5, <2>2
    <3>3. p[k - (n - 2)] = ByteAt(i, k + 1)
      BY <1>3, <3>1
    <3>4. Place(i, k) = k + 1
      BY <1>1, <2>2 DEF Place
    <3> QED
      BY <1>4, <3>2, <3>3, <3>4
  <2> QED
    BY <2>1, <2>2
<1> QED
    BY <1>4, <1>5, <1>6, <1>7, SeqEqual DEF z, h, p, g

\* The headers, in three pieces
LEMMA HeadersHashed ==
    ASSUME NEW i \in Image, NEW n \in Nat, n > SecDir(i)
    PROVE  Piece(i, 0, Checksum(i))
             \o Piece(i, Checksum(i) + 1, SecDir(i) - Checksum(i) - 1)
             \o Piece(i, SecDir(i) + 1, n - SecDir(i) - 1) = Hashable(i, n)
<1> DEFINE c == Checksum(i)
           d == SecDir(i)
           p == Piece(i, 0, c)
           q == Piece(i, c + 1, d - c - 1)
           r == Piece(i, d + 1, n - d - 1)
           y == p \o q
           z == y \o r
           g == Hashable(i, n)
<1>1. c \in Nat /\ d \in Nat /\ c < d /\ n > d
    BY Offsets
<1>2. p \in Seq(Int) /\ Len(p) = c /\ \A k \in 1 .. c : p[k] = ByteAt(i, 0 + k - 1)
    BY <1>1, PieceFacts
<1>3. /\ q \in Seq(Int) /\ Len(q) = d - c - 1
      /\ \A k \in 1 .. d - c - 1 : q[k] = ByteAt(i, c + 1 + k - 1)
  <2>1. c + 1 \in Nat /\ d - c - 1 \in Nat
    BY <1>1
  <2> QED
    BY <2>1, PieceFacts
<1>4. /\ r \in Seq(Int) /\ Len(r) = n - d - 1
      /\ \A k \in 1 .. n - d - 1 : r[k] = ByteAt(i, d + 1 + k - 1)
  <2>1. d + 1 \in Nat /\ n - d - 1 \in Nat
    BY <1>1
  <2> QED
    BY <2>1, PieceFacts
<1>5. g \in Seq(Int) /\ Len(g) = n - 2 /\ \A k \in 1 .. n - 2 : g[k] = ByteAt(i, Place(i, k))
    BY HashableFacts
<1>6. \A k : Place(i, k) = IF k <= c THEN k - 1 ELSE IF k < d THEN k ELSE k + 1
    BY DEF Place
<1> HIDE DEF p, q, r, g, c, d
<1>7. y \in Seq(Int) /\ Len(y) = Len(p) + Len(q)
      /\ \A k \in 1 .. Len(p) + Len(q) : y[k] = IF k <= Len(p) THEN p[k] ELSE q[k - Len(p)]
    BY <1>2, <1>3, ConcatProperties
<1> HIDE DEF y
<1>8. Len(y) = d - 1 /\ \A k \in 1 .. d - 1 : y[k] = IF k <= c THEN p[k] ELSE q[k - c]
    BY <1>1, <1>2, <1>3, <1>7
<1>9. z \in Seq(Int) /\ Len(z) = Len(y) + Len(r)
      /\ \A k \in 1 .. Len(y) + Len(r) : z[k] = IF k <= Len(y) THEN y[k] ELSE r[k - Len(y)]
    BY <1>4, <1>7, ConcatProperties
<1> HIDE DEF z
<1>10. Len(z) = n - 2 /\ \A k \in 1 .. n - 2 : z[k] = IF k <= d - 1 THEN y[k] ELSE r[k - (d - 1)]
    BY <1>1, <1>4, <1>8, <1>9
<1>11. ASSUME NEW k \in 1 .. n - 2 PROVE z[k] = g[k]
  <2>1. CASE k <= c
    <3>1. z[k] = y[k]
      BY <1>1, <1>10, <2>1
    <3>2. y[k] = p[k]
      BY <1>1, <1>8, <2>1
    <3>3. p[k] = ByteAt(i, 0 + k - 1)
      BY <1>2, <1>1, <2>1
    <3>4. Place(i, k) = 0 + k - 1
      BY <1>6, <2>1
    <3> QED
      BY <1>5, <3>1, <3>2, <3>3, <3>4
  <2>2. CASE k > c /\ k < d
    <3>1. z[k] = y[k]
      BY <1>1, <1>10, <2>2
    <3>2. y[k] = q[k - c]
      BY <1>1, <1>8, <2>2
    <3>3. k - c \in 1 .. d - c - 1 /\ c + 1 + (k - c) - 1 = k
      BY <1>1, <2>2
    <3>4. q[k - c] = ByteAt(i, k)
      BY <1>3, <3>3
    <3>5. Place(i, k) = k
      BY <1>1, <1>6, <2>2
    <3> QED
      BY <1>5, <3>1, <3>2, <3>4, <3>5
  <2>3. CASE k >= d
    <3>1. z[k] = r[k - (d - 1)]
      BY <1>1, <1>10, <2>3
    <3>2. k - (d - 1) \in 1 .. n - d - 1 /\ d + 1 + (k - (d - 1)) - 1 = k + 1
      BY <1>1, <2>3
    <3>3. r[k - (d - 1)] = ByteAt(i, k + 1)
      BY <1>4, <3>2
    <3>4. Place(i, k) = k + 1
      BY <1>1, <1>6, <2>3
    <3> QED
      BY <1>5, <3>1, <3>3, <3>4
  <2>4. k \in Int
    OBVIOUS
  <2> QED
    BY <1>1, <2>1, <2>2, <2>3, <2>4
<1>12. z = g
    BY <1>5, <1>9, <1>10, <1>11, SeqEqual
<1> QED
    BY <1>12 DEF z, y, p, q, r, g, c, d

LEMMA GapNat ==
    ASSUME NEW n \in Nat
    PROVE  Gap(n) \in Nat
<1>1. -n \in Int
    OBVIOUS
<1> QED
    BY <1>1, AlignmentAssumption DEF Gap

\* The padding is what stands behind the end of the file.
LEMMA Padded ==
    ASSUME NEW i \in Image, i.body > SecDir(i)
    PROVE  Hashable(i, i.body) \o Padding(i.body) = Expected(i)
<1>1. i.body \in Nat /\ Gap(i.body) \in Nat
    BY GapNat DEF Image
<1> DEFINE b == i.body
           m == Gap(i.body)
<1>2. Padding(b) = Piece(i, b, m)
  <2>1. \A k \in 1 .. m : ~(b + k - 1 < b)
    BY <1>1
  <2> QED
    BY <2>1 DEF Padding, Piece
<1>3. Hashable(i, b) \o Piece(i, b, m) = Hashable(i, b + m)
    BY <1>1, HashableMore
<1> QED
    BY <1>2, <1>3 DEF Expected

LEMMA SectionsNat ==
    ASSUME NEW s \in Seq(Section)
    PROVE  Len(s) \in Nat /\ \A k \in 1 .. Len(s) : s[k].ptr \in Nat /\ s[k].size \in Nat
<1>1. Len(s) \in Nat /\ \A k \in 1 .. Len(s) : s[k] \in Section
    OBVIOUS
<1> QED
    BY <1>1, U32Nat DEF Section

LEMMA ImageFacts ==
    ASSUME NEW i \in Image
    PROVE  /\ i.size \in Nat /\ i.body \in Nat /\ i.headers \in Nat /\ i.va \in Nat
           /\ i.dirsize \in Nat /\ i.sections \in Seq(Section) /\ Len(i.sections) \in Nat
           /\ i.headers < Word
<1>1. /\ i.size \in Nat /\ i.body \in Nat /\ i.headers \in U32 /\ i.va \in U32
      /\ i.dirsize \in U32 /\ i.sections \in Seq(Section)
    BY DEF Image
<1>2. \A n \in U32 : n \in Nat /\ n < Word
    BY WordAssumption DEF U32
<1>3. Len(i.sections) \in Nat
    BY <1>1, LenProperties
<1> QED
    BY <1>1, <1>2, <1>3

\* What fits in 32 bits does not wrap.
LEMMA NoWrap ==
    ASSUME NEW n \in Nat, n < Word
    PROVE  n % Word = n
    BY WordAssumption

\* The sums of the sizes of sections
LEMMA RawBytesFacts ==
    ASSUME NEW s \in Seq(Section)
    PROVE  /\ RawBytes(s)[0] = 0
           /\ \A k \in 1 .. Len(s) : RawBytes(s)[k] = RawBytes(s)[k - 1] + s[k].size
           /\ \A k \in 0 .. Len(s) : RawBytes(s)[k] \in Nat
<1> DEFINE n == Len(s)
           g == RawBytes(s)
           z == [k \in 1 .. n |-> s[k].size]
           IsTotal(f) == f = [k \in 0 .. n |-> IF k = 0 THEN 0 ELSE f[k - 1] + s[k].size]
<1>1. n \in Nat /\ \A k \in 1 .. n : z[k] = s[k].size /\ s[k].size \in Nat
    BY SectionsNat
<1>2. \E f : IsTotal(f)
  <2>1. PICK f : IsSum(f, z, n)
    BY <1>1, SumsExist
  <2>2. ASSUME NEW k \in 0 .. n
        PROVE  (IF k = 0 THEN 0 ELSE f[k - 1] + z[k]) = (IF k = 0 THEN 0 ELSE f[k - 1] + s[k].size)
    BY <1>1
  <2> HIDE DEF n, z
  <2>3. IsTotal(f)
    BY <2>1, <2>2 DEF IsSum
  <2> QED
    BY <2>3
<1>3. IsTotal(g)
  <2>1. g = CHOOSE f : IsTotal(f)
    BY DEF RawBytes
  <2> QED
    BY <1>2, <2>1
<1> HIDE DEF g
<1>4. g[0] = 0 /\ \A k \in 1 .. n : g[k] = g[k - 1] + s[k].size
    BY <1>1, <1>3
<1> DEFINE S == {k \in 0 .. n : g[k] \in Nat}
<1>5. 0 \in S
    BY <1>1, <1>4
<1>6. ASSUME NEW k \in 0 .. (n - 1), k \in S PROVE k + 1 \in S
    BY <1>1, <1>4, <1>6
<1>7. 0 .. n \subseteq S
  <2> HIDE DEF S, n
  <2> QED
    BY <1>1, <1>5, <1>6, InductionTo
<1> QED
    BY <1>4, <1>7 DEF g

LEMMA RawBytesGrow ==
    ASSUME NEW s \in Seq(Section), NEW k \in 0 .. Len(s)
    PROVE  RawBytes(s)[k] <= RawBytes(s)[Len(s)]
<1> DEFINE n == Len(s)
           g == RawBytes(s)
           S == {m \in 0 .. n : k <= m => g[k] <= g[m]}
<1>1. /\ n \in Nat /\ \A m \in 1 .. n : g[m] = g[m - 1] + s[m].size /\ s[m].size \in Nat
      /\ \A m \in 0 .. n : g[m] \in Nat
    BY SectionsNat, RawBytesFacts
<1> HIDE DEF g
<1>2. 0 \in S
    BY <1>1
<1>3. ASSUME NEW m \in 0 .. (n - 1), m \in S PROVE m + 1 \in S
  <2>1. /\ m + 1 \in 1 .. n /\ m \in 0 .. n /\ g[m + 1] = g[m] + s[m + 1].size
        /\ g[m] \in Nat /\ g[k] \in Nat /\ s[m + 1].size \in Nat
    BY <1>1
  <2>2. CASE k <= m
    BY <1>3, <2>1, <2>2
  <2>3. CASE k = m + 1
    BY <2>1, <2>3
  <2>4. CASE k > m + 1
    BY <2>1, <2>4
  <2> QED
    BY <1>1, <2>2, <2>3, <2>4
<1>4. 0 .. n \subseteq S
  <2> HIDE DEF S, n
  <2> QED
    BY <1>1, <1>2, <1>3, InductionTo
<1>5. n \in S
    BY <1>1, <1>4
<1> QED
    BY <1>1, <1>5 DEF g

\* Wherever a section is inserted, its size is added.
LEMMA RawBytesInsert ==
    ASSUME NEW s \in Seq(Section), NEW e \in Section, NEW q \in 1 .. Len(s) + 1,
           NEW z \in Seq(Section), Len(z) = Len(s) + 1,
           \A k \in 1 .. Len(s) + 1 :
                z[k] = IF k < q THEN s[k] ELSE IF k = q THEN e ELSE s[k - 1]
    PROVE  RawBytes(z)[Len(s) + 1] = RawBytes(s)[Len(s)] + e.size
<1> DEFINE n == Len(s)
           f == RawBytes(s)
           g == RawBytes(z)
           h(k) == IF k < q THEN f[k] ELSE f[k - 1] + e.size
           S == {k \in 0 .. n + 1 : g[k] = h(k)}
<1>1. /\ n \in Nat /\ f[0] = 0 /\ \A k \in 1 .. n : f[k] = f[k - 1] + s[k].size
      /\ \A k \in 0 .. n : f[k] \in Nat
      /\ \A k \in 1 .. n : s[k].size \in Nat
    BY SectionsNat, RawBytesFacts
<1>2. g[0] = 0 /\ \A k \in 1 .. n + 1 : g[k] = g[k - 1] + z[k].size
    BY RawBytesFacts
<1>3. e.size \in Nat
    BY U32Nat DEF Section
<1> HIDE DEF f, g
<1>4. 0 \in S
    BY <1>1, <1>2
<1>5. ASSUME NEW k \in 0 .. n, g[k] = h(k) PROVE g[k + 1] = h(k + 1)
  <2>1. k + 1 \in 1 .. n + 1 /\ (k + 1) - 1 = k /\ g[k + 1] = g[k] + z[k + 1].size
    BY <1>1, <1>2
  <2>2. CASE k + 1 < q
    <3>2. k + 1 \in 1 .. n /\ k < q
      BY <1>1, <2>2
    <3>1. z[k + 1] = s[k + 1] /\ f[k + 1] = f[k] + s[k + 1].size /\ k < q
      BY <1>1, <2>1, <2>2, <3>2
    <3> QED
      BY <1>5, <2>1, <2>2, <3>1
  <2>3. CASE k + 1 = q
    <3>1. z[k + 1] = e /\ k < q
      BY <1>1, <2>1, <2>3
    <3> QED
      BY <1>5, <2>1, <2>3, <3>1
  <2>4. CASE k + 1 > q
    <3>1. z[k + 1] = s[k] /\ k \in 1 .. n /\ ~(k < q)
      BY <1>1, <2>1, <2>4
    <3>2. f[k] = f[k - 1] + s[k].size /\ f[k - 1] \in Nat /\ s[k].size \in Nat
      BY <1>1, <3>1
    <3>3. h(k + 1) = f[k] + e.size /\ h(k) = f[k - 1] + e.size
      BY <2>1, <2>4, <3>1
    <3> HIDE DEF h
    <3> QED
      BY <1>3, <1>5, <2>1, <3>1, <3>2, <3>3
  <2> QED
    BY <1>1, <2>2, <2>3, <2>4
<1>6. n + 1 \in S
  <2> HIDE DEF h
  <2>1. ASSUME NEW k \in 0 .. ((n + 1) - 1), k \in S PROVE k + 1 \in S
    BY <1>1, <1>5, <2>1
  <2>2. n + 1 \in Nat
    BY <1>1
  <2> HIDE DEF S, n
  <2>3. 0 .. n + 1 \subseteq S
    BY <1>4, <2>1, <2>2, InductionTo
  <2> QED
    BY <2>2, <2>3
<1>7. ~(n + 1 < q) /\ (n + 1) - 1 = n
    BY <1>1
<1> QED
    BY <1>6, <1>7 DEF f, g

\* The insertion has a place.
LEMMA PlaceFacts ==
    ASSUME sorted \in Seq(Section), NEW s \in Section
    PROVE  /\ PlaceOf(s) \in 1 .. Len(sorted) + 1
           /\ PlaceOf(s) > 1 => sorted[PlaceOf(s) - 1].ptr <= s.ptr
           /\ \A k \in PlaceOf(s) .. Len(sorted) : s.ptr < sorted[k].ptr
<1> DEFINE n == Len(sorted)
           Above(p) == \A k \in p .. n : s.ptr < sorted[k].ptr
           Q == {p \in 1 .. n + 1 : Above(p)}
<1>1. n \in Nat /\ s.ptr \in Nat /\ \A k \in 1 .. n : sorted[k].ptr \in Nat
  <2>1. n \in Nat /\ \A k \in 1 .. n : sorted[k] \in Section
    BY LenProperties
  <2> QED
    BY <2>1, U32Nat DEF Section
<1>2. n + 1 \in Q /\ Q \in SUBSET Nat
    BY <1>1
<1>3. PICK p \in Q : \A x \in Q : p <= x
  <2>1. Q # {}
    BY <1>2
  <2> HIDE DEF Q
  <2> QED
    BY <1>2, <2>1, Least
<1>4. p > 1 => sorted[p - 1].ptr <= s.ptr
  <2> SUFFICES ASSUME p > 1, ~(sorted[p - 1].ptr <= s.ptr) PROVE FALSE
    OBVIOUS
  <2>1. p \in 1 .. n + 1 /\ Above(p) /\ p - 1 \in 1 .. n
    BY <1>1, <1>3
  <2>2. s.ptr < sorted[p - 1].ptr
    BY <1>1, <2>1
  <2>3. ASSUME NEW k \in p - 1 .. n PROVE s.ptr < sorted[k].ptr
    <3>1. k = p - 1 \/ k \in p .. n
      BY <1>1, <2>1
    <3> QED
      BY <2>1, <2>2, <3>1
  <2>4. p - 1 \in Q
    BY <1>1, <2>1, <2>3
  <2>5. p <= p - 1
    BY <1>3, <2>4
  <2> QED
    BY <2>1, <2>5
<1>5. \E x \in 1 .. Len(sorted) + 1 :
        /\ x > 1 => sorted[x - 1].ptr <= s.ptr
        /\ \A k \in x .. Len(sorted) : s.ptr < sorted[k].ptr
    BY <1>3, <1>4
<1> QED
    BY <1>5 DEF PlaceOf

IsPerm(p, n) ==
    /\ \A k \in 1 .. n : p[k] \in 1 .. n
    /\ \A j, k \in 1 .. n : p[j] = p[k] => j = k
    /\ \A j \in 1 .. n : \E k \in 1 .. n : p[k] = j

\* s has the first n sections, by their place in the file.
SortedTo(i, s, n) ==
    /\ s \in Seq(Section) /\ Len(s) = n
    /\ \A j, k \in 1 .. n : j <= k => s[j].ptr <= s[k].ptr
    /\ \E p : IsPerm(p, n) /\ \A k \in 1 .. n : s[k] = i.sections[p[k]]
    /\ RawBytes(s)[n] = RawBytes(i.sections)[n]

LEMMA PermInsert ==
    ASSUME NEW n \in Nat, NEW p, IsPerm(p, n), NEW q \in 1 .. n + 1, NEW r,
           \A k \in 1 .. n + 1 : r[k] = IF k < q THEN p[k] ELSE IF k = q THEN n + 1 ELSE p[k - 1]
    PROVE  IsPerm(r, n + 1)
<1>1. ASSUME NEW k \in 1 .. n + 1 PROVE r[k] \in 1 .. n + 1 /\ (r[k] = n + 1 <=> k = q)
  <2>1. CASE k < q
    <3>1. k \in 1 .. n /\ r[k] = p[k] /\ p[k] \in 1 .. n
      BY <2>1 DEF IsPerm
    <3> QED
      BY <2>1, <3>1
  <2>2. CASE k = q
    BY <2>2
  <2>3. CASE k > q
    <3>1. k - 1 \in 1 .. n /\ r[k] = p[k - 1] /\ p[k - 1] \in 1 .. n
      BY <2>3 DEF IsPerm
    <3> QED
      BY <2>3, <3>1
  <2> QED
    BY <2>1, <2>2, <2>3
<1> DEFINE b(k) == IF k < q THEN k ELSE k - 1
<1>2. ASSUME NEW k \in 1 .. n + 1, k # q PROVE b(k) \in 1 .. n /\ r[k] = p[b(k)]
    BY <1>2
<1>3. ASSUME NEW j \in 1 .. n + 1, NEW k \in 1 .. n + 1, r[j] = r[k] PROVE j = k
  <2>1. CASE j = q \/ k = q
    BY <1>1, <1>3, <2>1
  <2>2. CASE j # q /\ k # q
    <3>1. b(j) \in 1 .. n /\ b(k) \in 1 .. n /\ p[b(j)] = p[b(k)]
      BY <1>2, <1>3, <2>2
    <3>2. b(j) = b(k)
      BY <3>1 DEF IsPerm
    <3> QED
      BY <2>2, <3>2
  <2> QED
    BY <2>1, <2>2
<1>4. ASSUME NEW j \in 1 .. n + 1 PROVE \E k \in 1 .. n + 1 : r[k] = j
  <2>1. CASE j = n + 1
    BY <1>1, <2>1
  <2>2. CASE j \in 1 .. n
    <3>1. PICK k \in 1 .. n : p[k] = j
      BY <2>2 DEF IsPerm
    <3>2. CASE k < q
      <4>1. k \in 1 .. n + 1 /\ r[k] = p[k]
        BY <3>2
      <4> QED
        BY <3>1, <4>1
    <3>3. CASE k >= q
      <4>1. k + 1 \in 1 .. n + 1 /\ r[k + 1] = p[(k + 1) - 1] /\ (k + 1) - 1 = k
        BY <3>3
      <4> QED
        BY <3>1, <4>1
    <3> QED
      BY <3>2, <3>3
  <2> QED
    BY <2>1, <2>2
<1> QED
    BY <1>1, <1>3, <1>4 DEF IsPerm

LEMMA InsertSorted ==
    ASSUME NEW i \in Image, NEW n \in Nat, n < Len(i.sections), SortedTo(i, sorted, n)
    PROVE  LET s == i.sections[n + 1] IN
           SortedTo(i, InsertAt(sorted, PlaceOf(s), s), n + 1)
<1> DEFINE s == i.sections[n + 1]
           q == PlaceOf(s)
           z == InsertAt(sorted, q, s)
<1>1. i.sections \in Seq(Section) /\ Len(i.sections) \in Nat
    BY DEF Image
<1>2. s \in Section /\ n + 1 \in 1 .. Len(i.sections)
    BY <1>1
<1>3. sorted \in Seq(Section) /\ Len(sorted) = n
      /\ \A j, k \in 1 .. n : j <= k => sorted[j].ptr <= sorted[k].ptr
    BY DEF SortedTo
<1>4. /\ q \in 1 .. n + 1
      /\ q > 1 => sorted[q - 1].ptr <= s.ptr
      /\ \A k \in q .. n : s.ptr < sorted[k].ptr
    BY <1>2, <1>3, PlaceFacts
<1> HIDE DEF q
<1>5. /\ z \in Seq(Section) /\ Len(z) = n + 1
      /\ \A k \in 1 .. n + 1 : z[k] =
            IF k < q THEN sorted[k] ELSE IF k = q THEN s ELSE sorted[k - 1]
  <2> HIDE DEF s
  <2>1. q \in 1 .. Len(sorted) + 1
    BY <1>3, <1>4
  <2>2. /\ z \in Seq(Section) /\ Len(z) = Len(sorted) + 1
        /\ \A k \in 1 .. Len(sorted) + 1 : z[k] =
             IF k < q THEN sorted[k] ELSE IF k = q THEN s ELSE sorted[k - 1]
    <3>1. s \in Section /\ sorted \in Seq(Section)
      BY <1>2, <1>3
    <3> QED
      BY <2>1, <3>1, InsertFacts
  <2> QED
    BY <1>3, <2>2
<1> HIDE DEF z
<1>6. s.ptr \in Nat /\ \A k \in 1 .. n : sorted[k].ptr \in Nat
  <2>1. \A k \in 1 .. n : sorted[k] \in Section
    BY <1>3
  <2> QED
    BY <1>2, <2>1, U32Nat DEF Section
<1>7. \A k \in 1 .. n : IF k < q THEN sorted[k].ptr <= s.ptr ELSE s.ptr < sorted[k].ptr
  <2> SUFFICES ASSUME NEW k \in 1 .. n
               PROVE  IF k < q THEN sorted[k].ptr <= s.ptr ELSE s.ptr < sorted[k].ptr
    OBVIOUS
  <2>1. CASE k < q
    <3>1. q - 1 \in 1 .. n /\ k <= q - 1 /\ q > 1
      BY <1>4, <2>1
    <3>2. sorted[k].ptr <= sorted[q - 1].ptr /\ sorted[q - 1].ptr <= s.ptr
      BY <1>3, <1>4, <3>1
    <3> QED
      BY <1>6, <2>1, <3>1, <3>2
  <2>2. CASE k >= q
    BY <1>4, <2>2
  <2> QED
    BY <1>4, <2>1, <2>2
<1>8. \A j, k \in 1 .. n + 1 : j <= k => z[j].ptr <= z[k].ptr
  <2> SUFFICES ASSUME NEW j \in 1 .. n + 1, NEW k \in 1 .. n + 1, j < k
               PROVE  z[j].ptr <= z[k].ptr
    <3>1. \A k \in 1 .. n + 1 : z[k] \in Section
      BY <1>5
    <3>2. \A k \in 1 .. n + 1 : z[k].ptr \in Nat
      BY <3>1, U32Nat DEF Section
    <3> QED
      BY <3>2
  <2>1. CASE k < q
    <3>1. z[j] = sorted[j] /\ z[k] = sorted[k] /\ j \in 1 .. n /\ k \in 1 .. n
      BY <1>4, <1>5, <2>1
    <3> QED
      BY <1>3, <3>1
  <2>2. CASE k = q
    <3>1. z[j] = sorted[j] /\ z[k] = s /\ j \in 1 .. n /\ j < q
      BY <1>4, <1>5, <2>2
    <3> QED
      BY <1>7, <3>1
  <2>3. CASE k > q /\ j < q
    <3>1. z[j] = sorted[j] /\ z[k] = sorted[k - 1] /\ j \in 1 .. n /\ k - 1 \in 1 .. n /\ j <= k - 1
      BY <1>4, <1>5, <2>3
    <3> QED
      BY <1>3, <3>1
  <2>4. CASE k > q /\ j = q
    <3>1. z[j] = s /\ z[k] = sorted[k - 1] /\ k - 1 \in 1 .. n /\ ~(k - 1 < q)
      BY <1>4, <1>5, <2>4
    <3> QED
      BY <1>6, <1>7, <3>1
  <2>5. CASE k > q /\ j > q
    <3>1. /\ z[j] = sorted[j - 1] /\ z[k] = sorted[k - 1]
          /\ j - 1 \in 1 .. n /\ k - 1 \in 1 .. n /\ j - 1 <= k - 1
      BY <1>4, <1>5, <2>5
    <3> QED
      BY <1>3, <3>1
  <2> QED
    BY <1>4, <2>1, <2>2, <2>3, <2>4, <2>5
<1>9. PICK p : IsPerm(p, n) /\ \A k \in 1 .. n : sorted[k] = i.sections[p[k]]
    BY DEF SortedTo
<1> DEFINE r == [k \in 1 .. n + 1 |-> IF k < q THEN p[k] ELSE IF k = q THEN n + 1 ELSE p[k - 1]]
<1>10. \A k \in 1 .. n + 1 : r[k] = IF k < q THEN p[k] ELSE IF k = q THEN n + 1 ELSE p[k - 1]
    OBVIOUS
<1> HIDE DEF r
<1>11. IsPerm(r, n + 1)
    BY <1>4, <1>9, <1>10, PermInsert
<1>12. ASSUME NEW k \in 1 .. n + 1 PROVE z[k] = i.sections[r[k]]
  <2>1. CASE k < q
    <3>1. k \in 1 .. n /\ z[k] = sorted[k] /\ r[k] = p[k]
      BY <1>4, <1>5, <1>10, <2>1
    <3> QED
      BY <1>9, <3>1
  <2>2. CASE k = q
    BY <1>4, <1>5, <1>10, <2>2
  <2>3. CASE k > q
    <3>1. k - 1 \in 1 .. n /\ z[k] = sorted[k - 1] /\ r[k] = p[k - 1]
      BY <1>4, <1>5, <1>10, <2>3
    <3> QED
      BY <1>9, <3>1
  <2> QED
    BY <1>4, <2>1, <2>2, <2>3
<1>13. RawBytes(z)[n + 1] = RawBytes(i.sections)[n + 1]
  <2>1. RawBytes(z)[n + 1] = RawBytes(sorted)[n] + s.size
    BY <1>2, <1>3, <1>4, <1>5, RawBytesInsert
  <2>2. RawBytes(i.sections)[n + 1] = RawBytes(i.sections)[n] + s.size
    BY <1>1, <1>2, RawBytesFacts
  <2>3. RawBytes(sorted)[n] = RawBytes(i.sections)[n]
    BY DEF SortedTo
  <2> QED
    BY <2>1, <2>2, <2>3
<1>14. SortedTo(i, z, n + 1)
    BY <1>5, <1>8, <1>11, <1>12, <1>13 DEF SortedTo
<1> QED
    BY <1>14 DEF z, q

\* Where the headers and the first n of the sorted sections end
EndsTo(i, s, n) == {i.headers} \cup {SectionEnd(s[k]) : k \in {j \in 1 .. n : s[j].size > 0}}

\* The first n sections were hashed, up to m, and the others are behind them.
Contiguous(i, s, n, m) ==
    /\ m \in EndsTo(i, s, n)
    /\ \A e \in EndsTo(i, s, n) :
        /\ e <= m
        /\ e < m => \A k \in n + 1 .. Len(s) : s[k].size > 0 => e < s[k].ptr

\* What Tidy says of the sections, for the sorted ones
LEMMA TidySorted ==
    ASSUME NEW i \in Image, Tidy(i), NEW s, SortedTo(i, s, Len(i.sections))
    PROVE  /\ \A k \in 1 .. Len(s) : s[k].size > 0 => s[k].ptr \in EndsTo(i, s, Len(s))
           /\ \A j, k \in 1 .. Len(s) :
                s[j].size > 0 /\ s[k].size > 0 /\ j < k => s[j].ptr < s[k].ptr
           /\ EndsTo(i, s, Len(s)) \subseteq SectionEnds(i)
<1> DEFINE n == Len(s)
           ss == i.sections
<1>1. /\ ss \in Seq(Section) /\ s \in Seq(Section) /\ Len(s) = Len(ss)
      /\ \A j, k \in 1 .. n : j <= k => s[j].ptr <= s[k].ptr
    BY DEF Image, SortedTo
<1>2. n \in Nat /\ DOMAIN ss = 1 .. n /\ \A k \in 1 .. n : s[k].ptr \in Nat
    BY <1>1, SectionsNat
<1>3. PICK p : IsPerm(p, n) /\ \A k \in 1 .. n : s[k] = ss[p[k]]
    BY <1>1 DEF SortedTo
<1>4. \A k \in 1 .. n : s[k].size > 0 => p[k] \in Filled(i)
    BY <1>2, <1>3 DEF IsPerm, Filled
<1>5. ASSUME NEW j \in Filled(i) PROVE \E k \in 1 .. n : s[k].size > 0 /\ s[k] = ss[j]
  <2>1. j \in 1 .. n /\ ss[j].size > 0
    BY <1>2 DEF Filled
  <2>2. PICK k \in 1 .. n : p[k] = j
    BY <1>3, <2>1 DEF IsPerm
  <2> QED
    BY <1>3, <2>1, <2>2
<1>6. SectionEnds(i) \subseteq EndsTo(i, s, n)
    BY <1>5 DEF SectionEnds, EndsTo
<1>7. EndsTo(i, s, n) \subseteq SectionEnds(i)
    BY <1>3, <1>4 DEF SectionEnds, EndsTo
<1>8. ASSUME NEW k \in 1 .. n, s[k].size > 0 PROVE s[k].ptr \in EndsTo(i, s, n)
  <2>1. p[k] \in Filled(i) /\ s[k] = ss[p[k]]
    BY <1>3, <1>4, <1>8
  <2>2. s[k].ptr \in SectionEnds(i)
    BY <2>1 DEF Tidy
  <2> QED
    BY <1>6, <2>2
<1>9. ASSUME NEW j \in 1 .. n, NEW k \in 1 .. n, s[j].size > 0, s[k].size > 0, j < k
      PROVE  s[j].ptr < s[k].ptr
  <2>1. s[j].ptr <= s[k].ptr
    BY <1>1, <1>9
  <2>2. s[j].ptr # s[k].ptr
    <3> SUFFICES ASSUME s[j].ptr = s[k].ptr PROVE FALSE
      OBVIOUS
    <3>1. p[j] \in Filled(i) /\ p[k] \in Filled(i) /\ ss[p[j]].ptr = ss[p[k]].ptr
      BY <1>3, <1>4, <1>9
    <3>2. p[j] = p[k]
      BY <3>1 DEF Tidy
    <3>3. j = k
      BY <1>3, <3>2 DEF IsPerm
    <3> QED
      BY <1>9, <3>3
  <2> QED
    BY <1>2, <2>1, <2>2
<1> QED
    BY <1>7, <1>8, <1>9

LEMMA ContiguousSkip ==
    ASSUME NEW i, NEW s, NEW n \in Nat, NEW m, Contiguous(i, s, n, m), ~(s[n + 1].size > 0)
    PROVE  Contiguous(i, s, n + 1, m)
<1>1. \A j : j \in 1 .. n + 1 <=> j \in 1 .. n \/ j = n + 1
    OBVIOUS
<1>2. EndsTo(i, s, n + 1) = EndsTo(i, s, n)
    BY <1>1 DEF EndsTo
<1>3. \A k \in (n + 1) + 1 .. Len(s) : k \in n + 1 .. Len(s)
    OBVIOUS
<1> QED
    BY <1>2, <1>3 DEF Contiguous

LEMMA ContiguousNext ==
    ASSUME NEW i \in Image, NEW s \in Seq(Section), NEW n \in Nat, n < Len(s), NEW m \in Nat,
           Contiguous(i, s, n, m), s[n + 1].size > 0,
           s[n + 1].ptr \in EndsTo(i, s, Len(s)),
           \A j, k \in 1 .. Len(s) :
                s[j].size > 0 /\ s[k].size > 0 /\ j < k => s[j].ptr < s[k].ptr,
           \A j, k \in 1 .. Len(s) : j <= k => s[j].ptr <= s[k].ptr
    PROVE  s[n + 1].ptr = m /\ Contiguous(i, s, n + 1, m + s[n + 1].size)
<1> DEFINE x == s[n + 1]
<1>1. /\ Len(s) \in Nat /\ n + 1 \in 1 .. Len(s) /\ i.headers \in Nat
      /\ \A k \in 1 .. Len(s) : s[k].ptr \in Nat /\ s[k].size \in Nat
    BY SectionsNat, ImageFacts
<1>2. x.ptr \in Nat /\ x.size \in Nat /\ x.size > 0
    BY <1>1
<1>3. \A e \in EndsTo(i, s, n + 1) : e \in Nat
    BY <1>1 DEF EndsTo, SectionEnd
<1>4. EndsTo(i, s, n) \subseteq EndsTo(i, s, n + 1)
    BY DEF EndsTo
<1>5. x.ptr \in EndsTo(i, s, n)
  <2>1. CASE x.ptr = i.headers
    BY <2>1 DEF EndsTo
  <2>2. CASE x.ptr # i.headers
    <3>1. PICK k \in 1 .. Len(s) : s[k].size > 0 /\ x.ptr = SectionEnd(s[k])
      BY <2>2 DEF EndsTo
    <3>2. s[k].ptr < x.ptr
      BY <1>1, <3>1 DEF SectionEnd
    <3>3. ~(n + 1 <= k)
      BY <1>1, <1>2, <3>2
    <3>4. k \in 1 .. n
      BY <1>1, <3>3
    <3> QED
      BY <3>1, <3>4 DEF EndsTo
  <2> QED
    BY <2>1, <2>2
<1>6. x.ptr = m
  <2>1. x.ptr <= m /\ (x.ptr < m => \A k \in n + 1 .. Len(s) : s[k].size > 0 => x.ptr < s[k].ptr)
    BY <1>5 DEF Contiguous
  <2>2. n + 1 \in n + 1 .. Len(s)
    BY <1>1
  <2>3. ~(x.ptr < m)
    BY <1>2, <2>1, <2>2
  <2> QED
    BY <1>2, <2>1, <2>3
<1> DEFINE w == m + x.size
<1>7. w \in EndsTo(i, s, n + 1)
  <2>1. SectionEnd(s[n + 1]) = w
    BY <1>6 DEF SectionEnd
  <2> QED
    BY <1>1, <1>2, <2>1 DEF EndsTo
<1>8. ASSUME NEW e \in EndsTo(i, s, n + 1)
      PROVE  /\ e <= w
             /\ e < w => \A k \in (n + 1) + 1 .. Len(s) : s[k].size > 0 => e < s[k].ptr
  <2>1. e = w \/ e \in EndsTo(i, s, n)
    <3>1. CASE e = i.headers
      BY <3>1 DEF EndsTo
    <3>2. CASE e # i.headers
      <4>1. PICK k \in 1 .. n + 1 : s[k].size > 0 /\ e = SectionEnd(s[k])
        BY <1>8, <3>2 DEF EndsTo
      <4>2. CASE k = n + 1
        BY <1>6, <4>1, <4>2 DEF SectionEnd
      <4>3. CASE k \in 1 .. n
        BY <4>1, <4>3 DEF EndsTo
      <4> QED
        BY <4>1, <4>2, <4>3
    <3> QED
      BY <3>1, <3>2
  <2>2. CASE e = w
    BY <1>2, <2>2
  <2>3. CASE e \in EndsTo(i, s, n)
    <3>1. e <= m /\ e \in Nat
      BY <1>3, <1>4, <2>3 DEF Contiguous
    <3>2. ASSUME NEW k \in (n + 1) + 1 .. Len(s), s[k].size > 0 PROVE e < s[k].ptr
      <4>1. k \in 1 .. Len(s) /\ n + 1 < k
        BY <1>1
      <4>2. x.ptr < s[k].ptr
        BY <1>1, <1>2, <3>2, <4>1
      <4> QED
        BY <1>1, <1>6, <3>1, <4>1, <4>2
    <3>3. e <= w
      BY <1>2, <3>1
    <3> QED
      BY <3>2, <3>3
  <2> QED
    BY <2>1, <2>2, <2>3
<1>9. Contiguous(i, s, n + 1, w)
    BY <1>7, <1>8 DEF Contiguous
<1> QED
    BY <1>6, <1>9

\* The states of generate_authenticode_digest: the headers were hashed and n
\* sections sorted; n sections were hashed; and what is behind them.
SortState(i, s, n, h, m) ==
    /\ m = i.headers /\ n \in 0 .. Len(i.sections) /\ SortedTo(i, s, n)
    /\ Tidy(i) => h = Hashable(i, m)

SectionState(i, s, n, h, m) ==
    /\ SortedTo(i, s, Len(i.sections)) /\ n \in 0 .. Len(s)
    /\ Tidy(i) => m \in Nat /\ h = Hashable(i, m) /\ Contiguous(i, s, n, m)
    /\ Inside(i) => m = i.headers + RawBytes(s)[n]

RestState(i, h, m) ==
    /\ Tidy(i) =>
        IF i.dirsize = 0
        THEN m \in Nat /\ SecDir(i) < m /\ m \in SectionEnds(i) /\ h = Hashable(i, m)
        ELSE m = i.size - i.dirsize /\ h = Expected(i)
    /\ Inside(i) => m \in Nat /\ m + i.dirsize <= i.size

DigestInv ==
    /\ lpc \in {"idle", "headers", "sigs", "hash"} => sorted = <<>> /\ index = 0
    /\ lpc = "sort" => SortState(img, sorted, index, hashed, sum)
    /\ lpc = "sections" => SectionState(img, sorted, index, hashed, sum)
    /\ lpc = "rest" => RestState(img, hashed, sum)
    /\ lpc = "loaded" => (Tidy(img) /\ PaddedAsSigned(img) => hashed = Expected(img))
    /\ lpc = "killed" => ~(Inside(img) /\ Whole(img))

\* A read of bytes that are in the file
LEMMA UpdateInside ==
    ASSUME img \in Image, NEW a \in Nat, NEW n \in Nat, a + n <= img.size,
           NEW before, NEW padding, NEW next, Update(before, a, n, padding, next)
    PROVE  hashed' = before \o Piece(img, a, n) \o padding /\ lpc' = next
<1>1. ~Behind(img, a, n)
    BY ImageFacts DEF Behind
<1>2. Reads(img, a, n) = {Piece(img, a, n)}
    BY <1>1 DEF Reads
<1> QED
    BY <1>1, <1>2 DEF Update

\* What a file has whose headers, sections and certificate table are in it
LEMMA InsideFacts ==
    ASSUME NEW i \in Image, Inside(i)
    PROVE  /\ SecDir(i) < i.headers /\ i.size < Word
           /\ i.headers + RawBytes(i.sections)[Len(i.sections)] + i.dirsize <= i.size
           /\ RawBytes(i.sections)[Len(i.sections)] \in Nat
           /\ i.headers <= i.size
<1>1. /\ i.headers + RawBytes(i.sections)[Len(i.sections)] + i.dirsize <= i.size
      /\ SecDir(i) < i.headers /\ i.size < Word
    BY DEF Inside, Headed
<1>2. RawBytes(i.sections)[Len(i.sections)] \in Nat
    BY ImageFacts, RawBytesFacts
<1> QED
    BY <1>1, <1>2, ImageFacts

LEMMA InsideSorted ==
    ASSUME NEW i \in Image, Inside(i), NEW s, SortedTo(i, s, Len(i.sections))
    PROVE  /\ \A k \in 1 .. Len(s) : s[k].ptr <= i.size
           /\ \A k \in 0 .. Len(s) :
                /\ RawBytes(s)[k] \in Nat
                /\ i.headers + RawBytes(s)[k] + i.dirsize <= i.size
<1> DEFINE n == Len(s)
           ss == i.sections
<1>1. s \in Seq(Section) /\ n = Len(ss) /\ n \in Nat /\ DOMAIN ss = 1 .. n
    BY ImageFacts DEF SortedTo
<1>2. PICK p : IsPerm(p, n) /\ \A k \in 1 .. n : s[k] = ss[p[k]]
    BY <1>1 DEF SortedTo
<1>3. \A k \in 1 .. n : s[k].ptr <= i.size
    BY <1>1, <1>2 DEF IsPerm, Inside
<1>4. RawBytes(s)[n] = RawBytes(ss)[Len(ss)]
    BY <1>1 DEF SortedTo
<1>5. \A k \in 0 .. n : RawBytes(s)[k] \in Nat /\ RawBytes(s)[k] <= RawBytes(s)[n]
    BY <1>1, RawBytesFacts, RawBytesGrow
<1> HIDE DEF n
<1>6. ASSUME NEW k \in 0 .. n PROVE i.headers + RawBytes(s)[k] + i.dirsize <= i.size
    BY <1>1, <1>4, <1>5, InsideFacts, ImageFacts
<1> QED
    BY <1>3, <1>5, <1>6 DEF n

\* What Tidy says of where the sections end
LEMMA TidyEnds ==
    ASSUME NEW i \in Image, Tidy(i)
    PROVE  /\ SecDir(i) < i.headers /\ i.size < Word
           /\ \A e \in SectionEnds(i) : e <= i.body
           /\ i.headers <= i.body /\ i.body + i.dirsize <= i.size
           /\ i.dirsize = 0 => i.size = i.body
           /\ i.dirsize # 0 => i.size - i.dirsize = i.body + Gap(i.body)
<1>1. SecDir(i) < i.headers /\ i.size < Word
    BY DEF Tidy, Headed
<1>2. \A e \in SectionEnds(i) : e <= i.body
    BY DEF Tidy
<1>3. i.headers <= i.body
    BY <1>2 DEF SectionEnds
<1>4. i.dirsize = 0 => i.size = i.body
    BY DEF Tidy
<1>5. Gap(i.body) \in Nat /\ i.body \in Nat /\ i.dirsize \in Nat /\ i.va \in Nat /\ i.size \in Nat
    BY ImageFacts, GapNat
<1>6. ASSUME i.dirsize # 0 PROVE i.size - i.dirsize = i.body + Gap(i.body)
  <2>1. i.va = i.body + Gap(i.body) /\ i.size = i.va + i.dirsize
    BY <1>6 DEF Tidy
  <2> QED
    BY <1>5, <2>1
<1>7. i.body + i.dirsize <= i.size
    BY <1>4, <1>5, <1>6
<1> QED
    BY <1>1, <1>2, <1>3, <1>4, <1>6, <1>7

LEMMA HashHeadersDigest ==
    ASSUME img \in Image, DigestInv, HashHeaders
    PROVE  DigestInv'
<1> DEFINE c == Checksum(img)
           d == SecDir(img)
           n == (img.headers - d - 1) % Word
           p == Piece(img, 0, c) \o Piece(img, c + 1, d - c - 1)
<1>1. lpc = "hash" /\ img' = img /\ sorted' = <<>> /\ index' = 0
    BY DEF HashHeaders, DigestInv
<1>2. \/ n <= img.size /\ Update(p, d + 1, n, <<>>, "sort") /\ sum' = img.headers
      \/ lpc' = "failed"
    BY DEF HashHeaders
<1>3. /\ c \in Nat /\ d \in Nat /\ c < d /\ Word \in Nat
      /\ img.headers \in Nat /\ img.headers < Word /\ img.size \in Nat
    BY ImageFacts, Offsets, WordAssumption
<1>4. ASSUME d < img.headers, img.headers <= img.size, Update(p, d + 1, n, <<>>, "sort")
      PROVE  lpc' = "sort" /\ hashed' = Hashable(img, img.headers)
  <2> DEFINE m == img.headers - d - 1
  <2>1. m \in Nat /\ m < Word /\ d + 1 \in Nat /\ (d + 1) + m = img.headers
    <3>1. d < img.headers
      BY <1>4
    <3> HIDE DEF d
    <3> QED
      BY <1>3, <3>1
  <2>2. n = m
    BY <2>1, NoWrap
  <2>3. hashed' = p \o Piece(img, d + 1, m) \o <<>> /\ lpc' = "sort"
    <3> HIDE DEF p, m, n, d
    <3> QED
      BY <1>4, <2>1, <2>2, UpdateInside
  <2>4. p \o Piece(img, d + 1, m) = Hashable(img, img.headers)
    BY <1>3, <1>4, HeadersHashed
  <2>5. Hashable(img, img.headers) \in Seq(Int)
    BY <1>3, <1>4, HashableFacts
  <2> HIDE DEF p, m, n, d
  <2> QED
    BY <2>3, <2>4, <2>5, ConcatEmptySeq
<1>5. CASE lpc' = "failed"
    BY <1>5 DEF DigestInv
<1>6. CASE n <= img.size /\ Update(p, d + 1, n, <<>>, "sort") /\ sum' = img.headers
  <2>1. lpc' \in {"sort", "killed"}
    BY <1>6 DEF Update
  <2>2. lpc' = "killed" => ~Inside(img)
    BY <1>4, <1>6, InsideFacts
  <2>3. Tidy(img) => hashed' = Hashable(img, img.headers)
    <3> SUFFICES ASSUME Tidy(img) PROVE hashed' = Hashable(img, img.headers)
      OBVIOUS
    <3>1. d < img.headers /\ img.headers <= img.body /\ img.body + img.dirsize <= img.size
      BY TidyEnds
    <3>2. img.headers <= img.size
      BY <1>3, <3>1, ImageFacts
    <3> QED
      BY <1>4, <1>6, <3>1, <3>2
  <2>4. SortedTo(img, <<>>, 0)
    <3>1. IsPerm(<<>>, 0)
      BY DEF IsPerm
    <3>2. RawBytes(<<>>)[0] = 0 /\ RawBytes(img.sections)[0] = 0
      <4>1. <<>> \in Seq(Section)
        OBVIOUS
      <4> QED
        BY <4>1, ImageFacts, RawBytesFacts
    <3> QED
      BY <3>1, <3>2 DEF SortedTo
  <2>5. 0 \in 0 .. Len(img.sections)
    BY ImageFacts
  <2>6. SortState(img, <<>>, 0, hashed', sum')
    BY <1>6, <2>3, <2>4, <2>5 DEF SortState
  <2>7. SortState(img, sorted, index, hashed, sum)'
    BY <1>1, <2>6
  <2>8. lpc' = "killed" => ~(Inside(img) /\ Whole(img))'
    BY <1>1, <2>2
  <2> QED
    BY <2>1, <2>7, <2>8 DEF DigestInv
<1> QED
    BY <1>2, <1>5, <1>6

LEMMA SortSectionDigest ==
    ASSUME img \in Image, DigestInv, SortSection
    PROVE  DigestInv'
<1> DEFINE s == img.sections[index + 1]
<1>1. lpc = "sort" /\ index < Len(img.sections) /\ UNCHANGED <<img, hashed, sum>>
    BY DEF SortSection
<1>2. \/ lpc' = "sort" /\ sorted' = InsertAt(sorted, PlaceOf(s), s) /\ index' = index + 1
      \/ lpc' = "failed"
    BY <1>1 DEF SortSection
<1>3. SortState(img, sorted, index, hashed, sum)
    BY <1>1 DEF DigestInv
<1>4. CASE lpc' = "failed"
    BY <1>4 DEF DigestInv
<1>5. CASE lpc' = "sort" /\ sorted' = InsertAt(sorted, PlaceOf(s), s) /\ index' = index + 1
  <2>1. index \in Nat /\ index + 1 \in 0 .. Len(img.sections) /\ SortedTo(img, sorted, index)
    BY <1>1, <1>3, ImageFacts DEF SortState
  <2>2. SortedTo(img, sorted', index + 1)
    BY <1>1, <1>5, <2>1, InsertSorted
  <2>3. SortState(img, sorted', index + 1, hashed, sum)
    BY <1>3, <2>1, <2>2 DEF SortState
  <2>4. SortState(img, sorted, index, hashed, sum)'
    BY <1>1, <1>5, <2>3
  <2> QED
    BY <1>5, <2>4 DEF DigestInv
<1> QED
    BY <1>2, <1>4, <1>5

LEMMA SectionsSortedDigest ==
    ASSUME img \in Image, DigestInv, SectionsSorted
    PROVE  DigestInv'
<1>1. /\ lpc = "sort" /\ lpc' = "sections" /\ index = Len(img.sections) /\ index' = 0
      /\ UNCHANGED <<img, sorted, hashed, sum>>
    BY DEF SectionsSorted
<1>2. SortState(img, sorted, index, hashed, sum)
    BY <1>1 DEF DigestInv
<1>3. /\ sum = img.headers /\ (Tidy(img) => hashed = Hashable(img, sum))
      /\ SortedTo(img, sorted, Len(img.sections)) /\ Len(sorted) = Len(img.sections)
      /\ sorted \in Seq(Section)
    BY <1>1, <1>2 DEF SortState, SortedTo
<1>4. EndsTo(img, sorted, 0) = {img.headers}
    BY DEF EndsTo
<1>5. Contiguous(img, sorted, 0, sum)
    BY <1>3, <1>4, ImageFacts DEF Contiguous
<1>6. sum = img.headers + RawBytes(sorted)[0]
    BY <1>3, ImageFacts, RawBytesFacts
<1>7. SectionState(img, sorted, 0, hashed, sum)
  <2>1. 0 \in 0 .. Len(sorted) /\ sum \in Nat
    BY <1>3, ImageFacts
  <2> QED
    BY <1>3, <1>5, <1>6, <2>1 DEF SectionState
<1>8. SectionState(img, sorted, index, hashed, sum)'
    BY <1>1, <1>7
<1> QED
    BY <1>1, <1>8 DEF DigestInv

\* One section, where it is in the file
LEMMA SectionHashed ==
    ASSUME img \in Image, Tidy(img), SectionState(img, sorted, index, hashed, sum),
           index < Len(sorted), sorted[index + 1].size > 0,
           Update(hashed, sorted[index + 1].ptr, sorted[index + 1].size, <<>>, "sections"),
           sum' = (sum + sorted[index + 1].size) % Word
    PROVE  /\ sum' \in Nat /\ hashed' = Hashable(img, sum')
           /\ Contiguous(img, sorted, index + 1, sum')
<1> DEFINE s == sorted[index + 1]
           n == Len(sorted)
<1>1. /\ SortedTo(img, sorted, Len(img.sections)) /\ index \in 0 .. n
      /\ sum \in Nat /\ hashed = Hashable(img, sum) /\ Contiguous(img, sorted, index, sum)
    BY DEF SectionState
<1>2. /\ sorted \in Seq(Section) /\ n = Len(img.sections) /\ n \in Nat
      /\ \A j, k \in 1 .. n : j <= k => sorted[j].ptr <= sorted[k].ptr
    BY <1>1, ImageFacts DEF SortedTo
<1>3. index \in Nat /\ index + 1 \in 1 .. n /\ s.size \in Nat /\ s.ptr \in Nat
    BY <1>1, <1>2, SectionsNat
<1>4. /\ \A k \in 1 .. n : sorted[k].size > 0 => sorted[k].ptr \in EndsTo(img, sorted, n)
      /\ \A j, k \in 1 .. n :
            sorted[j].size > 0 /\ sorted[k].size > 0 /\ j < k => sorted[j].ptr < sorted[k].ptr
      /\ EndsTo(img, sorted, n) \subseteq SectionEnds(img)
    BY <1>1, TidySorted
<1>5. s.ptr = sum /\ Contiguous(img, sorted, index + 1, sum + s.size)
  <2>1. s.ptr \in EndsTo(img, sorted, n)
    BY <1>3, <1>4
  <2> QED
    BY <1>1, <1>2, <1>3, <1>4, <2>1, ContiguousNext
<1>6. sum > SecDir(img)
  <2>1. img.headers \in EndsTo(img, sorted, index)
    BY DEF EndsTo
  <2>2. img.headers <= sum
    BY <1>1, <2>1 DEF Contiguous
  <2> QED
    BY <1>1, <2>2, TidyEnds, ImageFacts, Offsets
<1>7. sum + s.size \in Nat /\ sum + s.size <= img.size /\ img.size < Word
  <2>1. SectionEnd(s) \in SectionEnds(img)
    BY <1>3, <1>4 DEF EndsTo
  <2>2. SectionEnd(s) <= img.body /\ img.body + img.dirsize <= img.size /\ img.size < Word
    BY <2>1, TidyEnds
  <2> QED
    BY <1>1, <1>3, <1>5, <2>2, ImageFacts DEF SectionEnd
<1>8. sum' = sum + s.size
  <2>1. sum + s.size < Word
    BY <1>7, ImageFacts, WordAssumption
  <2> QED
    BY <1>7, <2>1, NoWrap
<1>9. hashed' = hashed \o Piece(img, sum, s.size) \o <<>>
  <2> HIDE DEF s
  <2>1. Update(hashed, sum, s.size, <<>>, "sections")
    BY <1>5 DEF s
  <2>2. sum \in Nat /\ s.size \in Nat /\ sum + s.size <= img.size
    BY <1>1, <1>3, <1>7
  <2> QED
    BY <2>1, <2>2, UpdateInside
<1>10. hashed \o Piece(img, sum, s.size) = Hashable(img, sum + s.size)
    BY <1>1, <1>3, <1>6, HashableMore
<1>11. Hashable(img, sum + s.size) \in Seq(Int)
    BY <1>1, <1>3, <1>6, <1>7, Offsets, HashableFacts
<1> HIDE DEF s
<1>12. hashed' = Hashable(img, sum + s.size)
    BY <1>9, <1>10, <1>11, ConcatEmptySeq
<1> QED
    BY <1>5, <1>7, <1>8, <1>12

\* The same for files whose sections are in the file, in whatever order
LEMMA SectionInside ==
    ASSUME img \in Image, Inside(img), SectionState(img, sorted, index, hashed, sum),
           index < Len(sorted)
    PROVE  LET s == sorted[index + 1] IN
           /\ s.ptr \in Nat /\ s.size \in Nat /\ s.ptr <= img.size
           /\ (sum + s.size) % Word = img.headers + RawBytes(sorted)[index + 1]
<1> DEFINE s == sorted[index + 1]
           n == Len(sorted)
<1>1. /\ SortedTo(img, sorted, Len(img.sections)) /\ index \in 0 .. n
      /\ sum = img.headers + RawBytes(sorted)[index]
    BY DEF SectionState
<1>2. sorted \in Seq(Section) /\ n \in Nat /\ index + 1 \in 1 .. n /\ index + 1 \in 0 .. n
    BY <1>1, ImageFacts DEF SortedTo
<1>3. s.ptr \in Nat /\ s.size \in Nat
    BY <1>2, SectionsNat
<1>4. /\ s.ptr <= img.size /\ RawBytes(sorted)[index] \in Nat
      /\ RawBytes(sorted)[index + 1] \in Nat
      /\ img.headers + RawBytes(sorted)[index + 1] + img.dirsize <= img.size
    BY <1>1, <1>2, InsideSorted
<1>5. RawBytes(sorted)[index + 1] = RawBytes(sorted)[index] + s.size
  <2>1. RawBytes(sorted)[index + 1] = RawBytes(sorted)[(index + 1) - 1] + s.size
    BY <1>2, RawBytesFacts
  <2>2. (index + 1) - 1 = index
    BY <1>1
  <2> QED
    BY <2>1, <2>2
<1> HIDE DEF s
<1>6. /\ img.headers \in Nat /\ img.dirsize \in Nat /\ img.size \in Nat /\ Word \in Nat
      /\ img.size < Word
    BY ImageFacts, InsideFacts, WordAssumption
<1>7. sum + s.size \in Nat /\ sum + s.size < Word
      /\ sum + s.size = img.headers + RawBytes(sorted)[index + 1]
  <2> DEFINE u == RawBytes(sorted)[index]
             w == RawBytes(sorted)[index + 1]
             z == s.size
             h == img.headers
             d == img.dirsize
             m == img.size
  <2>1. /\ h \in Nat /\ u \in Nat /\ z \in Nat /\ d \in Nat /\ m \in Nat
        /\ sum = h + u /\ w = u + z /\ h + w + d <= m /\ m < Word
    BY <1>1, <1>3, <1>4, <1>5, <1>6
  <2> HIDE DEF u, w, z, h, d, m
  <2>2. sum + z = h + w
    BY <2>1
  <2>3. w \in Nat /\ h + w <= m
    BY <2>1
  <2>4. sum + z \in Nat /\ sum + z < Word /\ sum + z = h + w
    BY <2>1, <2>2, <2>3, WordAssumption
  <2> QED
    BY <2>4 DEF w, z, h
<1>8. (sum + s.size) % Word = sum + s.size
    BY <1>7, NoWrap
<1> QED
    BY <1>3, <1>4, <1>7, <1>8 DEF s

LEMMA HashSectionDigest ==
    ASSUME img \in Image, DigestInv, HashSection
    PROVE  DigestInv'
<1> DEFINE s == sorted[index + 1]
<1>1. lpc = "sections" /\ index < Len(sorted) /\ UNCHANGED <<img, sorted>>
    BY DEF HashSection
<1>2. SectionState(img, sorted, index, hashed, sum)
    BY <1>1 DEF DigestInv
<1>3. /\ SortedTo(img, sorted, Len(img.sections)) /\ index \in 0 .. Len(sorted)
      /\ sorted \in Seq(Section) /\ Len(sorted) \in Nat
    BY <1>2, ImageFacts DEF SectionState, SortedTo
<1>4. index \in Nat /\ index + 1 \in 0 .. Len(sorted) /\ s.size \in Nat
    BY <1>1, <1>3, SectionsNat
<1>5. CASE s.size = 0
  <2>1. index' = index + 1 /\ lpc' = "sections" /\ UNCHANGED <<hashed, sum>>
    BY <1>1, <1>5 DEF HashSection
  <2>2. ASSUME Tidy(img) PROVE Contiguous(img, sorted, index + 1, sum)
    <3>1. Contiguous(img, sorted, index, sum)
      BY <1>2, <2>2 DEF SectionState
    <3>2. ~(sorted[index + 1].size > 0)
      BY <1>5
    <3> QED
      BY <1>4, <3>1, <3>2, ContiguousSkip
  <2>3. ASSUME Inside(img) PROVE sum = img.headers + RawBytes(sorted)[index + 1]
    <3>1. index + 1 \in 1 .. Len(sorted) /\ (index + 1) - 1 = index
      BY <1>1, <1>3
    <3>2. RawBytes(sorted)[index + 1] = RawBytes(sorted)[index] + s.size
      BY <1>3, <3>1, RawBytesFacts
    <3>3. RawBytes(sorted)[index] \in Nat
      BY <1>3, RawBytesFacts
    <3> QED
      BY <1>2, <1>5, <2>3, <3>2, <3>3 DEF SectionState
  <2>4. SectionState(img, sorted, index + 1, hashed, sum)
    BY <1>2, <1>4, <2>2, <2>3 DEF SectionState
  <2>5. SectionState(img, sorted, index, hashed, sum)'
    BY <1>1, <2>1, <2>4
  <2> QED
    BY <2>1, <2>5 DEF DigestInv
<1>6. CASE s.size > 0
  <2>1. \/ /\ Fits(s.size, img.size - s.ptr)
           /\ Update(hashed, s.ptr, s.size, <<>>, "sections")
           /\ sum' = (sum + s.size) % Word /\ index' = index + 1
        \/ lpc' = "failed"
    BY <1>4, <1>6 DEF HashSection
  <2>2. CASE lpc' = "failed"
    BY <2>2 DEF DigestInv
  <2>3. CASE /\ Fits(s.size, img.size - s.ptr)
             /\ Update(hashed, s.ptr, s.size, <<>>, "sections")
             /\ sum' = (sum + s.size) % Word /\ index' = index + 1
    <3>1. lpc' \in {"sections", "killed"}
      BY <2>3 DEF Update
    <3>2. Inside(img) => lpc' # "killed"
      <4> SUFFICES ASSUME Inside(img) PROVE lpc' # "killed"
        OBVIOUS
      <4>1. s.ptr \in Nat /\ s.size \in Nat /\ s.ptr <= img.size
        BY <1>1, <1>2, SectionInside
      <4>2. s.ptr + s.size <= img.size
        BY <2>3, <4>1, ImageFacts DEF Fits
      <4> HIDE DEF s
      <4>3. lpc' = "sections"
        BY <2>3, <4>1, <4>2, UpdateInside
      <4> QED
        BY <4>3
    <3>3. Tidy(img) => /\ sum' \in Nat /\ hashed' = Hashable(img, sum')
                       /\ Contiguous(img, sorted, index + 1, sum')
      BY <1>1, <1>2, <1>6, <2>3, SectionHashed
    <3>4. Inside(img) => sum' = img.headers + RawBytes(sorted)[index + 1]
      BY <1>1, <1>2, <2>3, SectionInside
    <3>5. SectionState(img, sorted, index + 1, hashed', sum')
      BY <1>3, <1>4, <3>3, <3>4 DEF SectionState
    <3>6. SectionState(img, sorted, index, hashed, sum)'
      BY <1>1, <2>3, <3>5
    <3>7. lpc' = "killed" => ~(Inside(img) /\ Whole(img))'
      BY <1>1, <3>2
    <3> QED
      BY <3>1, <3>6, <3>7 DEF DigestInv
  <2> QED
    BY <2>1, <2>2, <2>3
<1> QED
    BY <1>4, <1>5, <1>6

LEMMA HashUpToTableDigest ==
    ASSUME img \in Image, DigestInv, HashUpToTable
    PROVE  DigestInv'
<1> DEFINE n == (img.size - img.dirsize - sum) % Word
           m == img.size - img.dirsize - sum
<1>1. /\ lpc = "sections" /\ index = Len(sorted) /\ UNCHANGED <<img, sorted>>
      /\ IF img.size > sum /\ img.dirsize > 0
         THEN Update(hashed, sum, n, <<>>, "rest") /\ sum' = (sum + n) % Word
         ELSE lpc' = "rest" /\ UNCHANGED <<hashed, sum>>
    BY DEF HashUpToTable
<1>2. SectionState(img, sorted, index, hashed, sum)
    BY <1>1 DEF DigestInv
<1>3. img.size \in Nat /\ img.dirsize \in Nat /\ img.headers \in Nat /\ img.body \in Nat /\ Word \in Nat
    BY ImageFacts, WordAssumption
\* What is left is less than 32 bits.
<1>4. ASSUME sum \in Nat, sum + img.dirsize <= img.size, img.size < Word,
             img.size > sum, img.dirsize > 0
      PROVE  /\ m \in Nat /\ sum + m = img.size - img.dirsize
             /\ hashed' = hashed \o Piece(img, sum, m) \o <<>>
             /\ sum' = img.size - img.dirsize /\ lpc' = "rest"
  <2>1. m \in Nat /\ m < Word /\ sum + m = img.size - img.dirsize /\ sum + m <= img.size
    BY <1>3, <1>4
  <2>2. n = m
    BY <2>1, NoWrap
  <2>3. (sum + m) % Word = sum + m
    BY <1>3, <1>4, <2>1, NoWrap
  <2>4. Update(hashed, sum, m, <<>>, "rest") /\ sum' = sum + m
    BY <1>1, <1>4, <2>2, <2>3
  <2> HIDE DEF m, n
  <2> QED
    BY <1>4, <2>1, <2>4, UpdateInside
<1> HIDE DEF n
<1>5. lpc' \in {"rest", "killed"}
    BY <1>1 DEF Update
<1>6. Inside(img) => sum \in Nat /\ sum + img.dirsize <= img.size /\ img.size < Word
  <2> SUFFICES ASSUME Inside(img)
               PROVE  sum \in Nat /\ sum + img.dirsize <= img.size /\ img.size < Word
    OBVIOUS
  <2>1. sum = img.headers + RawBytes(sorted)[index] /\ index \in 0 .. Len(sorted)
    BY <1>2 DEF SectionState
  <2>2. RawBytes(sorted)[index] \in Nat
        /\ img.headers + RawBytes(sorted)[index] + img.dirsize <= img.size
    BY <1>2, <2>1, InsideSorted DEF SectionState
  <2> QED
    BY <1>3, <2>1, <2>2, InsideFacts
<1>7. Inside(img) => lpc' = "rest" /\ sum' \in Nat /\ sum' + img.dirsize <= img.size
    BY <1>1, <1>3, <1>4, <1>6
<1>8. ASSUME Tidy(img)
      PROVE  IF img.dirsize = 0
             THEN /\ sum' \in Nat /\ SecDir(img) < sum' /\ sum' \in SectionEnds(img)
                  /\ hashed' = Hashable(img, sum')
             ELSE sum' = img.size - img.dirsize /\ hashed' = Expected(img)
  <2>1. /\ sum \in Nat /\ hashed = Hashable(img, sum) /\ Contiguous(img, sorted, index, sum)
        /\ SortedTo(img, sorted, Len(img.sections))
    BY <1>2, <1>8 DEF SectionState
  <2>2. sum \in SectionEnds(img)
    <3>1. EndsTo(img, sorted, Len(sorted)) \subseteq SectionEnds(img)
      BY <1>8, <2>1, TidySorted
    <3> QED
      BY <1>1, <2>1, <3>1 DEF Contiguous
  <2>3. sum > SecDir(img)
    <3>1. img.headers \in EndsTo(img, sorted, index)
      BY DEF EndsTo
    <3>2. img.headers <= sum
      BY <2>1, <3>1 DEF Contiguous
    <3> QED
      BY <1>3, <1>8, <2>1, <3>2, TidyEnds, Offsets
  <2>4. sum <= img.body /\ img.body + img.dirsize <= img.size /\ img.size < Word
    BY <1>8, <2>2, TidyEnds
  <2>5. CASE img.dirsize = 0
    <3>1. UNCHANGED <<hashed, sum>>
      BY <1>1, <2>5
    <3> QED
      BY <2>1, <2>2, <2>3, <2>5, <3>1, Offsets
  <2>6. CASE img.dirsize # 0
    <3>1. sum + img.dirsize <= img.size /\ img.size > sum /\ img.dirsize > 0
      BY <1>3, <2>1, <2>4, <2>6
    <3>2. /\ m \in Nat /\ sum + m = img.size - img.dirsize
          /\ hashed' = hashed \o Piece(img, sum, m) \o <<>>
          /\ sum' = img.size - img.dirsize
      BY <1>4, <2>1, <2>4, <3>1
    <3> HIDE DEF m
    <3>3. hashed \o Piece(img, sum, m) = Hashable(img, sum + m)
      BY <2>1, <2>3, <3>2, HashableMore
    <3>4. Hashable(img, sum + m) \in Seq(Int)
      BY <2>1, <2>3, <3>2, Offsets, HashableFacts
    <3>5. hashed' = Hashable(img, sum + m)
      BY <3>2, <3>3, <3>4, ConcatEmptySeq
    <3>6. img.size - img.dirsize = img.body + Gap(img.body)
      BY <1>8, <2>6, TidyEnds
    <3>7. hashed' = Expected(img)
      BY <3>2, <3>5, <3>6 DEF Expected
    <3> QED
      BY <2>6, <3>2, <3>7
  <2> QED
    BY <2>5, <2>6
<1>9. RestState(img, hashed', sum')
    BY <1>7, <1>8 DEF RestState
<1>10. RestState(img, hashed, sum)'
    BY <1>1, <1>9
<1>11. lpc' = "killed" => ~(Inside(img) /\ Whole(img))'
    BY <1>1, <1>7
<1> QED
    BY <1>5, <1>10, <1>11 DEF DigestInv

LEMMA HashRestDigest ==
    ASSUME img \in Image, DigestInv, HashRest
    PROVE  DigestInv'
<1> DEFINE n == (img.size - sum - img.dirsize) % Word
           m == img.size - sum - img.dirsize
<1>1. /\ lpc = "rest" /\ img' = img
      /\ IF img.size > (sum + img.dirsize) % Word
         THEN Update(hashed, sum, n, Padding((sum + n) % Word), "loaded")
         ELSE lpc' = "loaded" /\ hashed' = hashed
    BY DEF HashRest
<1>2. RestState(img, hashed, sum)
    BY <1>1 DEF DigestInv
<1>3. img.size \in Nat /\ img.dirsize \in Nat /\ img.body \in Nat /\ Word \in Nat
    BY ImageFacts, WordAssumption
<1>4. ASSUME sum \in Nat, sum + img.dirsize <= img.size, img.size < Word
      PROVE  /\ m \in Nat /\ sum + m = img.size - img.dirsize /\ lpc' = "loaded"
             /\ hashed' = IF img.size > sum + img.dirsize
                          THEN hashed \o Piece(img, sum, m) \o Padding(sum + m)
                          ELSE hashed
  <2>1. m \in Nat /\ m < Word /\ sum + m = img.size - img.dirsize /\ sum + m <= img.size
    BY <1>3, <1>4
  <2>2. n = m
    BY <2>1, NoWrap
  <2>3. (sum + m) % Word = sum + m
    BY <1>3, <1>4, <2>1, NoWrap
  <2>4. (sum + img.dirsize) % Word = sum + img.dirsize
    BY <1>3, <1>4, NoWrap
  <2>5. CASE img.size > sum + img.dirsize
    <3>1. Update(hashed, sum, m, Padding(sum + m), "loaded")
      BY <1>1, <2>2, <2>3, <2>4, <2>5
    <3> HIDE DEF m, n
    <3> QED
      BY <1>4, <2>1, <2>5, <3>1, UpdateInside
  <2>6. CASE ~(img.size > sum + img.dirsize)
    BY <1>1, <2>1, <2>4, <2>6
  <2> QED
    BY <2>5, <2>6
<1> HIDE DEF n
<1>5. lpc' \in {"loaded", "killed"}
    BY <1>1 DEF Update
<1>6. Inside(img) => lpc' = "loaded"
  <2>1. Inside(img) => sum \in Nat /\ sum + img.dirsize <= img.size
    BY <1>2 DEF RestState
  <2> QED
    BY <1>4, <2>1, InsideFacts
<1>7. ASSUME Tidy(img), PaddedAsSigned(img) PROVE hashed' = Expected(img)
  <2>1. Gap(img.body) \in Nat /\ img.size < Word
    BY <1>3, <1>7, GapNat, TidyEnds
  <2>2. CASE img.dirsize # 0
    <3>1. sum = img.size - img.dirsize /\ hashed = Expected(img)
      BY <1>2, <1>7, <2>2 DEF RestState
    <3>2. sum \in Nat /\ sum + img.dirsize <= img.size /\ ~(img.size > sum + img.dirsize)
      <4>1. img.body + img.dirsize <= img.size
        BY <1>7, TidyEnds
      <4> QED
        BY <1>3, <3>1, <4>1
    <3> QED
      BY <1>4, <2>1, <3>1, <3>2
  <2>3. CASE img.dirsize = 0
    <3>1. sum \in Nat /\ SecDir(img) < sum /\ sum \in SectionEnds(img) /\ hashed = Hashable(img, sum)
      BY <1>2, <1>7, <2>3 DEF RestState
    <3>2. sum <= img.body /\ (Gap(img.body) # 0 => sum < img.body) /\ img.size = img.body
      BY <1>7, <2>3, <3>1, TidyEnds DEF PaddedAsSigned
    <3>3. sum + img.dirsize <= img.size
      BY <1>3, <2>3, <3>1, <3>2
    <3>4. /\ m \in Nat /\ sum + m = img.body
          /\ hashed' = IF img.size > sum + img.dirsize
                       THEN hashed \o Piece(img, sum, m) \o Padding(img.body)
                       ELSE hashed
      <4>1. img.size - img.dirsize = img.body
        BY <1>3, <2>3, <3>2
      <4>2. sum + m = img.body
        BY <1>4, <2>1, <3>1, <3>3, <4>1
      <4> QED
        BY <1>4, <2>1, <3>1, <3>3, <4>2
    <3> HIDE DEF m
    <3>5. CASE sum < img.body
      <4>1. img.size > sum + img.dirsize /\ img.body > SecDir(img) /\ sum > SecDir(img)
        BY <1>3, <2>3, <3>1, <3>2, <3>5, Offsets
      <4>2. hashed \o Piece(img, sum, m) = Hashable(img, img.body)
        BY <3>1, <3>4, <4>1, HashableMore
      <4> QED
        BY <3>4, <4>1, <4>2, Padded
    <3>6. CASE sum = img.body
      <4>1. ~(img.size > sum + img.dirsize) /\ img.body + Gap(img.body) = sum
        BY <1>3, <2>1, <2>3, <3>1, <3>2, <3>6
      <4> QED
        BY <3>1, <3>4, <4>1 DEF Expected
    <3> QED
      BY <1>3, <3>1, <3>2, <3>5, <3>6
  <2> QED
    BY <2>2, <2>3
<1>8. (Tidy(img) /\ PaddedAsSigned(img) => hashed = Expected(img))'
    BY <1>1, <1>7
<1>9. lpc' = "killed" => ~(Inside(img) /\ Whole(img))'
    BY <1>1, <1>6
<1> QED
    BY <1>5, <1>8, <1>9 DEF DigestInv

\* What is behind the table of a whole file is not read.
LEMMA StrayCertDigest ==
    ASSUME LoadInv, DigestInv, StrayCert
    PROVE  DigestInv'
<1>1. /\ lpc = "sigs" /\ ~TableEnds /\ pos.entry > Len(img.table)
      /\ lpc' \in {"hash", "failed", "killed"} /\ UNCHANGED <<img, sorted, index>>
    BY DEF StrayCert
<1>2. loading.name \in DOMAIN Files /\ img = Files[loading.name] /\ Walking(img)
    BY <1>1 DEF LoadInv
<1>3. ~Whole(img)
  <2>1. Len(img.table) \in Nat
    BY <1>2, FileTable
  <2> QED
    BY <1>1, <1>2, <2>1, EntryThere
<1>4. ~(Inside(img) /\ Whole(img))'
    BY <1>1, <1>3
<1>5. sorted' = <<>> /\ index' = 0
    BY <1>1 DEF DigestInv
<1> QED
    BY <1>1, <1>4, <1>5 DEF DigestInv

LEMMA DigestNext ==
    ASSUME LoadInv, DigestInv, [Next]_vars
    PROVE  DigestInv'
<1>1. lpc # "idle" => img \in Image
    BY FilesAssumption DEF LoadInv
<1>2. CASE Loading
  <2>1. CASE CheckHeaders \/ EndSigs \/ SkipCert \/ BadSig \/ AddSig
    BY <2>1 DEF CheckHeaders, EndSigs, SkipCert, BadSig, AddSig, AtCert, Advance, DigestInv
  <2>2. CASE HashHeaders
    BY <1>1, <2>2, HashHeadersDigest DEF HashHeaders
  <2>3. CASE SortSection
    BY <1>1, <2>3, SortSectionDigest DEF SortSection
  <2>4. CASE SectionsSorted
    BY <1>1, <2>4, SectionsSortedDigest DEF SectionsSorted
  <2>5. CASE HashSection
    BY <1>1, <2>5, HashSectionDigest DEF HashSection
  <2>6. CASE HashUpToTable
    BY <1>1, <2>6, HashUpToTableDigest DEF HashUpToTable
  <2>7. CASE HashRest
    BY <1>1, <2>7, HashRestDigest DEF HashRest
  <2>8. CASE StrayCert
    BY <2>8, StrayCertDigest
  <2> QED
    BY <1>2, <2>1, <2>2, <2>3, <2>4, <2>5, <2>6, <2>7, <2>8 DEF Loading, LoadStep
<1>3. CASE AddFile
    BY <1>3 DEF AddFile, StartLoad, DigestInv
<1>4. CASE Loaded \/ LoadFailed \/ Killed
    BY <1>4 DEF Loaded, LoadFailed, Killed, EndLoad, DigestInv
<1>5. CASE UNCHANGED peVars
    BY <1>5 DEF peVars, DigestInv
<1>6. ASSUME Next, ~Loading, ~AddFile, ~Loaded, ~LoadFailed, ~Killed PROVE UNCHANGED peVars
    BY <1>6 DEF Next, Flag, NoSystem, FromFile, FromSystem, EndOptions, EndArgs, DefaultDb,
        ParseSecdbInfo, ChooseInput, EndInput, CheckHashes, ScoreSig, FileScored, Sort,
        PrintFile, Finish
<1>7. UNCHANGED vars => UNCHANGED peVars
    BY DEF vars
<1> QED
    BY <1>2, <1>3, <1>4, <1>5, <1>6, <1>7

LEMMA DigestInit == Init => DigestInv
    BY DEF Init, PeInit, DigestInv

\* While load_pe runs, the digest is over the bytes up to where it is, if the
\* sections follow each other.
THEOREM DigestInvariance == Spec => []DigestInv
<1>1. DigestInv /\ LoadInv /\ [Next]_vars => DigestInv'
    BY DigestNext
<1> QED
    BY <1>1, DigestInit, LoadInvariance, PTL DEF Spec

\* A file that was loaded has the digest its signer saw, whatever signatures,
\* sections and data behind them it has, and all of its signatures were found;
\* and no size wraps around that makes the code read behind the map, if the
\* headers claim no more than there is.
THEOREM ImagesRight == Spec => []ImageRight
<1>1. DigestInv => DigestRight
    BY DEF DigestInv, DigestRight
<1>2. DigestInv => ReadsInside
    BY DEF DigestInv, ReadsInside
<1> QED
    BY <1>1, <1>2, DigestInvariance, SignaturesFound, PTL DEF ImageRight

(***************************************************************************)
(* The verdicts                                                            *)
(***************************************************************************)

IsSeq(s) == s \in Seq(Range(s))

\* The signature s is trusted by d and not revoked by x.
Accepted(s, d, x) ==
    (\E c \in Range(s) : Finds(c, d)) /\ ~ \E c \in Range(s) : Finds(c, x)

\* The signatures of a file as it was loaded that count.
All(p) == {i \in DOMAIN p.sigs : p.first => i = 1}

\* Every signature of the file that is trusted has a strength.
AllRated(p, d, x) ==
    \A s \in Counted(p) : Accepted(s, d, x) => \E c \in Range(s) : SecBits(c) > 0

IsPe(p) ==
    p = [name |-> p.name, sigs |-> p.sigs, digest |-> p.digest, first |-> p.first,
         not_after |-> p.not_after, not_before |-> p.not_before, revoked |-> p.revoked,
         trusted |-> p.trusted, secbits |-> p.secbits, why |-> p.why, signed |-> p.signed]

FileOK(p) ==
    /\ IsPe(p) /\ p.name \in DOMAIN Files /\ p.first \in BOOLEAN
    /\ Found(Files[p.name], p.sigs)
    /\ p.not_after = LatestNotAfter(p.sigs) /\ p.not_before = EarliestNotBefore(p.sigs)

\* Nothing was found out about the file.
Fresh(p) == p.why = "none" /\ p.signed = FALSE

Hashed(p, d, x) == p.revoked = Hashes(p, x) /\ p.trusted = Hashes(p, d)

\* What is known after the signatures in S.
Judged(p, S, d, x) ==
    /\ p.signed \in BOOLEAN
    /\ p.signed <=> \E i \in S : Accepted(p.sigs[i], d, x)
    /\ IF p.signed THEN p.why = "trusted" ELSE p.why \in {"none", "revoked"}

\* m has the lowest strengths of the certificates that the signatures in T are
\* rated by.
Lowest(p, T, m) ==
    IF T = {} THEN m.md = Bound /\ m.pk = Bound
    ELSE /\ \E i \in T : m.md = MdBits[WorstCert(p.sigs[i]).md]
         /\ \E i \in T : m.pk = PkBits(WorstCert(p.sigs[i]))
         /\ \A i \in T : /\ m.md <= MdBits[WorstCert(p.sigs[i]).md]
                         /\ m.pk <= PkBits(WorstCert(p.sigs[i]))

\* Those of the signatures in S that are trusted
Trusted(p, S, d, x) == {i \in S : Accepted(p.sigs[i], d, x)}

Strong(p, S, m, d, x) ==
    /\ m.md \in Nat /\ m.pk \in Nat
    /\ AllRated(p, d, x) => m.md > 0 /\ m.pk > 0
    /\ Lowest(p, Trusted(p, S, d, x), m)

\* The file is rated by the weakest of its trusted signatures.
Weakest(p, T) ==
    /\ \E i \in T : p.secbits = SecBits(WorstCert(p.sigs[i]))
    /\ \A i \in T : p.secbits <= SecBits(WorstCert(p.sigs[i]))

Scored(p, d, x) ==
    /\ Hashed(p, d, x) /\ Judged(p, All(p), d, x)
    /\ p.secbits \in Nat /\ (p.secbits > 0 => p.signed)
    /\ p.signed /\ AllRated(p, d, x) => p.secbits > 0
    /\ p.signed => Weakest(p, Trusted(p, All(p), d, x))

\* The file p at the signature k of the loop
AtSig(p, k, m, d, x) ==
    /\ k \in 1 .. Len(p.sigs) + 1 /\ (p.first => k \in {1, Len(p.sigs) + 1})
    /\ Hashed(p, d, x) /\ Judged(p, {i \in All(p) : i < k}, d, x)
    /\ Strong(p, {i \in All(p) : i < k}, m, d, x)

Scoring ==
    /\ at.file \in 1 .. Len(files) + 1 /\ at.sig \in Nat
    /\ \A f \in 1 .. Len(files) :
        /\ f < at.file => Scored(files[f], db, dbx)
        /\ f > at.file => Fresh(files[f])
        /\ f = at.file /\ at.sig = 0 => Fresh(files[f])
        /\ f = at.file /\ at.sig # 0 => AtSig(files[f], at.sig, low, db, dbx)
    /\ at.sig # 0 => at.file <= Len(files)
    /\ out = <<>>

GoodOf(p) == p.revoked = {} /\ (p.trusted # {} \/ p.secbits > 0)

WhyOf(p) ==
    IF p.revoked # {} THEN "revoked" ELSE IF p.trusted # {} THEN "trusted" ELSE p.why

\* What the output o says of p, the file f.
LineOK(o, p, f, fl) ==
    IF "explain" \in fl \/ GoodOf(p)
    THEN \E i \in 1 .. Len(o) :
            /\ o[i].of = f /\ (o[i].good <=> GoodOf(p))
            /\ "explain" \in fl => o[i].why = WhyOf(p)
            /\ \A j \in 1 .. Len(o) : o[j].of = f => j = i
    ELSE \A j \in 1 .. Len(o) : o[j].of # f

ToldTo(n, o, fs, fl) ==
    /\ IsSeq(o)
    /\ \A i \in 1 .. Len(o) : o[i].of \in 1 .. n - 1
    /\ \A i, j \in 1 .. Len(o) : i < j => o[i].of < o[j].of
    /\ \A f \in 1 .. n - 1 : LineOK(o, fs[f], f, fl)

ScoreInv ==
    /\ IsSeq(files) /\ \A f \in 1 .. Len(files) : FileOK(files[f])
    /\ at = [file |-> at.file, sig |-> at.sig]
    /\ phase \notin {"score", "print", "done", "exit", "killed"} =>
            /\ at = [file |-> 1, sig |-> 0] /\ out = <<>>
            /\ \A f \in 1 .. Len(files) : Fresh(files[f])
    /\ phase = "score" => Scoring
    /\ phase \in {"print", "done"} =>
            /\ \A f \in 1 .. Len(files) : Scored(files[f], db, dbx)
            /\ \A f, g \in 1 .. Len(files) : f < g => ~Pe_cmp(files[g], files[f])
            /\ at.file \in 1 .. Len(files) + 1
            /\ ToldTo(at.file, out, files, flags)
    /\ phase = "done" => at.file = Len(files) + 1

LEMMA SeqFacts ==
    ASSUME NEW s, IsSeq(s)
    PROVE  Len(s) \in Nat /\ DOMAIN s = 1 .. Len(s)
    BY DEF IsSeq

LEMMA SeqIsSeq ==
    ASSUME NEW S, NEW s \in Seq(S)
    PROVE  IsSeq(s)
<1>1. \A i \in 1 .. Len(s) : s[i] \in Range(s)
    BY DEF Range
<1> QED
    BY <1>1 DEF IsSeq

LEMMA SeqAppend ==
    ASSUME NEW s, IsSeq(s), NEW e
    PROVE  /\ IsSeq(Append(s, e)) /\ Len(Append(s, e)) = Len(s) + 1
           /\ Append(s, e)[Len(s) + 1] = e
           /\ \A i \in 1 .. Len(s) : Append(s, e)[i] = s[i]
<1> DEFINE S == Range(s) \cup {e}
<1>1. s \in Seq(S) /\ e \in S
  <2>1. s \in Seq(Range(s))
    BY DEF IsSeq
  <2> HIDE DEF S
  <2>2. Range(s) \subseteq S /\ e \in S
    BY DEF S
  <2> QED
    BY <2>1, <2>2
<1> HIDE DEF S
<1>2. Append(s, e) \in Seq(S)
    BY <1>1
<1>3. IsSeq(Append(s, e))
    BY <1>2, SeqIsSeq
<1>4. /\ Len(Append(s, e)) = Len(s) + 1 /\ Append(s, e)[Len(s) + 1] = e
      /\ \A i \in 1 .. Len(s) : Append(s, e)[i] = s[i]
    BY <1>1
<1> QED
    BY <1>3, <1>4

LEMMA SeqByIndex ==
    ASSUME NEW n \in Nat, NEW r, DOMAIN r = 1 .. n, r = [i \in DOMAIN r |-> r[i]]
    PROVE  IsSeq(r) /\ Len(r) = n
<1>1. \A i \in 1 .. n : r[i] \in Range(r)
    BY DEF Range
<1>2. r \in [1 .. n -> Range(r)]
    BY <1>1
<1>3. r \in Seq(Range(r)) /\ Len(r) = n
    BY <1>2
<1> QED
    BY <1>3 DEF IsSeq

LEMMA MinTwo ==
    ASSUME NEW a \in Nat, NEW b \in Nat
    PROVE  MinOf({a, b}) \in {a, b} /\ MinOf({a, b}) <= a /\ MinOf({a, b}) <= b
<1>1. \E n \in {a, b} : \A m \in {a, b} : n <= m
    OBVIOUS
<1>2. MinOf({a, b}) \in {a, b} /\ \A m \in {a, b} : MinOf({a, b}) <= m
    BY <1>1 DEF MinOf
<1> QED
    BY <1>2

\* The strengths of a certificate
LEMMA BitsFacts ==
    ASSUME NEW c \in Certificate
    PROVE  /\ MdBits[c.md] \in Nat /\ MdBits[c.md] > 0 /\ PkBits(c) \in Nat
           /\ SecBits(c) \in Nat /\ SecBits(c) <= 256
           /\ MdBits[c.md] <= 256 /\ PkBits(c) <= 256
           /\ SecBits(c) > 0 => PkBits(c) > 0
           /\ PkBits(c) > 0 => SecBits(c) > 0
<1>1. c.md \in {"SHA512", "SHA384", "SHA256", "SHA224", "SHA1"} /\ c.key \in Nat
    BY DEF Certificate, MdBits
<1>2. MdBits[c.md] \in Nat /\ MdBits[c.md] > 0 /\ MdBits[c.md] <= 256
    BY <1>1 DEF MdBits
<1>3. PkBits(c) \in Nat /\ PkBits(c) <= 256
    BY <1>1 DEF PkBits
<1>4. /\ SecBits(c) \in {MdBits[c.md], PkBits(c)}
      /\ SecBits(c) <= MdBits[c.md] /\ SecBits(c) <= PkBits(c)
    BY <1>2, <1>3, MinTwo DEF SecBits
<1> QED
    BY <1>2, <1>3, <1>4

\* The certificate a signature is rated by is the strongest.
LEMMA WorstIs ==
    ASSUME NEW s \in Seq(Certificate), s # <<>>
    PROVE  /\ WorstCert(s) \in Certificate
           /\ \A c \in Range(s) : SecBits(c) <= SecBits(WorstCert(s))
<1> DEFINE n == Len(s)
           b == [i \in 1 .. n |-> SecBits(s[i])]
           Best(i) == \A j \in DOMAIN s : \/ SecBits(s[j]) < SecBits(s[i])
                                          \/ SecBits(s[j]) = SecBits(s[i]) /\ i <= j
           w == CHOOSE i \in DOMAIN s : Best(i)
<1>1. n \in Nat \ {0} /\ DOMAIN s = 1 .. n
    OBVIOUS
<1>2. \A i \in 1 .. n : s[i] \in Certificate
    OBVIOUS
<1>3. \A i \in 1 .. n : b[i] = SecBits(s[i]) /\ SecBits(s[i]) \in Nat /\ SecBits(s[i]) <= 256
    BY <1>2, BitsFacts
<1>4. \E i \in DOMAIN s : Best(i)
  <2> HIDE DEF b, n
  <2>1. PICK i \in 1 .. n : \A j \in 1 .. n : b[j] < b[i] \/ (b[j] = b[i] /\ i <= j)
    <3>1. 256 \in Nat /\ \A j \in 1 .. n : b[j] \in Nat /\ b[j] <= 256
      BY <1>3
    <3> QED
      BY <1>1, <3>1, FirstGreatest
  <2> QED
    BY <1>1, <1>3, <2>1
<1>5. w \in DOMAIN s /\ Best(w)
  <2> HIDE DEF Best
  <2> QED
    BY <1>4
<1>6. WorstCert(s) = s[w]
    BY DEF WorstCert
<1>7. \A i \in DOMAIN s : SecBits(s[i]) \in Int
  <2> HIDE DEF b, n
  <2> QED
    BY <1>1, <1>3
<1> HIDE DEF w, b, n
<1>8. ASSUME NEW c \in Range(s) PROVE SecBits(c) <= SecBits(s[w])
  <2>1. PICK j \in DOMAIN s : c = s[j]
    BY DEF Range
  <2>2. SecBits(s[j]) \in Int /\ SecBits(s[w]) \in Int
    BY <1>5, <1>7
  <2>3. SecBits(s[j]) < SecBits(s[w]) \/ SecBits(s[j]) = SecBits(s[w])
    BY <1>5
  <2>4. SecBits(s[j]) <= SecBits(s[w])
    BY <2>2, <2>3
  <2> QED
    BY <2>1, <2>4
<1> QED
    BY <1>1, <1>2, <1>5, <1>6, <1>8

\* check_secdb_hash finds a digest when the database has it.
LEMMA HashFound ==
    ASSUME NEW d, IsDb(d), NEW p
    PROVE  Hashes(p, d) # {} <=> ByHash(p, d)
<1>1. ASSUME Hashes(p, d) # {} PROVE ByHash(p, d)
  <2>1. PICK a \in Algorithm : [kind |-> "digest", alg |-> a, digest |-> p.digest] \in d
    BY <1>1 DEF Hashes
  <2> QED
    BY <2>1 DEF ByHash
<1>2. ASSUME ByHash(p, d) PROVE Hashes(p, d) # {}
  <2>1. PICK e \in d : e.kind = "digest" /\ e.digest = p.digest
    BY <1>2 DEF ByHash
  <2>2. e \in [kind : {"digest"}, alg : Algorithm, digest : {e.digest}]
    BY <2>1 DEF IsDb
  <2>3. e = [kind |-> "digest", alg |-> e.alg, digest |-> p.digest] /\ e.alg \in Algorithm
    BY <2>1, <2>2
  <2> QED
    BY <2>3 DEF Hashes
<1> QED
    BY <1>1, <1>2

\* The signatures that are looked at are those of the file on the disk.
LEMMA SigsCounted ==
    ASSUME NEW p, FileOK(p)
    PROVE  /\ p.sigs \in Seq(Seq(Certificate))
           /\ \A i \in All(p) : p.sigs[i] \in Counted(p)
           /\ Whole(Files[p.name]) => \A s \in Counted(p) : \E i \in All(p) : p.sigs[i] = s
<1> DEFINE t == Files[p.name].table
<1>1. PICK n \in 0 .. Len(t) : FoundTo(t, n, p.sigs) /\ (Whole(Files[p.name]) => n = Len(t))
    BY DEF FileOK, Found
<1>2. t \in Seq(TableEntry) /\ DOMAIN t = 1 .. Len(t) /\ Len(t) \in Nat
    BY FileTable DEF FileOK
<1>3. p.sigs \in Seq(Seq(Certificate)) /\ DOMAIN p.sigs = 1 .. Len(p.sigs)
    BY <1>1 DEF FoundTo
<1>4. ASSUME NEW i \in All(p) PROVE p.sigs[i] \in Counted(p)
  <2>1. i \in 1 .. Len(p.sigs) /\ (p.first => i = 1)
    BY <1>3 DEF All
  <2>2. PICK k \in 1 .. n : t[k].kind = "pkcs7" /\ NumSigs(t, k) = i
    BY <1>1, <2>1 DEF FoundTo
  <2>3. p.sigs[i] = t[k].signers
    BY <1>1, <2>2 DEF FoundTo
  <2>4. k \in DOMAIN t
    BY <1>2
  <2> QED
    BY <2>1, <2>2, <2>3, <2>4 DEF Counted
<1>5. ASSUME Whole(Files[p.name]), NEW s \in Counted(p) PROVE \E i \in All(p) : p.sigs[i] = s
  <2>1. PICK k \in DOMAIN t : /\ t[k].kind = "pkcs7" /\ (p.first => NumSigs(t, k) = 1)
                              /\ s = t[k].signers
    <3> DEFINE K == {j \in DOMAIN t : t[j].kind = "pkcs7" /\ (p.first => NumSigs(t, j) = 1)}
    <3>1. Counted(p) = {t[j].signers : j \in K}
      BY Zenon DEF Counted
    <3> HIDE DEF t, K
    <3>2. PICK k \in K : s = t[k].signers
      BY <3>1, <1>5
    <3>3. k \in DOMAIN t /\ t[k].kind = "pkcs7" /\ (p.first => NumSigs(t, k) = 1)
      BY DEF K
    <3> QED
      BY <3>2, <3>3
  <2>2. k \in 1 .. n
    BY <1>1, <1>2, <1>5
  <2>3. NumSigs(t, k) \in DOMAIN p.sigs /\ p.sigs[NumSigs(t, k)] = s
    BY <1>1, <1>3, <2>1, <2>2 DEF FoundTo
  <2> QED
    BY <2>1, <2>3 DEF All
<1> QED
    BY <1>3, <1>4, <1>5

LEMMA SameFile ==
    ASSUME NEW p, FileOK(p), NEW q, IsPe(q), q.name = p.name, q.sigs = p.sigs, q.first = p.first,
           q.digest = p.digest, q.not_after = p.not_after, q.not_before = p.not_before
    PROVE  /\ FileOK(q) /\ All(q) = All(p) /\ Counted(q) = Counted(p)
           /\ \A d : Hashes(q, d) = Hashes(p, d)
           /\ \A d, x : AllRated(q, d, x) <=> AllRated(p, d, x)
<1>1. FileOK(q)
    BY DEF FileOK
<1>2. All(q) = All(p)
    BY DEF All
<1>3. Counted(q) = Counted(p)
    BY DEF Counted
<1>4. \A d : Hashes(q, d) = Hashes(p, d)
    BY DEF Hashes
<1>5. \A d, x : AllRated(q, d, x) <=> AllRated(p, d, x)
    BY <1>3 DEF AllRated
<1> QED
    BY <1>1, <1>2, <1>3, <1>4, <1>5

LEMMA HashChange ==
    ASSUME CheckHashes, IsSeq(files), at.file \in 1 .. Len(files), FileOK(Pe)
    PROVE  /\ IsSeq(files') /\ Len(files') = Len(files) /\ \A i \in 1 .. Len(files) : i # at.file => files'[i] = files[i]
           /\ IsPe(files'[at.file]) /\ files'[at.file].name = Pe.name /\ files'[at.file].sigs = Pe.sigs
           /\ files'[at.file].first = Pe.first /\ files'[at.file].digest = Pe.digest
           /\ files'[at.file].not_after = Pe.not_after /\ files'[at.file].not_before = Pe.not_before
           /\ files'[at.file].why = Pe.why /\ files'[at.file].signed = Pe.signed
           /\ files'[at.file].revoked = Hashes(Pe, dbx) /\ files'[at.file].trusted = Hashes(Pe, db)
<1> DEFINE k == at.file
           p == files[k]
           a == Hashes(p, dbx)
           b == Hashes(p, db)
           q == [p EXCEPT !.revoked = a, !.trusted = b]
<1>1. files' = [files EXCEPT ![k] = q]
    BY DEF CheckHashes, Pe
<1>2. IsPe(p)
    BY DEF FileOK, Pe
<1>5. k \in 1 .. Len(files)
    OBVIOUS
<1> HIDE DEF k, p, a, b
<1>3. /\ IsPe(q) /\ q.name = p.name /\ q.sigs = p.sigs /\ q.first = p.first
      /\ q.digest = p.digest /\ q.not_after = p.not_after /\ q.not_before = p.not_before
      /\ q.why = p.why /\ q.signed = p.signed
      /\ q.revoked = a /\ q.trusted = b
  <2> DEFINE o == [p EXCEPT !.revoked = a]
  <2>1. o = [name |-> p.name, sigs |-> p.sigs, digest |-> p.digest, first |-> p.first,
             not_after |-> p.not_after, not_before |-> p.not_before, revoked |-> a,
             trusted |-> p.trusted, secbits |-> p.secbits, why |-> p.why, signed |-> p.signed]
    BY <1>2 DEF IsPe
  <2>2. q = [o EXCEPT !.trusted = b]
    OBVIOUS
  <2> HIDE DEF o, q
  <2>3. q = [name |-> p.name, sigs |-> p.sigs, digest |-> p.digest, first |-> p.first,
             not_after |-> p.not_after, not_before |-> p.not_before, revoked |-> a,
             trusted |-> b, secbits |-> p.secbits, why |-> p.why, signed |-> p.signed]
    BY <2>1, <2>2
  <2> QED
    BY <2>3 DEF IsPe
<1> HIDE DEF q
<1>4. /\ IsSeq(files') /\ Len(files') = Len(files) /\ files'[k] = q
      /\ \A i \in 1 .. Len(files) : i # k => files'[i] = files[i]
  <2>1. Len(files) \in Nat /\ DOMAIN files = 1 .. Len(files)
    BY SeqFacts
  <2>2. /\ DOMAIN files' = 1 .. Len(files) /\ files'[k] = q
        /\ \A i \in 1 .. Len(files) : i # k => files'[i] = files[i]
    BY <1>1, <1>5, <2>1
  <2>3. files' = [i \in DOMAIN files' |-> files'[i]]
    BY <1>1, <2>1
  <2> QED
    BY <2>1, <2>2, <2>3, SeqByIndex
<1> QED
    BY <1>3, <1>4 DEF k, p, a, b, Pe

LEMMA SignChange ==
    ASSUME ScoreSig, IsSeq(files), at.file \in 1 .. Len(files), FileOK(Pe)
    PROVE  /\ IsSeq(files') /\ Len(files') = Len(files) /\ \A i \in 1 .. Len(files) : i # at.file => files'[i] = files[i]
           /\ IsPe(files'[at.file]) /\ files'[at.file].name = Pe.name /\ files'[at.file].sigs = Pe.sigs
           /\ files'[at.file].first = Pe.first /\ files'[at.file].digest = Pe.digest
           /\ files'[at.file].not_after = Pe.not_after /\ files'[at.file].not_before = Pe.not_before
           /\ files'[at.file].why = Why(Pe, Pe.sigs[at.sig]) /\ files'[at.file].signed = (Pe.signed \/ SigTrusted(Pe.sigs[at.sig]))
           /\ files'[at.file].revoked = Pe.revoked /\ files'[at.file].trusted = Pe.trusted
<1> DEFINE k == at.file
           p == files[k]
           a == Why(p, p.sigs[at.sig])
           b == (p.signed \/ SigTrusted(p.sigs[at.sig]))
           q == [p EXCEPT !.why = a, !.signed = b]
<1>1. files' = [files EXCEPT ![k] = q]
    BY DEF ScoreSig, Pe
<1>2. IsPe(p)
    BY DEF FileOK, Pe
<1>5. k \in 1 .. Len(files)
    OBVIOUS
<1> HIDE DEF k, p, a, b
<1>3. /\ IsPe(q) /\ q.name = p.name /\ q.sigs = p.sigs /\ q.first = p.first
      /\ q.digest = p.digest /\ q.not_after = p.not_after /\ q.not_before = p.not_before
      /\ q.why = a /\ q.signed = b
      /\ q.revoked = p.revoked /\ q.trusted = p.trusted
  <2> DEFINE o == [p EXCEPT !.why = a]
  <2>1. o = [name |-> p.name, sigs |-> p.sigs, digest |-> p.digest, first |-> p.first,
             not_after |-> p.not_after, not_before |-> p.not_before, revoked |-> p.revoked,
             trusted |-> p.trusted, secbits |-> p.secbits, why |-> a, signed |-> p.signed]
    BY <1>2 DEF IsPe
  <2>2. q = [o EXCEPT !.signed = b]
    OBVIOUS
  <2> HIDE DEF o, q
  <2>3. q = [name |-> p.name, sigs |-> p.sigs, digest |-> p.digest, first |-> p.first,
             not_after |-> p.not_after, not_before |-> p.not_before, revoked |-> p.revoked,
             trusted |-> p.trusted, secbits |-> p.secbits, why |-> a, signed |-> b]
    BY <2>1, <2>2
  <2> QED
    BY <2>3 DEF IsPe
<1> HIDE DEF q
<1>4. /\ IsSeq(files') /\ Len(files') = Len(files) /\ files'[k] = q
      /\ \A i \in 1 .. Len(files) : i # k => files'[i] = files[i]
  <2>1. Len(files) \in Nat /\ DOMAIN files = 1 .. Len(files)
    BY SeqFacts
  <2>2. /\ DOMAIN files' = 1 .. Len(files) /\ files'[k] = q
        /\ \A i \in 1 .. Len(files) : i # k => files'[i] = files[i]
    BY <1>1, <1>5, <2>1
  <2>3. files' = [i \in DOMAIN files' |-> files'[i]]
    BY <1>1, <2>1
  <2> QED
    BY <2>1, <2>2, <2>3, SeqByIndex
<1> QED
    BY <1>3, <1>4 DEF k, p, a, b, Pe

LEMMA ScoreChange ==
    ASSUME FileScored, IsSeq(files), at.file \in 1 .. Len(files), FileOK(Pe)
    PROVE  /\ IsSeq(files') /\ Len(files') = Len(files) /\ \A i \in 1 .. Len(files) : i # at.file => files'[i] = files[i]
           /\ IsPe(files'[at.file]) /\ files'[at.file].name = Pe.name /\ files'[at.file].sigs = Pe.sigs
           /\ files'[at.file].first = Pe.first /\ files'[at.file].digest = Pe.digest
           /\ files'[at.file].not_after = Pe.not_after /\ files'[at.file].not_before = Pe.not_before
           /\ files'[at.file].why = Pe.why /\ files'[at.file].signed = Pe.signed
           /\ files'[at.file].revoked = Pe.revoked /\ files'[at.file].trusted = Pe.trusted
           /\ files'[at.file].secbits = ScoreOf(Pe)
<1> DEFINE k == at.file
           p == files[k]
           a == ScoreOf(p)
           q == [p EXCEPT !.secbits = a]
<1>1. files' = [files EXCEPT ![k] = q]
    BY DEF FileScored, Pe
<1>2. IsPe(p)
    BY DEF FileOK, Pe
<1>5. k \in 1 .. Len(files)
    OBVIOUS
<1> HIDE DEF k, p, a
<1>3. /\ IsPe(q) /\ q.name = p.name /\ q.sigs = p.sigs /\ q.first = p.first
      /\ q.digest = p.digest /\ q.not_after = p.not_after /\ q.not_before = p.not_before
      /\ q.why = p.why /\ q.signed = p.signed
      /\ q.revoked = p.revoked /\ q.trusted = p.trusted /\ q.secbits = a
    BY <1>2 DEF IsPe
<1> HIDE DEF q
<1>4. /\ IsSeq(files') /\ Len(files') = Len(files) /\ files'[k] = q
      /\ \A i \in 1 .. Len(files) : i # k => files'[i] = files[i]
  <2>1. Len(files) \in Nat /\ DOMAIN files = 1 .. Len(files)
    BY SeqFacts
  <2>2. /\ DOMAIN files' = 1 .. Len(files) /\ files'[k] = q
        /\ \A i \in 1 .. Len(files) : i # k => files'[i] = files[i]
    BY <1>1, <1>5, <2>1
  <2>3. files' = [i \in DOMAIN files' |-> files'[i]]
    BY <1>1, <2>1
  <2> QED
    BY <2>1, <2>2, <2>3, SeqByIndex
<1> QED
    BY <1>3, <1>4 DEF k, p, a, Pe

\* Until the files are scored
LEMMA BeforeScore ==
    ASSUME ScoreInv, phase \notin {"score", "print", "done", "exit", "killed"},
           UNCHANGED <<files, loop>>, phase' \notin {"print", "done"}
    PROVE  ScoreInv'
<1>1. /\ at = [file |-> 1, sig |-> 0] /\ out = <<>> /\ UNCHANGED <<files, at, out>>
      /\ \A f \in 1 .. Len(files) : Fresh(files[f])
    BY DEF ScoreInv, loop
<1>2. Len(files) \in Nat
    BY SeqFacts DEF ScoreInv
<1>3. /\ IsSeq(files)' /\ \A f \in 1 .. Len(files') : FileOK(files'[f])
      /\ at' = [file |-> at'.file, sig |-> at'.sig]
    BY <1>1 DEF ScoreInv
<1>4. \A f \in 1 .. Len(files') : Fresh(files'[f])
    BY <1>1
<1>5. ASSUME phase' = "score" PROVE Scoring'
  <2>1. at'.file = 1 /\ at'.sig = 0 /\ out' = <<>> /\ Len(files') \in Nat
    BY <1>1, <1>2
  <2>2. \A f \in 1 .. Len(files') : ~(f < at'.file)
    BY <2>1
  <2> QED
    BY <1>4, <2>1, <2>2 DEF Scoring
<1> QED
    BY <1>1, <1>3, <1>4, <1>5 DEF ScoreInv

LEMMA LoadedScore ==
    ASSUME ScoreInv, LoadInv, Loaded
    PROVE  ScoreInv'
<1> DEFINE r == [name |-> loading.name, sigs |-> sigs, digest |-> Digest,
                 first |-> "first" \in flags,
                 not_after |-> LatestNotAfter(sigs), not_before |-> EarliestNotBefore(sigs),
                 revoked |-> {}, trusted |-> {}, secbits |-> 0, why |-> "none",
                 signed |-> FALSE]
<1>1. lpc = "loaded" /\ files' = Append(files, r) /\ UNCHANGED <<phase, at, out>>
    BY DEF Loaded, loop
<1>2. /\ phase \in {"options", "args", "stdin"} /\ loading.name \in DOMAIN Files
      /\ Found(Files[loading.name], sigs)
    BY <1>1 DEF LoadInv
<1>3. FileOK(r) /\ Fresh(r)
  <2>1. IsPe(r)
    BY DEF IsPe
  <2>2. /\ r.name = loading.name /\ r.first \in BOOLEAN /\ r.sigs = sigs /\ Fresh(r)
        /\ r.not_after = LatestNotAfter(sigs) /\ r.not_before = EarliestNotBefore(sigs)
    BY DEF Fresh
  <2> HIDE DEF r
  <2> QED
    BY <1>2, <2>1, <2>2 DEF FileOK
<1> HIDE DEF r
<1>4. /\ IsSeq(files) /\ Len(files) \in Nat /\ \A f \in 1 .. Len(files) : FileOK(files[f])
      /\ at = [file |-> 1, sig |-> 0] /\ out = <<>>
      /\ \A f \in 1 .. Len(files) : Fresh(files[f])
    BY <1>2, SeqFacts DEF ScoreInv
<1>5. /\ IsSeq(files') /\ Len(files') = Len(files) + 1 /\ files'[Len(files) + 1] = r
      /\ \A i \in 1 .. Len(files) : files'[i] = files[i]
    BY <1>1, <1>4, SeqAppend
<1>6. \A f \in 1 .. Len(files') : FileOK(files'[f]) /\ Fresh(files'[f])
    BY <1>3, <1>4, <1>5
<1>7. at' = [file |-> 1, sig |-> 0] /\ out' = <<>> /\ phase' \in {"options", "args", "stdin"}
    BY <1>1, <1>2, <1>4
<1> QED
    BY <1>5, <1>6, <1>7 DEF ScoreInv

\* The loop over the signatures stays with its file.
LEMMA SameFileScore ==
    ASSUME ScoreInv, phase = "score", at.file <= Len(files), UNCHANGED <<phase, db, dbx, out>>,
           at' = [file |-> at.file, sig |-> at'.sig], at'.sig \in Nat \ {0},
           IsSeq(files'), Len(files') = Len(files),
           \A i \in 1 .. Len(files) : i # at.file => files'[i] = files[i],
           FileOK(files'[at.file]), AtSig(files'[at.file], at'.sig, low', db, dbx)
    PROVE  ScoreInv'
<1> DEFINE k == at.file
           n == Len(files)
<1>1. Scoring /\ IsSeq(files) /\ \A f \in 1 .. n : FileOK(files[f])
    BY DEF ScoreInv
<1>2. k \in 1 .. n + 1 /\ out = <<>> /\ n \in Nat
    BY <1>1, SeqFacts DEF Scoring
<1>3. at'.file = k /\ at'.sig # 0
    OBVIOUS
<1>4. \A f \in 1 .. n : FileOK(files'[f])
    BY <1>1
<1>5. ASSUME NEW f \in 1 .. n
      PROVE  /\ f < k => Scored(files'[f], db', dbx')
             /\ f > k => Fresh(files'[f])
             /\ f = k => AtSig(files'[f], at'.sig, low', db', dbx')
  <2>1. CASE f = k
    BY <1>2, <2>1
  <2>2. CASE f # k
    <3>1. files'[f] = files[f]
      BY <2>2
    <3>2. (f < k => Scored(files[f], db, dbx)) /\ (f > k => Fresh(files[f]))
      BY <1>1 DEF Scoring
    <3> QED
      BY <2>2, <3>1, <3>2
  <2> QED
    BY <2>1, <2>2
<1>6. at'.file \in 1 .. Len(files') + 1 /\ at'.sig \in Nat /\ at'.file <= Len(files') /\ out' = <<>>
    BY <1>2, <1>3
<1> HIDE DEF k, n
<1>7. Scoring'
    BY <1>3, <1>5, <1>6 DEF Scoring, n
<1>8. at' = [file |-> at'.file, sig |-> at'.sig]
    BY <1>3 DEF k
<1> QED
    BY <1>4, <1>7, <1>8 DEF ScoreInv, n

LEMMA CheckHashesScore ==
    ASSUME ScoreInv, CheckHashes
    PROVE  ScoreInv'
<1> DEFINE k == at.file
           p == files[k]
           q == files'[k]
<1>1. /\ phase = "score" /\ k <= Len(files) /\ at.sig = 0
      /\ files' = [files EXCEPT ![k].revoked = Hashes(p, dbx), ![k].trusted = Hashes(p, db)]
      /\ at' = [at EXCEPT !.sig = 1] /\ low' = [md |-> Bound, pk |-> Bound]
      /\ UNCHANGED <<phase, db, dbx, out>>
    BY DEF CheckHashes, Pe, dbs
<1>2. /\ IsSeq(files) /\ \A f \in 1 .. Len(files) : FileOK(files[f])
      /\ at = [file |-> at.file, sig |-> at.sig] /\ Scoring
    BY <1>1 DEF ScoreInv
<1>3. k \in 1 .. Len(files) /\ FileOK(p) /\ Fresh(p)
    BY <1>1, <1>2, SeqFacts DEF Scoring
<1>4. /\ IsSeq(files') /\ Len(files') = Len(files)
      /\ \A i \in 1 .. Len(files) : i # k => files'[i] = files[i]
      /\ IsPe(q) /\ q.name = p.name /\ q.sigs = p.sigs /\ q.first = p.first
      /\ q.digest = p.digest /\ q.not_after = p.not_after /\ q.not_before = p.not_before
      /\ q.why = p.why /\ q.signed = p.signed
      /\ q.revoked = Hashes(p, dbx) /\ q.trusted = Hashes(p, db)
    BY <1>2, <1>3, HashChange DEF Pe
<1>5. at' = [file |-> k, sig |-> at'.sig] /\ at'.sig = 1
    BY <1>1, <1>2
<1> HIDE DEF k, p, q
<1>6. /\ FileOK(q) /\ All(q) = All(p) /\ p.sigs \in Seq(Seq(Certificate))
      /\ \A d : Hashes(q, d) = Hashes(p, d)
    BY <1>3, <1>4, SameFile, SigsCounted
<1>7. AtSig(q, 1, low', db, dbx)
  <2>1. Hashed(q, db, dbx)
    BY <1>4, <1>6 DEF Hashed
  <2>2. 1 \in 1 .. Len(q.sigs) + 1
    BY <1>4, <1>6
  <2>3. {i \in All(q) : i < 1} = {}
    BY <1>4, <1>6 DEF All
  <2>4. Judged(q, {}, db, dbx)
    BY <1>3, <1>4 DEF Judged, Fresh
  <2>5. Strong(q, {}, low', db, dbx)
    <3>1. low'.md = Bound /\ low'.pk = Bound
      BY <1>1
    <3>2. Trusted(q, {}, db, dbx) = {}
      BY DEF Trusted
    <3> QED
      BY <3>1, <3>2 DEF Strong, Lowest, Bound
  <2> QED
    BY <2>1, <2>2, <2>3, <2>4, <2>5 DEF AtSig
<1> QED
    BY <1>1, <1>3, <1>4, <1>5, <1>6, <1>7, SameFileScore DEF k, q

\* One signature more
LEMMA JudgeOne ==
    ASSUME NEW p, NEW S, Judged(p, S, db, dbx), NEW q, NEW j,
           q.sigs = p.sigs, q.why = Why(p, p.sigs[j]), q.signed = (p.signed \/ SigTrusted(p.sigs[j]))
    PROVE  Judged(q, S \cup {j}, db, dbx)
<1> DEFINE s == p.sigs[j]
<1>1. SigTrusted(s) <=> Accepted(s, db, dbx)
    BY DEF SigTrusted, SigRevoked, Accepted
<1>2. SigTrusted(s) \in BOOLEAN
    BY DEF SigTrusted
<1>3. p.signed \in BOOLEAN
    BY DEF Judged
<1>4. q.signed \in BOOLEAN /\ (q.signed <=> (p.signed \/ SigTrusted(s)))
    BY <1>2, <1>3
<1>5. q.signed <=> \E i \in S \cup {j} : Accepted(q.sigs[i], db, dbx)
    BY <1>1, <1>4 DEF Judged
<1>6. SigTrusted(s) => SigWhy(s) = "trusted"
    BY DEF SigWhy, SigTrusted
<1>7. ~SigTrusted(s) => SigWhy(s) \in {"none", "revoked"}
    BY DEF SigWhy
<1>8. IF q.signed THEN q.why = "trusted" ELSE q.why \in {"none", "revoked"}
    BY <1>4, <1>6, <1>7 DEF Judged, Why
<1> QED
    BY <1>4, <1>5, <1>8 DEF Judged

\* The strengths of a signature that is trusted
LEMMA RatedBy ==
    ASSUME NEW s \in Seq(Certificate), Accepted(s, db, dbx)
    PROVE  LET w == WorstCert(s) IN
           /\ MdBits[w.md] \in Nat /\ MdBits[w.md] > 0 /\ PkBits(w) \in Nat
           /\ MdBits[w.md] <= 256 /\ PkBits(w) <= 256
           /\ SecBits(w) = MinOf({MdBits[w.md], PkBits(w)})
           /\ (\E c \in Range(s) : SecBits(c) > 0) => PkBits(w) > 0
<1> DEFINE w == WorstCert(s)
<1>1. s # <<>>
  <2>1. Range(s) # {}
    BY DEF Accepted
  <2> QED
    BY <2>1 DEF Range
<1>2. w \in Certificate /\ \A c \in Range(s) : SecBits(c) <= SecBits(w)
    BY <1>1, WorstIs
<1> HIDE DEF w
<1>3. /\ MdBits[w.md] \in Nat /\ MdBits[w.md] > 0 /\ PkBits(w) \in Nat /\ SecBits(w) \in Nat
      /\ MdBits[w.md] <= 256 /\ PkBits(w) <= 256 /\ (SecBits(w) > 0 => PkBits(w) > 0)
    BY <1>2, BitsFacts
<1>4. ASSUME NEW c \in Range(s), SecBits(c) > 0 PROVE PkBits(w) > 0
  <2>1. c \in Certificate
    BY DEF Range
  <2>2. SecBits(c) \in Nat /\ SecBits(c) <= SecBits(w)
    BY <1>2, <2>1, BitsFacts
  <2> QED
    BY <1>3, <1>4, <2>2
<1> QED
    BY <1>3, <1>4 DEF SecBits, w

\* The strengths after a trusted signature
LEMMA StrongOne ==
    ASSUME NEW p, NEW S, NEW m, Strong(p, S, m, db, dbx), NEW j, p.sigs[j] \in Counted(p),
           \A i \in S \cup {j} : p.sigs[i] \in Seq(Certificate),
           SigTrusted(p.sigs[j]), NEW l,
           l = [md |-> MinOf({m.md, MdBits[WorstCert(p.sigs[j]).md]}),
                pk |-> MinOf({m.pk, PkBits(WorstCert(p.sigs[j]))})]
    PROVE  Strong(p, S \cup {j}, l, db, dbx)
<1> DEFINE Md(i) == MdBits[WorstCert(p.sigs[i]).md]
           Pk(i) == PkBits(WorstCert(p.sigs[i]))
           T == Trusted(p, S, db, dbx)
<1>1. Accepted(p.sigs[j], db, dbx)
    BY DEF SigTrusted, SigRevoked, Accepted
<1>2. Trusted(p, S \cup {j}, db, dbx) = T \cup {j}
    BY <1>1 DEF Trusted
<1>3. \A i \in T \cup {j} : /\ Md(i) \in Nat /\ Md(i) > 0 /\ Pk(i) \in Nat
                            /\ Md(i) <= 256 /\ Pk(i) <= 256
  <2> SUFFICES ASSUME NEW i \in T \cup {j}
               PROVE  /\ Md(i) \in Nat /\ Md(i) > 0 /\ Pk(i) \in Nat
                      /\ Md(i) <= 256 /\ Pk(i) <= 256
    OBVIOUS
  <2>1. p.sigs[i] \in Seq(Certificate) /\ Accepted(p.sigs[i], db, dbx)
    BY <1>1 DEF Trusted
  <2> QED
    BY <2>1, RatedBy
<1>4. m.md \in Nat /\ m.pk \in Nat /\ Lowest(p, T, m)
    BY DEF Strong
<1>5. /\ l.md \in {m.md, Md(j)} /\ l.md <= m.md /\ l.md <= Md(j)
      /\ l.pk \in {m.pk, Pk(j)} /\ l.pk <= m.pk /\ l.pk <= Pk(j)
    BY <1>3, <1>4, MinTwo
<1>6. ASSUME AllRated(p, db, dbx) PROVE l.md > 0 /\ l.pk > 0
  <2>1. \E c \in Range(p.sigs[j]) : SecBits(c) > 0
    BY <1>1, <1>6 DEF AllRated
  <2>2. Pk(j) > 0
    BY <1>1, <2>1, RatedBy
  <2>3. m.md > 0 /\ m.pk > 0
    BY <1>6 DEF Strong
  <2> HIDE DEF Md, Pk, T
  <2> QED
    BY <1>3, <1>4, <1>5, <2>2, <2>3
<1>7. Lowest(p, T \cup {j}, l)
  <2>1. IF T = {} THEN m.md = Bound /\ m.pk = Bound
        ELSE /\ \E i \in T : m.md = Md(i)
             /\ \E i \in T : m.pk = Pk(i)
             /\ \A i \in T : m.md <= Md(i) /\ m.pk <= Pk(i)
    BY <1>4 DEF Lowest
  <2> HIDE DEF Md, Pk, T
  <2>2. (\E i \in T \cup {j} : l.md = Md(i)) /\ \E i \in T \cup {j} : l.pk = Pk(i)
    <3>1. CASE T = {}
      <4>1. m.md = 1000000 /\ m.pk = 1000000
        BY <2>1, <3>1 DEF Bound
      <4>2. l.md = Md(j) /\ l.pk = Pk(j)
        BY <1>3, <1>5, <4>1
      <4> QED
        BY <4>2
    <3>2. CASE T # {}
      BY <1>5, <2>1, <3>2
    <3> QED
      BY <3>1, <3>2
  <2>3. \A i \in T \cup {j} : l.md <= Md(i) /\ l.pk <= Pk(i)
    <3> SUFFICES ASSUME NEW i \in T \cup {j} PROVE l.md <= Md(i) /\ l.pk <= Pk(i)
      OBVIOUS
    <3>1. Md(i) \in Nat /\ Pk(i) \in Nat /\ Md(j) \in Nat /\ Pk(j) \in Nat
      BY <1>3
    <3>2. i = j \/ (m.md <= Md(i) /\ m.pk <= Pk(i))
      BY <2>1
    <3> QED
      BY <1>4, <1>5, <3>1, <3>2
  <2> QED
    BY <2>2, <2>3 DEF Lowest, Md, Pk
<1>8. l.md \in Nat /\ l.pk \in Nat
    BY <1>3, <1>4, <1>5
<1> QED
    BY <1>2, <1>6, <1>7, <1>8 DEF Strong

LEMMA ScoreSigScore ==
    ASSUME ScoreInv, ScoreSig
    PROVE  ScoreInv'
<1> DEFINE k == at.file
           j == at.sig
           p == files[k]
           q == files'[k]
           s == p.sigs[j]
<1>1. /\ phase = "score" /\ k <= Len(files) /\ j \in 1 .. Len(p.sigs)
      /\ at' = [at EXCEPT !.sig = IF p.first THEN Len(p.sigs) + 1 ELSE j + 1]
      /\ low' = IF SigTrusted(s)
                THEN [md |-> MinOf({low.md, MdBits[WorstCert(s).md]}),
                      pk |-> MinOf({low.pk, PkBits(WorstCert(s))})] ELSE low
      /\ UNCHANGED <<phase, db, dbx, out>>
    BY DEF ScoreSig, Pe, dbs
<1>2. /\ IsSeq(files) /\ \A f \in 1 .. Len(files) : FileOK(files[f])
      /\ at = [file |-> at.file, sig |-> at.sig] /\ Scoring
    BY <1>1 DEF ScoreInv
<1>3. k \in 1 .. Len(files) /\ FileOK(p) /\ AtSig(p, j, low, db, dbx)
  <2>1. Len(files) \in Nat /\ k \in 1 .. Len(files) + 1
    BY <1>2, SeqFacts DEF Scoring
  <2>2. k \in 1 .. Len(files) /\ j # 0
    BY <1>1, <2>1
  <2> QED
    BY <1>2, <2>2 DEF Scoring
<1>4. /\ IsSeq(files') /\ Len(files') = Len(files)
      /\ \A i \in 1 .. Len(files) : i # k => files'[i] = files[i]
      /\ IsPe(q) /\ q.name = p.name /\ q.sigs = p.sigs /\ q.first = p.first
      /\ q.digest = p.digest /\ q.not_after = p.not_after /\ q.not_before = p.not_before
      /\ q.why = Why(p, s) /\ q.signed = (p.signed \/ SigTrusted(s))
      /\ q.revoked = p.revoked /\ q.trusted = p.trusted
    BY <1>2, <1>3, SignChange DEF Pe
<1>5. at' = [file |-> k, sig |-> at'.sig] /\ at'.sig = IF p.first THEN Len(p.sigs) + 1 ELSE j + 1
    BY <1>1, <1>2
<1> HIDE DEF k, p, q, j
<1>6. /\ FileOK(q) /\ All(q) = All(p) /\ p.sigs \in Seq(Seq(Certificate))
      /\ (\A d : Hashes(q, d) = Hashes(p, d))
      /\ \A d, x : AllRated(q, d, x) <=> AllRated(p, d, x)
    BY <1>3, <1>4, SameFile, SigsCounted
<1>7. /\ p.first \in BOOLEAN /\ (p.first => j \in {1, Len(p.sigs) + 1})
      /\ Hashed(p, db, dbx) /\ Judged(p, {i \in All(p) : i < j}, db, dbx)
      /\ Strong(p, {i \in All(p) : i < j}, low, db, dbx)
    BY <1>3 DEF AtSig, FileOK
<1>8. Len(p.sigs) \in Nat /\ DOMAIN p.sigs = 1 .. Len(p.sigs)
    BY <1>6
<1>9. j \in All(p)
    BY <1>1, <1>7, <1>8 DEF All
<1>10. s \in Counted(p) /\ s \in Seq(Certificate)
    BY <1>1, <1>3, <1>6, <1>9, SigsCounted
<1> HIDE DEF s
<1>11. {i \in All(q) : i < at'.sig} = {i \in All(p) : i < j} \cup {j}
  <2>1. CASE p.first
    <3>1. j = 1 /\ at'.sig = Len(p.sigs) + 1 /\ All(p) = {1}
      BY <1>1, <1>5, <1>7, <1>8, <2>1 DEF All
    <3> QED
      BY <1>1, <1>6, <1>8, <3>1
  <2>2. CASE ~p.first
    <3>1. at'.sig = j + 1 /\ All(p) = 1 .. Len(p.sigs)
      BY <1>5, <1>8, <2>2 DEF All
    <3> QED
      BY <1>1, <1>6, <1>8, <3>1
  <2> QED
    BY <2>1, <2>2
<1>12. Judged(q, {i \in All(q) : i < at'.sig}, db, dbx)
  <2>1. Judged(q, {i \in All(p) : i < j} \cup {j}, db, dbx)
    BY <1>4, <1>7, JudgeOne DEF s
  <2> QED
    BY <1>11, <2>1
<1>13. Strong(q, {i \in All(q) : i < at'.sig}, low', db, dbx)
  <2> DEFINE S == {i \in All(p) : i < j}
  <2>1. Strong(p, S \cup {j}, low', db, dbx)
    <3>1. CASE SigTrusted(s)
      <4> DEFINE l == [md |-> MinOf({low.md, MdBits[WorstCert(s).md]}),
                       pk |-> MinOf({low.pk, PkBits(WorstCert(s))})]
      <4>1. \A i \in S \cup {j} : p.sigs[i] \in Seq(Certificate)
        BY <1>6, <1>9 DEF All
      <4>2. Strong(p, S \cup {j}, l, db, dbx)
        <5> HIDE DEF S
        <5>1. Strong(p, S, low, db, dbx)
          BY <1>7 DEF S
        <5> QED
          BY <1>10, <3>1, <4>1, <5>1, StrongOne DEF s
      <4> QED
        BY <1>1, <3>1, <4>2 DEF s
    <3>2. CASE ~SigTrusted(s)
      <4>1. ~Accepted(s, db, dbx)
        BY <3>2 DEF SigTrusted, SigRevoked, Accepted
      <4>2. Trusted(p, S \cup {j}, db, dbx) = Trusted(p, S, db, dbx)
        BY <4>1 DEF Trusted, s
      <4>3. low' = low
        BY <1>1, <3>2 DEF s
      <4> HIDE DEF S
      <4>4. Strong(p, S, low, db, dbx)
        BY <1>7 DEF S
      <4> QED
        BY <4>2, <4>3, <4>4 DEF Strong
    <3> QED
      BY <3>1, <3>2
  <2> HIDE DEF S
  <2>2. Trusted(q, S \cup {j}, db, dbx) = Trusted(p, S \cup {j}, db, dbx)
    BY <1>4 DEF Trusted
  <2>3. \A T : Lowest(p, T, low') => Lowest(q, T, low')
    BY <1>4 DEF Lowest
  <2>4. Strong(q, S \cup {j}, low', db, dbx)
    BY <1>6, <2>1, <2>2, <2>3 DEF Strong
  <2> QED
    BY <1>11, <2>4 DEF S
<1>14. Hashed(q, db, dbx)
    BY <1>4, <1>6, <1>7 DEF Hashed
<1>15. /\ at'.sig \in Nat \ {0} /\ at'.sig \in 1 .. Len(q.sigs) + 1
       /\ q.first => at'.sig \in {1, Len(q.sigs) + 1}
    BY <1>1, <1>4, <1>5, <1>8
<1>16. AtSig(q, at'.sig, low', db, dbx)
    BY <1>12, <1>13, <1>14, <1>15 DEF AtSig
<1> QED
    BY <1>1, <1>4, <1>5, <1>6, <1>15, <1>16, SameFileScore DEF k, q

\* The lower of the two lowest strengths is that of the weakest signature.
LEMMA WeakestIs ==
    ASSUME NEW p, NEW S, NEW m, Strong(p, S, m, db, dbx), Trusted(p, S, db, dbx) # {},
           \A i \in S : p.sigs[i] \in Seq(Certificate),
           NEW q, q.sigs = p.sigs, q.secbits = MinOf({m.md, m.pk})
    PROVE  Weakest(q, Trusted(p, S, db, dbx))
<1> DEFINE Md(i) == MdBits[WorstCert(p.sigs[i]).md]
           Pk(i) == PkBits(WorstCert(p.sigs[i]))
           Sec(i) == SecBits(WorstCert(p.sigs[i]))
           T == Trusted(p, S, db, dbx)
<1>1. \A i \in T : /\ Md(i) \in Nat /\ Pk(i) \in Nat /\ Sec(i) \in {Md(i), Pk(i)}
                   /\ Sec(i) <= Md(i) /\ Sec(i) <= Pk(i)
  <2> SUFFICES ASSUME NEW i \in T
               PROVE  /\ Md(i) \in Nat /\ Pk(i) \in Nat /\ Sec(i) \in {Md(i), Pk(i)}
                      /\ Sec(i) <= Md(i) /\ Sec(i) <= Pk(i)
    OBVIOUS
  <2>1. p.sigs[i] \in Seq(Certificate) /\ Accepted(p.sigs[i], db, dbx)
    BY DEF Trusted
  <2>2. Md(i) \in Nat /\ Pk(i) \in Nat /\ Sec(i) = MinOf({Md(i), Pk(i)})
    BY <2>1, RatedBy
  <2> HIDE DEF Md, Pk, Sec
  <2> QED
    BY <2>2, MinTwo
<1>2. /\ m.md \in Nat /\ m.pk \in Nat
      /\ \E i \in T : m.md = Md(i)
      /\ \E i \in T : m.pk = Pk(i)
      /\ \A i \in T : m.md <= Md(i) /\ m.pk <= Pk(i)
    BY DEF Strong, Lowest
<1> DEFINE b == q.secbits
<1>3. b \in {m.md, m.pk} /\ b <= m.md /\ b <= m.pk
    BY <1>2, MinTwo
<1> HIDE DEF Md, Pk, Sec, T, b
<1>4. \A i \in T : b <= Sec(i)
  <2> SUFFICES ASSUME NEW i \in T PROVE b <= Sec(i)
    OBVIOUS
  <2>1. Md(i) \in Nat /\ Pk(i) \in Nat /\ Sec(i) \in {Md(i), Pk(i)} /\ m.md <= Md(i) /\ m.pk <= Pk(i)
    BY <1>1, <1>2
  <2> QED
    BY <1>2, <1>3, <2>1
<1>5. \E i \in T : b = Sec(i)
  <2>1. PICK i \in T : b = Md(i) \/ b = Pk(i)
    BY <1>2, <1>3
  <2>2. b <= Sec(i) /\ Md(i) \in Nat /\ Pk(i) \in Nat /\ Sec(i) \in {Md(i), Pk(i)}
        /\ Sec(i) <= Md(i) /\ Sec(i) <= Pk(i)
    BY <1>1, <1>4
  <2>3. b = Sec(i)
    BY <2>1, <2>2
  <2> QED
    BY <2>3
<1> QED
    BY <1>4, <1>5 DEF Weakest, Sec, T, b

LEMMA FileScoredScore ==
    ASSUME ScoreInv, FileScored
    PROVE  ScoreInv'
<1> DEFINE k == at.file
           n == Len(files)
           p == files[k]
           q == files'[k]
<1>1. /\ phase = "score" /\ k <= n /\ at.sig = Len(p.sigs) + 1
      /\ at' = [file |-> k + 1, sig |-> 0]
      /\ UNCHANGED <<phase, db, dbx, out>>
    BY DEF FileScored, Pe, dbs
<1>2. /\ IsSeq(files) /\ (\A f \in 1 .. n : FileOK(files[f])) /\ Scoring
    BY <1>1 DEF ScoreInv
<1>3. n \in Nat /\ k \in 1 .. n /\ FileOK(p) /\ out = <<>>
    BY <1>1, <1>2, SeqFacts DEF Scoring
<1>4. /\ IsSeq(files') /\ Len(files') = n
      /\ \A i \in 1 .. n : i # k => files'[i] = files[i]
      /\ IsPe(q) /\ q.name = p.name /\ q.sigs = p.sigs /\ q.first = p.first
      /\ q.digest = p.digest /\ q.not_after = p.not_after /\ q.not_before = p.not_before
      /\ q.why = p.why /\ q.signed = p.signed
      /\ q.revoked = p.revoked /\ q.trusted = p.trusted /\ q.secbits = ScoreOf(p)
    BY <1>2, <1>3, ScoreChange DEF Pe
<1>5. p.sigs \in Seq(Seq(Certificate)) /\ Len(p.sigs) \in Nat /\ DOMAIN p.sigs = 1 .. Len(p.sigs)
    BY <1>3, SigsCounted
<1>6. AtSig(p, Len(p.sigs) + 1, low, db, dbx)
    BY <1>1, <1>2, <1>3, <1>5 DEF Scoring
<1> HIDE DEF k, n, p, q
<1>7. /\ FileOK(q) /\ All(q) = All(p) /\ (\A d : Hashes(q, d) = Hashes(p, d))
      /\ \A d, x : AllRated(q, d, x) <=> AllRated(p, d, x)
    BY <1>3, <1>4, SameFile
<1>8. Judged(p, All(p), db, dbx) /\ Hashed(p, db, dbx) /\ Strong(p, All(p), low, db, dbx)
  <2>1. {i \in All(p) : i < Len(p.sigs) + 1} = All(p)
    BY <1>5 DEF All
  <2> QED
    BY <1>6, <2>1 DEF AtSig
<1>9. Scored(q, db, dbx)
  <2>1. Hashed(q, db, dbx)
    BY <1>4, <1>7, <1>8 DEF Hashed
  <2>2. Judged(q, All(q), db, dbx)
    BY <1>4, <1>7, <1>8 DEF Judged
  <2>3. low.md \in Nat /\ low.pk \in Nat /\ (AllRated(q, db, dbx) => low.md > 0 /\ low.pk > 0)
    BY <1>7, <1>8 DEF Strong
  <2>4. MinOf({low.md, low.pk}) \in {low.md, low.pk}
    BY <2>3, MinTwo
  <2>5. q.secbits = IF q.signed THEN MinOf({low.md, low.pk}) ELSE 0
    BY <1>4 DEF ScoreOf
  <2>6. q.signed \in BOOLEAN
    BY <2>2 DEF Judged
  <2>7. /\ q.secbits \in Nat /\ (q.secbits > 0 => q.signed)
        /\ q.signed /\ AllRated(q, db, dbx) => q.secbits > 0
    <3>1. CASE q.signed
      BY <2>3, <2>4, <2>5, <3>1
    <3>2. CASE ~q.signed
      BY <2>5, <3>2
    <3> QED
      BY <3>1, <3>2
  <2>8. ASSUME q.signed PROVE Weakest(q, Trusted(q, All(q), db, dbx))
    <3>1. \E i \in All(q) : Accepted(q.sigs[i], db, dbx)
      BY <2>2, <2>8 DEF Judged
    <3>2. Trusted(q, All(q), db, dbx) = Trusted(p, All(p), db, dbx)
      BY <1>4, <1>7 DEF Trusted
    <3>3. Trusted(p, All(p), db, dbx) # {}
      BY <3>1, <3>2 DEF Trusted
    <3>4. q.secbits = MinOf({low.md, low.pk})
      BY <2>5, <2>8
    <3>5. \A i \in All(p) : p.sigs[i] \in Seq(Certificate)
      BY <1>5 DEF All
    <3> QED
      BY <1>4, <1>8, <3>2, <3>3, <3>4, <3>5, WeakestIs
  <2> QED
    BY <2>1, <2>2, <2>7, <2>8 DEF Scored
<1>10. ASSUME NEW f \in 1 .. n
       PROVE  /\ FileOK(files'[f])
              /\ f < k + 1 => Scored(files'[f], db', dbx')
              /\ f >= k + 1 => Fresh(files'[f])
  <2>1. CASE f = k
    BY <1>1, <1>3, <1>7, <1>9, <2>1 DEF q
  <2>2. CASE f # k
    <3>1. files'[f] = files[f] /\ FileOK(files[f])
      BY <1>2, <1>4, <2>2 DEF n
    <3>2. (f < k => Scored(files[f], db, dbx)) /\ (f > k => Fresh(files[f]))
      BY <1>2 DEF Scoring, n, k
    <3>3. (f < k + 1 => f < k) /\ (f >= k + 1 => f > k)
      BY <1>3, <2>2
    <3> QED
      BY <1>1, <3>1, <3>2, <3>3
  <2> QED
    BY <2>1, <2>2
<1>11. at'.file = k + 1 /\ at'.sig = 0 /\ at'.file \in 1 .. n + 1 /\ k + 1 \in Int
    BY <1>1, <1>3
<1>12. \A f \in 1 .. n : (f > k + 1 => f >= k + 1) /\ (f = k + 1 => f >= k + 1)
    BY <1>3
<1>13. Scoring'
    BY <1>1, <1>3, <1>4, <1>10, <1>11, <1>12 DEF Scoring
<1>14. at' = [file |-> at'.file, sig |-> at'.sig]
    BY <1>1
<1> QED
    BY <1>1, <1>4, <1>10, <1>13, <1>14 DEF ScoreInv

LEMMA SortScore ==
    ASSUME ScoreInv, Sort
    PROVE  ScoreInv'
<1> DEFINE n == Len(files)
<1>1. /\ phase = "score" /\ phase' = "print" /\ at.file > n /\ at' = [file |-> 1, sig |-> 0]
      /\ UNCHANGED <<db, dbx, out>>
    BY DEF Sort, dbs
<1>2. PICK p \in Bijection(DOMAIN files, DOMAIN files) :
                /\ files' = [i \in DOMAIN files |-> files[p[i]]]
                /\ \A i, j \in DOMAIN files : i < j => ~Pe_cmp(files[p[j]], files[p[i]])
    BY DEF Sort
<1>3. /\ IsSeq(files) /\ (\A f \in 1 .. n : FileOK(files[f])) /\ Scoring
      /\ n \in Nat /\ DOMAIN files = 1 .. n
    BY <1>1, SeqFacts DEF ScoreInv
<1>4. at.file = n + 1 /\ out = <<>>
    BY <1>1, <1>3 DEF Scoring
<1>5. \A f \in 1 .. n : Scored(files[f], db, dbx)
    BY <1>3, <1>4 DEF Scoring
<1>6. \A i \in 1 .. n : p[i] \in 1 .. n
    BY <1>2, <1>3 DEF Bijection, Injection
<1>7. DOMAIN files' = 1 .. n /\ files' = [i \in DOMAIN files' |-> files'[i]]
    BY <1>2, <1>3
<1>8. IsSeq(files') /\ Len(files') = n
    BY <1>3, <1>7, SeqByIndex
<1>9. \A i \in 1 .. n : files'[i] = files[p[i]]
    BY <1>2, <1>3
<1>10. \A f \in 1 .. n : FileOK(files'[f]) /\ Scored(files'[f], db', dbx')
    BY <1>1, <1>3, <1>5, <1>6, <1>9
<1>11. \A f, g \in 1 .. n : f < g => ~Pe_cmp(files'[g], files'[f])
    BY <1>2, <1>3, <1>9
<1>12. ToldTo(1, <<>>, files', flags')
  <2>1. <<>> \in Seq({}) /\ Len(<<>>) = 0
    OBVIOUS
  <2>2. IsSeq(<<>>)
    BY <2>1, SeqIsSeq
  <2> QED
    BY <2>1, <2>2 DEF ToldTo
<1>13. at'.file = 1 /\ at' = [file |-> at'.file, sig |-> at'.sig] /\ 1 \in 1 .. n + 1 /\ out' = <<>>
    BY <1>1, <1>3, <1>4
<1> QED
    BY <1>1, <1>8, <1>10, <1>11, <1>12, <1>13 DEF ScoreInv

\* A line about another file
LEMMA LineKept ==
    ASSUME NEW o, IsSeq(o), NEW p, NEW f, NEW fl, LineOK(o, p, f, fl), NEW r, r.of # f
    PROVE  LineOK(Append(o, r), p, f, fl)
<1> DEFINE a == Append(o, r)
           m == Len(o)
<1>1. /\ m \in Nat /\ Len(a) = m + 1 /\ a[m + 1] = r
      /\ \A i \in 1 .. m : a[i] = o[i]
    BY SeqAppend, SeqFacts
<1> HIDE DEF a
<1>2. \A i \in 1 .. m : i \in 1 .. Len(a)
    BY <1>1
<1>3. \A j \in 1 .. Len(a) : a[j].of = f => j \in 1 .. m /\ o[j].of = f
    BY <1>1
<1>4. CASE "explain" \in fl \/ GoodOf(p)
  <2>1. PICK i \in 1 .. m : /\ o[i].of = f /\ (o[i].good <=> GoodOf(p))
                            /\ "explain" \in fl => o[i].why = WhyOf(p)
                            /\ \A j \in 1 .. m : o[j].of = f => j = i
    BY <1>4 DEF LineOK
  <2>2. \A j \in 1 .. Len(a) : a[j].of = f => j = i
    BY <1>3, <2>1
  <2>3. a[i] = o[i] /\ i \in 1 .. Len(a)
    BY <1>1, <1>2
  <2> HIDE DEF m
  <2>4. LineOK(a, p, f, fl)
    BY <1>4, <2>1, <2>2, <2>3 DEF LineOK
  <2> QED
    BY <2>4 DEF a
<1>5. CASE ~("explain" \in fl \/ GoodOf(p))
  <2>1. \A j \in 1 .. m : o[j].of # f
    BY <1>5 DEF LineOK
  <2>2. LineOK(a, p, f, fl)
    BY <1>3, <1>5, <2>1 DEF LineOK
  <2> QED
    BY <2>2 DEF a
<1> QED
    BY <1>4, <1>5

\* The line about the file f
LEMMA LineNew ==
    ASSUME NEW o, IsSeq(o), NEW p, NEW f, NEW fl, \A j \in 1 .. Len(o) : o[j].of # f,
           NEW r, r.of = f, r.good <=> GoodOf(p), "explain" \in fl => r.why = WhyOf(p),
           "explain" \in fl \/ GoodOf(p)
    PROVE  LineOK(Append(o, r), p, f, fl)
<1> DEFINE a == Append(o, r)
           m == Len(o)
<1>1. /\ m \in Nat /\ Len(a) = m + 1 /\ a[m + 1] = r
      /\ \A i \in 1 .. m : a[i] = o[i]
    BY SeqAppend, SeqFacts
<1> HIDE DEF a
<1>2. \A j \in 1 .. Len(a) : a[j].of = f => j = m + 1
    BY <1>1
<1>3. m + 1 \in 1 .. Len(a)
    BY <1>1
<1>4. LineOK(a, p, f, fl)
    BY <1>1, <1>2, <1>3 DEF LineOK
<1> QED
    BY <1>4 DEF a

LEMMA ConcatOne ==
    ASSUME NEW o, IsSeq(o), NEW r
    PROVE  o \o <<>> = o /\ o \o <<r>> = Append(o, r)
<1> DEFINE S == Range(o) \cup {r}
<1>1. o \in Seq(Range(o)) /\ Range(o) \subseteq S /\ r \in S
    BY DEF IsSeq
<1> HIDE DEF S
<1>2. o \in Seq(S) /\ r \in S
    BY <1>1
<1> QED
    BY <1>2

\* What Line adds to the output
LEMMA LineFacts ==
    ASSUME NEW g \in BOOLEAN, NEW w
    PROVE  \/ "explain" \in flags /\ Line(g, w) = <<[of |-> at.file, good |-> g, why |-> w]>>
           \/ /\ "explain" \notin flags /\ g
              /\ Line(g, w) = <<[of |-> at.file, good |-> TRUE, why |-> "none"]>>
           \/ "explain" \notin flags /\ ~g /\ Line(g, w) = <<>>
    BY DEF Line

LEMMA PrintFileScore ==
    ASSUME ScoreInv, PrintFile
    PROVE  ScoreInv'
<1> DEFINE k == at.file
           n == Len(files)
           p == files[k]
           L == Line(GoodOf(p), WhyOf(p))
<1>1. /\ phase = "print" /\ k <= n /\ at' = [at EXCEPT !.file = k + 1]
      /\ UNCHANGED <<phase, db, dbx, files, flags>>
    BY DEF PrintFile, dbs
<1>2. /\ IsSeq(files) /\ n \in Nat /\ (\A f \in 1 .. n : FileOK(files[f]))
      /\ (\A f \in 1 .. n : Scored(files[f], db, dbx))
      /\ (\A f, g \in 1 .. n : f < g => ~Pe_cmp(files[g], files[f]))
      /\ at = [file |-> k, sig |-> at.sig] /\ k \in 1 .. n + 1
      /\ ToldTo(k, out, files, flags)
    BY <1>1, SeqFacts DEF ScoreInv
<1>3. k \in 1 .. n /\ k \in Nat /\ at' = [file |-> k + 1, sig |-> at.sig]
    BY <1>1, <1>2
<1>4. out' = out \o L
  <2>1. out' = out \o (IF p.revoked # {} THEN Line(FALSE, "revoked")
                       ELSE IF p.trusted # {} THEN Line(TRUE, "trusted")
                       ELSE Line(p.secbits > 0, p.why))
    BY DEF PrintFile, Pe, Is_revoked_by_hash, Is_trusted_by_hash
  <2>2. CASE p.revoked # {}
    <3>1. GoodOf(p) = FALSE /\ WhyOf(p) = "revoked"
      BY <2>2 DEF GoodOf, WhyOf
    <3> QED
      BY <2>1, <2>2, <3>1
  <2>3. CASE p.revoked = {} /\ p.trusted # {}
    <3>1. GoodOf(p) = TRUE /\ WhyOf(p) = "trusted"
      BY <2>3 DEF GoodOf, WhyOf
    <3> QED
      BY <2>1, <2>3, <3>1
  <2>4. CASE p.revoked = {} /\ p.trusted = {}
    <3>1. GoodOf(p) = (p.secbits > 0) /\ WhyOf(p) = p.why
      BY <2>4 DEF GoodOf, WhyOf
    <3> QED
      BY <2>1, <2>4, <3>1
  <2> QED
    BY <2>2, <2>3, <2>4
<1> HIDE DEF k, n, p
<1>5. /\ IsSeq(out) /\ Len(out) \in Nat /\ (\A i \in 1 .. Len(out) : out[i].of \in 1 .. k - 1)
      /\ (\A i, j \in 1 .. Len(out) : i < j => out[i].of < out[j].of)
      /\ \A f \in 1 .. k - 1 : LineOK(out, files[f], f, flags)
    BY <1>2, SeqFacts DEF ToldTo
<1>6. \A i \in 1 .. Len(out) : out[i].of # k
    BY <1>3, <1>5
<1>7. GoodOf(p) \in BOOLEAN
    BY DEF GoodOf
<1>8. ASSUME L = <<>>, "explain" \notin flags, ~GoodOf(p)
      PROVE  ToldTo(k + 1, out', files, flags)
  <2>1. out' = out
    BY <1>4, <1>5, <1>8, ConcatOne
  <2>2. LineOK(out, p, k, flags)
    BY <1>6, <1>8 DEF LineOK
  <2>3. \A i \in 1 .. Len(out) : out[i].of \in 1 .. k
    BY <1>3, <1>5
  <2>4. \A f \in 1 .. k : LineOK(out, files[f], f, flags)
    BY <1>3, <1>5, <2>2 DEF p
  <2>5. (k + 1) - 1 = k
    BY <1>3
  <2>6. ToldTo(k + 1, out, files, flags)
    BY <1>5, <2>3, <2>4, <2>5 DEF ToldTo
  <2> QED
    BY <2>1, <2>6
<1>9. ASSUME NEW r, L = <<r>>, r.of = k, r.good <=> GoodOf(p),
             "explain" \in flags => r.why = WhyOf(p), "explain" \in flags \/ GoodOf(p)
      PROVE  ToldTo(k + 1, out', files, flags)
  <2>1. out' = Append(out, r)
    BY <1>4, <1>5, <1>9, ConcatOne
  <2>2. /\ IsSeq(out') /\ Len(out') = Len(out) + 1 /\ out'[Len(out) + 1] = r
        /\ \A i \in 1 .. Len(out) : out'[i] = out[i]
    BY <1>5, <2>1, SeqAppend
  <2>3. LineOK(out', p, k, flags)
    BY <1>5, <1>6, <1>9, <2>1, LineNew
  <2>4. \A f \in 1 .. k - 1 : f # k
    BY <1>3
  <2>5. \A f \in 1 .. k - 1 : LineOK(out', files[f], f, flags)
    BY <1>5, <1>9, <2>1, <2>4, LineKept
  <2>6. \A i \in 1 .. Len(out') : out'[i].of \in 1 .. k
    BY <1>3, <1>5, <1>9, <2>2
  <2>7. \A f \in 1 .. k : LineOK(out', files[f], f, flags)
    BY <1>3, <2>3, <2>5 DEF p
  <2>8. (k + 1) - 1 = k
    BY <1>3
  <2>9. \A i, j \in 1 .. Len(out') : i < j => out'[i].of < out'[j].of
    <3> SUFFICES ASSUME NEW i \in 1 .. Len(out'), NEW j \in 1 .. Len(out'), i < j
                 PROVE  out'[i].of < out'[j].of
      OBVIOUS
    <3>1. i \in 1 .. Len(out) /\ out'[i] = out[i] /\ out[i].of \in 1 .. k - 1
      BY <1>5, <2>2
    <3>2. j \in 1 .. Len(out) \/ j = Len(out) + 1
      BY <1>5, <2>2
    <3>3. CASE j \in 1 .. Len(out)
      BY <1>5, <2>2, <3>1, <3>3
    <3>4. CASE j = Len(out) + 1
      <4>1. out'[j].of = k
        BY <1>9, <2>2, <3>4
      <4> QED
        BY <1>3, <3>1, <4>1
    <3> QED
      BY <3>2, <3>3, <3>4
  <2> QED
    BY <2>2, <2>6, <2>7, <2>8, <2>9 DEF ToldTo
<1>10. ToldTo(k + 1, out', files, flags)
  <2> DEFINE r == [of |-> k, good |-> GoodOf(p), why |-> WhyOf(p)]
             t == [of |-> k, good |-> TRUE, why |-> "none"]
  <2>1. \/ "explain" \in flags /\ L = <<r>>
        \/ "explain" \notin flags /\ GoodOf(p) /\ L = <<t>>
        \/ "explain" \notin flags /\ ~GoodOf(p) /\ L = <<>>
    BY <1>7, LineFacts DEF k
  <2>2. r.of = k /\ r.good = GoodOf(p) /\ r.why = WhyOf(p) /\ t.of = k /\ t.good = TRUE
    OBVIOUS
  <2> HIDE DEF r, t, L
  <2> QED
    BY <1>8, <1>9, <2>1, <2>2
<1>11. at'.file = k + 1 /\ at' = [file |-> at'.file, sig |-> at'.sig] /\ at'.file \in 1 .. n + 1
    BY <1>2, <1>3
<1>12. /\ phase' = "print" /\ files' = files /\ flags' = flags /\ db' = db /\ dbx' = dbx
    BY <1>1
<1> QED
    BY <1>2, <1>10, <1>11, <1>12 DEF ScoreInv, n

LEMMA ScoreInit == Init => ScoreInv
<1> SUFFICES ASSUME Init PROVE ScoreInv
    OBVIOUS
<1>1. files = <<>> /\ at = [file |-> 1, sig |-> 0] /\ out = <<>> /\ phase = "options"
    BY DEF Init
<1>2. <<>> \in Seq({}) /\ Len(<<>>) = 0
    OBVIOUS
<1>3. IsSeq(<<>>)
    BY <1>2, SeqIsSeq
<1>4. IsSeq(files) /\ \A f \in 1 .. Len(files) : FALSE
    BY <1>1, <1>2, <1>3
<1> QED
    BY <1>1, <1>4 DEF ScoreInv

\* Steps that leave the files, the loop and the phase alone
LEMMA ScoreStutter ==
    ASSUME ScoreInv, UNCHANGED <<phase, db, dbx, flags, files, loop>>
    PROVE  ScoreInv'
<1>1. Scoring' <=> Scoring
    BY DEF Scoring, loop
<1> QED
    BY <1>1 DEF ScoreInv, loop

LEMMA ScoreNext ==
    ASSUME ScoreInv, LoadInv, [Next]_vars
    PROVE  ScoreInv'
<1>1. CASE \/ Flag("-e", "explain") \/ Flag("-f", "first") \/ Flag("-i -", "stdin")
           \/ NoSystem("-D", "db") \/ NoSystem("-X", "dbx")
  <2>1. phase = "options" /\ phase' = "options" /\ UNCHANGED <<files, loop>>
    BY <1>1 DEF Flag, NoSystem, Option, Parsing
  <2> QED
    BY <2>1, BeforeScore
<1>2. CASE FromFile("-d", "db") \/ FromFile("-x", "dbx")
  <2>1. phase = "options" /\ phase' \in {"options", "exit"} /\ UNCHANGED <<files, loop>>
    BY <1>2 DEF FromFile, Option, Parsing, Exit
  <2> QED
    BY <2>1, BeforeScore
<1>3. CASE FromSystem("-s", "db") \/ FromSystem("-S", "dbx")
  <2>1. phase = "options" /\ phase' \in {"options", "exit"} /\ UNCHANGED <<files, loop>>
    BY <1>3 DEF FromSystem, LoadVar, Option, Parsing, Exit
  <2> QED
    BY <2>1, BeforeScore
<1>4. CASE DefaultDb("db", "db", "dbx") \/ DefaultDb("dbx", "dbx", "parse")
  <2>1. /\ phase \in {"db", "dbx"} /\ phase' \in {"dbx", "parse", "exit"} /\ UNCHANGED <<files, loop>>
    BY <1>4 DEF DefaultDb, LoadVar, Exit
  <2> QED
    BY <2>1, BeforeScore
<1>5. CASE AddFile \/ Loading
    BY <1>5, ScoreStutter DEF AddFile, Loading, dbs
<1>6. CASE Loaded
    BY <1>6, LoadedScore
<1>7. CASE LoadFailed \/ Killed
  <2>1. /\ phase \in {"options", "args", "stdin"} /\ phase' \in {"exit", "killed"}
        /\ UNCHANGED <<files, loop>>
    BY <1>7 DEF LoadFailed, Killed, LoadInv, Exit
  <2> QED
    BY <2>1, BeforeScore
<1>8. CASE EndOptions \/ EndArgs
  <2>1. phase \in {"options", "args"} /\ phase' \in {"args", "db"} /\ UNCHANGED <<files, loop>>
    BY <1>8 DEF EndOptions, EndArgs, Parsing
  <2> QED
    BY <2>1, BeforeScore
<1>9. CASE ParseSecdbInfo \/ ChooseInput \/ EndInput
  <2>1. /\ phase \in {"parse", "input", "stdin"} /\ phase' \in {"input", "exit", "stdin", "score"}
        /\ UNCHANGED <<files, loop>>
    BY <1>9 DEF ParseSecdbInfo, ChooseInput, EndInput, Exit
  <2> QED
    BY <2>1, BeforeScore
<1>10. CASE CheckHashes
    BY <1>10, CheckHashesScore
<1>11. CASE ScoreSig
    BY <1>11, ScoreSigScore
<1>12. CASE FileScored
    BY <1>12, FileScoredScore
<1>13. CASE Sort
    BY <1>13, SortScore
<1>14. CASE PrintFile
    BY <1>14, PrintFileScore
<1>15. CASE Finish
  <2>1. /\ phase = "print" /\ phase' = "done" /\ at.file > Len(files)
        /\ UNCHANGED <<db, dbx, flags, files, at, out>>
    BY <1>15 DEF Finish, dbs, loop
  <2>2. Len(files) \in Nat /\ at.file \in 1 .. Len(files) + 1
    BY <2>1, SeqFacts DEF ScoreInv
  <2>3. at.file = Len(files) + 1
    BY <2>1, <2>2
  <2> QED
    BY <2>1, <2>3 DEF ScoreInv
<1>16. CASE UNCHANGED vars
    BY <1>16, ScoreStutter DEF vars, dbs
<1> QED
    BY <1>1, <1>2, <1>3, <1>4, <1>5, <1>6, <1>7, <1>8, <1>9, <1>10, <1>11, <1>12, <1>13, <1>14,
       <1>15, <1>16 DEF Next

\* At every moment a file is judged as far as its signatures were looked at,
\* and the output speaks of the files that were printed, as they were judged.
THEOREM ScoreInvariance == Spec => []ScoreInv
<1>1. ScoreInv /\ LoadInv /\ [Next]_vars => ScoreInv'
    BY ScoreNext
<1> QED
    BY <1>1, ScoreInit, LoadInvariance, PTL DEF Spec

\* What the code finds in a database that has the issuers, too, is what the
\* rule looks for.
LEMMA TrustingIs ==
    ASSUME NEW p, Clear(p)
    PROVE  Trusting(p) = {s \in Counted(p) : Accepted(s, db, dbx)}
<1>1. ASSUME NEW s \in Counted(p), NEW c \in Range(s), NEW d \in {db, dbx}
      PROVE  Finds(c, d) <=> Matches(c, d)
  <2>1. (\E e \in DbCerts(d) : e.issuer = c.issuer) => \E e \in DbCerts(d) : Is_issuing_cert(c, e)
    BY DEF Clear
  <2>2. \A e : Is_same_cert(c, e) \/ SameCert(c, e) => e.issuer = c.issuer
    BY DEF Is_same_cert, SameCert
  <2> QED
    BY <2>1, <2>2 DEF Finds, Matches
<1>2. \A s \in Counted(p) :
        /\ (\E c \in Range(s) : Finds(c, db)) <=> \E c \in Range(s) : Matches(c, db)
        /\ (\E c \in Range(s) : Finds(c, dbx)) <=> \E c \in Range(s) : Matches(c, dbx)
    BY <1>1
<1> QED
    BY <1>2 DEF Trusting, Accepted

\* The verdict and the reason that were found out are right.
LEMMA GoodRight ==
    ASSUME NEW p, FileOK(p), Scored(p, db, dbx), IsDb(db), IsDb(dbx), Rated(p)
    PROVE  /\ Whole(Files[p.name]) /\ Clear(p) => (GoodOf(p) <=> Rule(p, Trusting(p)))
           /\ IF GoodOf(p) THEN WhyOf(p) = "trusted" ELSE WhyOf(p) # "trusted"
<1>1. /\ p.revoked = Hashes(p, dbx) /\ p.trusted = Hashes(p, db)
      /\ p.signed \in BOOLEAN /\ (p.signed <=> \E i \in All(p) : Accepted(p.sigs[i], db, dbx))
      /\ p.signed => p.why = "trusted"
      /\ ~p.signed => p.why \in {"none", "revoked"}
    BY DEF Scored, Hashed, Judged
<1>2. p.secbits > 0 <=> p.signed
  <2>1. AllRated(p, db, dbx)
    BY DEF Rated, AllRated
  <2> QED
    BY <2>1 DEF Scored
<1>3. (p.revoked # {} <=> ByHash(p, dbx)) /\ (p.trusted # {} <=> ByHash(p, db))
    BY <1>1, HashFound
<1>4. ASSUME Whole(Files[p.name]), Clear(p) PROVE p.signed <=> Trusting(p) # {}
  <2>1. /\ \A i \in All(p) : p.sigs[i] \in Counted(p)
        /\ \A s \in Counted(p) : \E i \in All(p) : p.sigs[i] = s
    BY <1>4, SigsCounted
  <2>2. Trusting(p) = {s \in Counted(p) : Accepted(s, db, dbx)}
    BY <1>4, TrustingIs
  <2> QED
    BY <1>1, <2>1, <2>2
<1>5. Whole(Files[p.name]) /\ Clear(p) => (GoodOf(p) <=> Rule(p, Trusting(p)))
    BY <1>2, <1>3, <1>4 DEF GoodOf, Rule
<1>6. IF GoodOf(p) THEN WhyOf(p) = "trusted" ELSE WhyOf(p) # "trusted"
    BY <1>1, <1>2 DEF GoodOf, WhyOf
<1> QED
    BY <1>5, <1>6

LinesOf(o, f) == {j \in DOMAIN o : o[j].of = f}
GoodLines(o, f) == {i \in LinesOf(o, f) : o[i].good}

\* The number of the lines of a file
LEMMA LinesCount ==
    ASSUME NEW o, IsSeq(o), NEW p, NEW f, NEW fl, LineOK(o, p, f, fl)
    PROVE  /\ Cardinality(GoodLines(o, f)) = Flagged(GoodOf(p))
           /\ "explain" \in fl => Cardinality(LinesOf(o, f)) = 1
<1>1. DOMAIN o = 1 .. Len(o)
    BY SeqFacts
<1>2. CASE "explain" \in fl \/ GoodOf(p)
  <2>1. PICK i \in 1 .. Len(o) : /\ o[i].of = f /\ (o[i].good <=> GoodOf(p))
                                 /\ \A j \in 1 .. Len(o) : o[j].of = f => j = i
    BY <1>2 DEF LineOK
  <2>2. LinesOf(o, f) = {i}
    BY <1>1, <2>1 DEF LinesOf
  <2>3. GoodLines(o, f) = IF GoodOf(p) THEN {i} ELSE {}
    BY <2>1, <2>2 DEF GoodLines
  <2>4. Cardinality(LinesOf(o, f)) = 1
    BY <2>2, FS_Singleton
  <2>5. Cardinality(GoodLines(o, f)) = Flagged(GoodOf(p))
    BY <2>3, FS_Singleton, FS_EmptySet DEF Flagged
  <2> QED
    BY <2>4, <2>5
<1>3. CASE ~("explain" \in fl \/ GoodOf(p))
  <2>1. \A j \in 1 .. Len(o) : o[j].of # f
    BY <1>3 DEF LineOK
  <2>2. GoodLines(o, f) = {}
    BY <1>1, <2>1 DEF GoodLines, LinesOf
  <2>3. Cardinality(GoodLines(o, f)) = Flagged(GoodOf(p))
    BY <1>3, <2>2, FS_EmptySet DEF Flagged
  <2> QED
    BY <1>3, <2>3
<1> QED
    BY <1>2, <1>3

\* What sbchooser prints of every file follows the rule of the comment at
\* sbchooser.c:304, with certificates compared as sbchooser-x509.h:56 says, and
\* the reason it gives agrees with the verdict, for any number of files,
\* signatures and database entries, if the databases that have a certificate
\* from the issuer of a signer's have the issuer's, too.
THEOREM VerdictsRight == Spec => []VerdictRight
<1>1. ASSUME OptInv, ScoreInv PROVE VerdictRight
  <2> SUFFICES ASSUME phase = "done" PROVE VerdictRight
    BY DEF VerdictRight, PrintedRight, ExplainHonest
  <2>1. IsDb(db) /\ IsDb(dbx)
    BY <1>1 DEF OptInv, DbOK, Has, Dbs
  <2>2. /\ IsSeq(files) /\ Len(files) \in Nat /\ DOMAIN files = 1 .. Len(files)
        /\ at.file = Len(files) + 1 /\ at.file - 1 = Len(files)
        /\ \A f \in 1 .. Len(files) : FileOK(files[f]) /\ Scored(files[f], db, dbx)
    BY <1>1, SeqFacts DEF ScoreInv
  <2>3. /\ IsSeq(out) /\ DOMAIN out = 1 .. Len(out)
        /\ \A i \in 1 .. Len(out) : out[i].of \in 1 .. Len(files)
        /\ \A f \in 1 .. Len(files) : LineOK(out, files[f], f, flags)
    BY <1>1, <2>2, SeqFacts DEF ScoreInv, ToldTo
  <2>4. PrintedRight
    <3> SUFFICES ASSUME NEW f \in DOMAIN files, Whole(Files[files[f].name]),
                        Rated(files[f]), Clear(files[f])
                 PROVE  VerdictOn(f)
      BY DEF PrintedRight
    <3>1. GoodOf(files[f]) <=> Rule(files[f], Trusting(files[f]))
      BY <2>1, <2>2, GoodRight
    <3>2. Flagged(GoodOf(files[f])) = Flagged(Rule(files[f], Trusting(files[f])))
      BY <3>1 DEF Flagged
    <3>3. LineOK(out, files[f], f, flags)
      BY <2>2, <2>3
    <3>4. /\ Cardinality(GoodLines(out, f)) = Flagged(GoodOf(files[f]))
          /\ "explain" \in flags => Cardinality(LinesOf(out, f)) = 1
      BY <2>3, <3>3, LinesCount
    <3> QED
      BY <3>2, <3>4 DEF VerdictOn, GoodLines, LinesOf
  <2>5. ExplainHonest
    <3> SUFFICES ASSUME NEW i \in DOMAIN out, "explain" \in flags, Rated(Told(i))
                 PROVE  IF out[i].good THEN out[i].why = "trusted" ELSE out[i].why # "trusted"
      BY DEF ExplainHonest
    <3> DEFINE f == out[i].of
               p == files[f]
    <3>1. f \in 1 .. Len(files) /\ LineOK(out, p, f, flags) /\ Rated(p)
      BY <2>3 DEF Told
    <3>2. IF GoodOf(p) THEN WhyOf(p) = "trusted" ELSE WhyOf(p) # "trusted"
      BY <2>1, <2>2, <3>1, GoodRight
    <3>3. PICK j \in 1 .. Len(out) :
                /\ (out[j].good <=> GoodOf(p)) /\ out[j].why = WhyOf(p)
                /\ \A l \in 1 .. Len(out) : out[l].of = f => l = j
      BY <3>1 DEF LineOK
    <3>4. j = i
      BY <2>3, <3>3
    <3> QED
      BY <3>2, <3>3, <3>4
  <2> QED
    BY <2>4, <2>5 DEF VerdictRight
<1> QED
    BY <1>1, OptInvariance, ScoreInvariance, PTL

(***************************************************************************)
(* The order                                                               *)
(***************************************************************************)

\* The signatures of the file on the disk are those that were loaded.
LEMMA SigsAll ==
    ASSUME NEW p, FileOK(p), Whole(Files[p.name])
    PROVE  /\ Signatures(p) = {p.sigs[i] : i \in DOMAIN p.sigs}
           /\ p.sigs = <<>> <=> Signatures(p) = {}
           /\ Certs(p.sigs) = UNION {Range(s) : s \in Signatures(p)}
<1> DEFINE t == Files[p.name].table
           E == {x \in Range(t) : x.kind = "pkcs7"}
<1>1. FoundTo(t, Len(t), p.sigs)
    BY DEF FileOK, Found
<1>2. t \in Seq(TableEntry) /\ DOMAIN t = 1 .. Len(t)
    BY FileTable DEF FileOK
<1>3. p.sigs \in Seq(Seq(Certificate)) /\ DOMAIN p.sigs = 1 .. Len(p.sigs)
    BY <1>1 DEF FoundTo
<1>4. Signatures(p) = {e.signers : e \in E}
    BY Zenon DEF Signatures
<1> HIDE DEF t
<1>5. ASSUME NEW i \in DOMAIN p.sigs PROVE \E e \in E : p.sigs[i] = e.signers
  <2>1. PICK k \in 1 .. Len(t) : t[k].kind = "pkcs7" /\ NumSigs(t, k) = i
    BY <1>1, <1>3 DEF FoundTo
  <2>2. p.sigs[i] = t[k].signers
    BY <1>1, <2>1 DEF FoundTo
  <2>3. t[k] \in E
    BY <1>2, <2>1 DEF Range
  <2> QED
    BY <2>2, <2>3
<1>6. ASSUME NEW e \in E PROVE \E i \in DOMAIN p.sigs : p.sigs[i] = e.signers
  <2>1. PICK k \in 1 .. Len(t) : e = t[k] /\ t[k].kind = "pkcs7"
    BY <1>2 DEF Range
  <2>2. NumSigs(t, k) \in DOMAIN p.sigs /\ p.sigs[NumSigs(t, k)] = e.signers
    BY <1>1, <1>3, <2>1 DEF FoundTo
  <2> QED
    BY <2>2
<1> HIDE DEF E
<1>7. Signatures(p) = {p.sigs[i] : i \in DOMAIN p.sigs}
    BY <1>4, <1>5, <1>6
<1>8. p.sigs = <<>> <=> Signatures(p) = {}
  <2>1. p.sigs = <<>> <=> Len(p.sigs) = 0
    BY <1>3
  <2>2. Len(p.sigs) \in Nat
    BY <1>3
  <2>3. Len(p.sigs) = 0 <=> DOMAIN p.sigs = {}
    <3>1. \A n \in Nat : n = 0 <=> 1 .. n = {}
      <4>1. \A n \in Nat : n # 0 => 1 \in 1 .. n
        OBVIOUS
      <4>2. 1 .. 0 = {}
        OBVIOUS
      <4> QED
        BY <4>1, <4>2
    <3> QED
      BY <1>3, <2>2, <3>1
  <2>4. Signatures(p) = {} <=> DOMAIN p.sigs = {}
    BY <1>7
  <2> QED
    BY <2>1, <2>3, <2>4
<1>9. Certs(p.sigs) = UNION {Range(s) : s \in Signatures(p)}
    BY <1>7 DEF Certs
<1> QED
    BY <1>7, <1>8, <1>9

LEMMA MinIs ==
    ASSUME NEW S, S \subseteq Int, NEW n \in S, \A m \in S : n <= m
    PROVE  MinOf(S) = n
<1>1. MinOf(S) \in S /\ \A m \in S : MinOf(S) <= m
    BY DEF MinOf
<1>2. MinOf(S) \in Int /\ n \in Int /\ MinOf(S) <= n /\ n <= MinOf(S)
    BY <1>1
<1> QED
    BY <1>2

\* The strongest digest a file is trusted by has a strength.
LEMMA HashBitsFacts ==
    ASSUME NEW p, p.revoked = {}, p.trusted \subseteq Algorithm
    PROVE  HashBits(p) \in Nat /\ (HashBits(p) > 0 <=> p.trusted # {})
<1> DEFINE S == {MdBits[a] : a \in p.trusted} \cup {0}
<1>1. MdBits["SHA512"] = 256 /\ MdBits["SHA384"] = 192 /\ MdBits["SHA256"] = 128
    BY DEF MdBits
<1>2. \A a \in p.trusted : MdBits[a] \in {256, 192, 128}
    BY <1>1 DEF Algorithm
<1>3. S \subseteq {256, 192, 128, 0} /\ 0 \in S
    BY <1>2
<1>4. HashBits(p) = MaxOf(S)
    BY DEF HashBits
<1>5. p.trusted # {} <=> \E m \in S : m > 0
    BY <1>2
<1> HIDE DEF S
<1>6. \E n \in S : \A m \in S : n >= m
  <2>1. CASE 256 \in S
    BY <1>3, <2>1
  <2>2. CASE 256 \notin S /\ 192 \in S
    BY <1>3, <2>2
  <2>3. CASE 256 \notin S /\ 192 \notin S /\ 128 \in S
    BY <1>3, <2>3
  <2>4. CASE 256 \notin S /\ 192 \notin S /\ 128 \notin S
    BY <1>3, <2>4
  <2> QED
    BY <2>1, <2>2, <2>3, <2>4
<1>7. MaxOf(S) \in S /\ \A m \in S : MaxOf(S) >= m
    BY <1>6 DEF MaxOf
<1>8. MaxOf(S) \in {256, 192, 128, 0}
    BY <1>3, <1>7
<1>9. MaxOf(S) > 0 <=> \E m \in S : m > 0
    BY <1>3, <1>7, <1>8
<1> QED
    BY <1>4, <1>5, <1>8, <1>9

\* The certificate of a signature with one signer is the one it is rated by.
LEMMA OneCert ==
    ASSUME NEW s \in Seq(Certificate), Len(s) = 1
    PROVE  WorstCert(s) = s[1] /\ Range(s) = {s[1]} /\ SecBits(s[1]) \in Int
<1> DEFINE P(i) == \A j \in DOMAIN s : \/ SecBits(s[j]) < SecBits(s[i])
                                       \/ SecBits(s[j]) = SecBits(s[i]) /\ i <= j
<1>1. DOMAIN s = {1} /\ s[1] \in Certificate
    OBVIOUS
<1>2. SecBits(s[1]) \in Int
    BY <1>1, BitsFacts
<1>3. \A i \in DOMAIN s : i = 1
    BY <1>1
<1>4. P(1)
    BY <1>1
<1>5. WorstCert(s) = s[CHOOSE i \in DOMAIN s : P(i)]
    BY DEF WorstCert
<1> HIDE DEF P
<1>6. (CHOOSE i \in DOMAIN s : P(i)) = 1
    BY <1>1, <1>4
<1> QED
    BY <1>1, <1>2, <1>5, <1>6 DEF Range

\* The strength of a file is that of the weakest certificate it is trusted by.
LEMMA SecbitsRight ==
    ASSUME NEW p, FileOK(p), Scored(p, db, dbx), Comparable(p)
    PROVE  p.secbits = IF Trusting(p) = {} THEN 0
                       ELSE MinOf({SecBits(c) : c \in UNION {Range(s) : s \in Trusting(p)}})
<1> DEFINE T == Trusted(p, All(p), db, dbx)
           B == {SecBits(c) : c \in UNION {Range(s) : s \in Trusting(p)}}
<1>1. /\ p.sigs \in Seq(Seq(Certificate))
      /\ \A i \in All(p) : p.sigs[i] \in Counted(p)
      /\ \A s \in Counted(p) : \E i \in All(p) : p.sigs[i] = s
    BY SigsCounted DEF Comparable
<1>2. Trusting(p) = {s \in Counted(p) : Accepted(s, db, dbx)}
    BY TrustingIs DEF Comparable
<1>3. Trusting(p) = {p.sigs[i] : i \in T}
    BY <1>1, <1>2 DEF Trusted
<1>4. \A i \in T : /\ WorstCert(p.sigs[i]) = p.sigs[i][1] /\ Range(p.sigs[i]) = {p.sigs[i][1]}
                   /\ SecBits(p.sigs[i][1]) \in Int
  <2> SUFFICES ASSUME NEW i \in T
               PROVE  /\ WorstCert(p.sigs[i]) = p.sigs[i][1] /\ Range(p.sigs[i]) = {p.sigs[i][1]}
                      /\ SecBits(p.sigs[i][1]) \in Int
    OBVIOUS
  <2>1. i \in DOMAIN p.sigs /\ i \in All(p)
    BY DEF Trusted, All
  <2>2. p.sigs[i] \in Seq(Certificate)
    BY <1>1, <2>1
  <2>3. p.sigs[i] \in Counted(p)
    BY <1>1, <2>1
  <2>4. Len(p.sigs[i]) = 1
    BY <2>3 DEF Comparable, OneSigner
  <2> QED
    BY <2>2, <2>4, OneCert
<1>5. /\ p.secbits \in Nat /\ (p.secbits > 0 => p.signed) /\ p.signed \in BOOLEAN
      /\ (p.signed <=> T # {}) /\ (p.signed => Weakest(p, T))
    BY DEF Scored, Judged, Trusted
<1> HIDE DEF T
<1>6. B = {SecBits(p.sigs[i][1]) : i \in T}
  <2> DEFINE C == UNION {Range(s) : s \in Trusting(p)}
  <2>1. C = {p.sigs[i][1] : i \in T}
    <3>1. ASSUME NEW c \in C PROVE \E i \in T : c = p.sigs[i][1]
      <4>1. PICK i \in T : c \in Range(p.sigs[i])
        BY <1>3
      <4> QED
        BY <1>4, <4>1
    <3>2. ASSUME NEW i \in T PROVE p.sigs[i][1] \in C
      <4>1. p.sigs[i] \in Trusting(p) /\ p.sigs[i][1] \in Range(p.sigs[i])
        BY <1>3, <1>4
      <4> QED
        BY <4>1
    <3> HIDE DEF C
    <3> QED
      BY <3>1, <3>2
  <2>2. B = {SecBits(c) : c \in C}
    OBVIOUS
  <2> HIDE DEF B, C
  <2> QED
    BY <2>1, <2>2
<1>7. CASE Trusting(p) = {}
  <2>1. ~p.signed
    BY <1>3, <1>5, <1>7
  <2> QED
    BY <1>5, <1>7, <2>1
<1>8. CASE Trusting(p) # {}
  <2>1. Weakest(p, T)
    BY <1>3, <1>5, <1>8
  <2>2. (\E i \in T : p.secbits = SecBits(p.sigs[i][1])) /\ \A i \in T : p.secbits <= SecBits(p.sigs[i][1])
    BY <1>4, <2>1 DEF Weakest
  <2> HIDE DEF B
  <2>3. B \subseteq Int /\ p.secbits \in B /\ \A m \in B : p.secbits <= m
    BY <1>4, <1>6, <2>2
  <2>4. MinOf(B) = p.secbits
    BY <2>3, MinIs
  <2> QED
    BY <1>8, <2>4 DEF B
<1> QED
    BY <1>7, <1>8

\* What the manual compares is what the code compares.
LEMMA MeritIs ==
    ASSUME NEW p, FileOK(p), Scored(p, db, dbx), Comparable(p), AllCount(p), GoodOf(p)
    PROVE  Merit(p) = <<HashBits(p), p.secbits, p.not_after, -p.not_before>>
<1> DEFINE C == UNION {Range(s) : s \in Counted(p)}
           H == {x \in Algorithm : [kind |-> "digest", alg |-> x, digest |-> p.digest] \in db}
           m1 == MaxOf({MdBits[a] : a \in H} \cup {0})
           m2 == IF Trusting(p) = {} THEN 0
                 ELSE MinOf({SecBits(c) : c \in UNION {Range(s) : s \in Trusting(p)}})
           m3 == MaxOf({c.not_after : c \in C} \cup {0})
           m4 == IF Counted(p) = {} THEN 0 ELSE -MinOf({c.not_before : c \in C})
<1>1. Merit(p) = <<m1, m2, m3, m4>>
    BY Zenon DEF Merit
<1>2. m1 = HashBits(p)
  <2>1. p.revoked = {} /\ p.trusted = H
    BY DEF Scored, Hashed, Hashes, GoodOf
  <2> HIDE DEF H
  <2> QED
    BY <2>1 DEF HashBits
<1>3. m2 = p.secbits
    BY SecbitsRight
<1>4. /\ Certs(p.sigs) = C /\ (p.sigs = <<>> <=> Counted(p) = {})
      /\ p.not_after = LatestNotAfter(p.sigs) /\ p.not_before = EarliestNotBefore(p.sigs)
    BY SigsAll DEF FileOK, Comparable, AllCount
<1> HIDE DEF C
<1>5. m3 = p.not_after
    BY <1>4 DEF LatestNotAfter
<1>6. m4 = -p.not_before
    BY <1>4 DEF EarliestNotBefore
<1> HIDE DEF m1, m2, m3, m4
<1> QED
    BY <1>1, <1>2, <1>3, <1>5, <1>6

\* Of files that no digest revokes, pe_cmp orders by those four.
LEMMA KeyOrder ==
    ASSUME NEW p, p.revoked = {}, p.trusted \subseteq Algorithm,
           NEW q, q.revoked = {}, q.trusted \subseteq Algorithm,
           Greater(<<HashBits(q), q.secbits, q.not_after, -q.not_before>>,
                   <<HashBits(p), p.secbits, p.not_after, -p.not_before>>)
    PROVE  Greater(Key(q), Key(p))
<1> DEFINE a == <<HashBits(q), q.secbits, q.not_after, -q.not_before>>
           b == <<HashBits(p), p.secbits, p.not_after, -p.not_before>>
           k == Key(q)
           l == Key(p)
<1>1. /\ DOMAIN k = 1 .. 6 /\ DOMAIN a = 1 .. 4
      /\ k[3] = a[1] /\ k[4] = a[2] /\ k[5] = a[3] /\ k[6] = a[4]
      /\ l[3] = b[1] /\ l[4] = b[2] /\ l[5] = b[3] /\ l[6] = b[4]
      /\ k[1] = l[1] /\ k[2] = Flagged(q.trusted # {}) /\ l[2] = Flagged(p.trusted # {})
    BY DEF Key, Is_revoked_by_hash, Is_trusted_by_hash
<1>2. /\ a[1] \in Nat /\ (a[1] > 0 <=> q.trusted # {})
      /\ b[1] \in Nat /\ (b[1] > 0 <=> p.trusted # {})
    BY HashBitsFacts
<1>3. PICK i \in DOMAIN a : a[i] > b[i] /\ \A j \in 1 .. i - 1 : a[j] = b[j]
    BY DEF Greater
<1> HIDE DEF a, b, k, l
<1>4. CASE i = 1
  <2>1. k[2] = 1 /\ l[2] \in {0, 1} /\ k[3] > l[3]
    BY <1>1, <1>2, <1>3, <1>4 DEF Flagged
  <2>2. CASE l[2] = 0
    <3>1. 2 \in DOMAIN k /\ k[2] > l[2] /\ \A j \in 1 .. 2 - 1 : k[j] = l[j]
      BY <1>1, <2>1, <2>2
    <3> QED
      BY <3>1 DEF Greater, k, l
  <2>3. CASE l[2] = 1
    <3>1. 3 \in DOMAIN k /\ \A j \in 1 .. 3 - 1 : k[j] = l[j]
      BY <1>1, <2>1, <2>3
    <3> QED
      BY <2>1, <3>1 DEF Greater, k, l
  <2> QED
    BY <2>1, <2>2, <2>3
<1>5. CASE i # 1
  <2>1. i \in {2, 3, 4} /\ a[1] = b[1]
    BY <1>1, <1>3, <1>5
  <2>2. k[1] = l[1] /\ k[2] = l[2] /\ k[3] = l[3]
    BY <1>1, <1>2, <2>1 DEF Flagged
  <2>3. CASE i = 2
    <3>1. 4 \in DOMAIN k /\ k[4] > l[4] /\ \A j \in 1 .. 4 - 1 : k[j] = l[j]
      BY <1>1, <1>3, <2>2, <2>3
    <3> QED
      BY <3>1 DEF Greater, k, l
  <2>4. CASE i = 3
    <3>1. a[2] = b[2]
      BY <1>3, <2>4
    <3>2. 5 \in DOMAIN k /\ k[5] > l[5] /\ \A j \in 1 .. 5 - 1 : k[j] = l[j]
      BY <1>1, <1>3, <2>2, <2>4, <3>1
    <3> QED
      BY <3>2 DEF Greater, k, l
  <2>5. CASE i = 4
    <3>1. a[2] = b[2] /\ a[3] = b[3]
      BY <1>3, <2>5
    <3>2. 6 \in DOMAIN k /\ k[6] > l[6] /\ \A j \in 1 .. 6 - 1 : k[j] = l[j]
      BY <1>1, <1>3, <2>2, <2>5, <3>1
    <3> QED
      BY <3>2 DEF Greater, k, l
  <2> QED
    BY <2>1, <2>3, <2>4, <2>5
<1> QED
    BY <1>4, <1>5

\* Of two files that sbchooser lists, the one that is better by the criteria of
\* sbchooser(1) is never the later one, for any number of files whose signatures
\* all count: what pe_cmp compares (sbchooser-pe.c:1080) are those criteria of
\* the file on the disk.
THEOREM BestComesFirst == Spec => []BestFirst
<1>1. ASSUME ScoreInv PROVE BestFirst
  <2> SUFFICES ASSUME phase = "done", NEW i \in DOMAIN out, NEW j \in DOMAIN out, i < j,
                      out[i].good, out[j].good,
                      Comparable(Told(i)), Comparable(Told(j)),
                      AllCount(Told(i)), AllCount(Told(j))
               PROVE  ~Greater(Merit(Told(j)), Merit(Told(i)))
    BY DEF BestFirst, Listed
  <2> DEFINE f == out[i].of
             g == out[j].of
             p == files[f]
             q == files[g]
  <2>1. /\ IsSeq(files) /\ Len(files) \in Nat /\ at.file - 1 = Len(files)
        /\ \A h \in 1 .. Len(files) : FileOK(files[h]) /\ Scored(files[h], db, dbx)
        /\ \A e, h \in 1 .. Len(files) : e < h => ~Pe_cmp(files[h], files[e])
    BY <1>1, SeqFacts DEF ScoreInv
  <2>2. /\ IsSeq(out) /\ DOMAIN out = 1 .. Len(out)
        /\ \A h \in 1 .. Len(out) : out[h].of \in 1 .. Len(files)
        /\ \A h \in 1 .. Len(files) : LineOK(out, files[h], h, flags)
        /\ \A d, h \in 1 .. Len(out) : d < h => out[d].of < out[h].of
    BY <1>1, <2>1, SeqFacts DEF ScoreInv, ToldTo
  <2>3. ASSUME NEW h \in DOMAIN out, out[h].good PROVE GoodOf(files[out[h].of])
    <3>1. LineOK(out, files[out[h].of], out[h].of, flags)
      BY <2>2
    <3> QED
      BY <2>2, <2>3, <3>1 DEF LineOK
  <2>4. f \in 1 .. Len(files) /\ g \in 1 .. Len(files) /\ f < g
    BY <2>2
  <2>5. GoodOf(p) /\ GoodOf(q) /\ p = Told(i) /\ q = Told(j)
    BY <2>3 DEF Told
  <2> HIDE DEF f, g
  <2>6. /\ FileOK(p) /\ FileOK(q) /\ Scored(p, db, dbx) /\ Scored(q, db, dbx) /\ ~Pe_cmp(q, p)
    BY <2>1, <2>4
  <2> HIDE DEF p, q
  <2>7. Merit(p) = <<HashBits(p), p.secbits, p.not_after, -p.not_before>>
    BY <2>5, <2>6, MeritIs
  <2>8. Merit(q) = <<HashBits(q), q.secbits, q.not_after, -q.not_before>>
    BY <2>5, <2>6, MeritIs
  <2>9. /\ p.revoked = {} /\ p.trusted \subseteq Algorithm
        /\ q.revoked = {} /\ q.trusted \subseteq Algorithm
    BY <2>5, <2>6 DEF GoodOf, Scored, Hashed, Hashes
  <2>10. ~Greater(Key(q), Key(p))
    BY <2>6 DEF Pe_cmp
  <2>11. ~Greater(Merit(q), Merit(p))
    BY <2>7, <2>8, <2>9, <2>10, KeyOrder
  <2> QED
    BY <2>5, <2>11
<1> QED
    BY <1>1, ScoreInvariance, PTL
=============================================================================
