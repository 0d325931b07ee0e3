---------------------------- MODULE Extract_proofs ----------------------------
(***************************************************************************)
(* For every archive, cut or damaged anywhere: the types of the driver,    *)
(* that safe mode writes an entry whole, and one whose checksum can be     *)
(* told only with the bytes that were archived, that status 0 means that   *)
(* everything in an archive with checksums came out right, that the files  *)
(* before a cut and a damage come out right whatever follows them, and     *)
(* that an archive nothing happened to comes out whole.                    *)
(***************************************************************************)
EXTENDS Extract, Induction, FiniteSetTheorems

-----------------------------------------------------------------------------
(* What Joined is: its function is there, and takes one sequence more      *)

\* f joins the sequences up to each of the first n.
Joins(ss, f, n) == f = [k \in 0 .. n |-> IF k = 0 THEN <<>> ELSE f[k - 1] \o ss[k]]

\* However many sequences there are, some function joins them.
LEMMA JoinsExist ==
    ASSUME NEW ss
    PROVE  \A n \in Nat : \E f : Joins(ss, f, n)
<1> DEFINE S == {n \in Nat : \E f : Joins(ss, f, n)}
<1>1. 0 \in S
  <2>1. Joins(ss, [k \in 0 .. 0 |-> <<>>], 0)
    BY DEF Joins
  <2> QED BY <2>1
<1>2. ASSUME NEW n \in Nat, n \in S PROVE n + 1 \in S
  <2>1. PICK f : Joins(ss, f, n)
    BY <1>2
  <2>2. f = [k \in 0 .. n |-> IF k = 0 THEN <<>> ELSE f[k - 1] \o ss[k]]
    BY <2>1 DEF Joins
  <2> DEFINE g == [k \in 0 .. n + 1 |-> IF k <= n THEN f[k] ELSE f[n] \o ss[n + 1]]
  <2>3. ASSUME NEW k \in 0 .. n + 1
        PROVE  g[k] = IF k = 0 THEN <<>> ELSE g[k - 1] \o ss[k]
    <3>1. CASE k = 0
      BY <2>2, <3>1
    <3>2. CASE k # 0 /\ k <= n
      <4>1. k - 1 \in 0 .. n /\ k \in 0 .. n
        BY <3>2
      <4>2. f[k] = f[k - 1] \o ss[k]
        BY <2>2, <3>2, <4>1
      <4>3. g[k] = f[k] /\ g[k - 1] = f[k - 1]
        BY <3>2, <4>1
      <4> HIDE DEF g
      <4> QED BY <3>2, <4>2, <4>3
    <3>3. CASE k = n + 1
      BY <3>3
    <3> QED BY <3>1, <3>2, <3>3
  <2> HIDE DEF g
  <2>4. g = [k \in 0 .. n + 1 |-> g[k]]
    BY DEF g
  <2>5. Joins(ss, g, n + 1)
    BY <2>3, <2>4 DEF Joins
  <2> QED BY <2>5
<1> HIDE DEF S
<1>3. Nat \subseteq S
  BY <1>1, <1>2, InductionOverNat
<1> QED BY <1>3 DEF S

\* It takes one sequence more with every step.
LEMMA JoinsStep ==
    ASSUME NEW ss, NEW f, NEW n \in Nat, Joins(ss, f, n)
    PROVE  f[0] = <<>> /\ \A k \in 0 .. n - 1 : f[k + 1] = f[k] \o ss[k + 1]
  BY DEF Joins

\* The recursive function in Joined is one of them.
LEMMA JoinedIs ==
    ASSUME NEW ss, Len(ss) \in Nat
    PROVE  \E f : Joins(ss, f, Len(ss)) /\ Joined(ss) = f[Len(ss)]
<1> DEFINE f == CHOOSE f : Joins(ss, f, Len(ss))
<1>1. Joins(ss, f, Len(ss))
  BY JoinsExist, Zenon
<1>2. Joined(ss) = f[Len(ss)]
  BY Zenon DEF Joined, Joins
<1> QED BY <1>1, <1>2

\* Functions that join agree as far as the sequences do.
LEMMA JoinsSame ==
    ASSUME NEW ss, NEW tt, NEW f, NEW g, NEW m \in Nat, NEW n \in Nat, m <= n,
           Joins(ss, f, m), Joins(tt, g, n), \A k \in 1 .. m : ss[k] = tt[k]
    PROVE  f[m] = g[m]
<1>0. /\ f[0] = <<>> /\ \A k \in 0 .. m - 1 : f[k + 1] = f[k] \o ss[k + 1]
      /\ g[0] = <<>> /\ \A k \in 0 .. n - 1 : g[k + 1] = g[k] \o tt[k + 1]
  BY JoinsStep
<1> DEFINE S == {k \in Nat : k <= m => f[k] = g[k]}
<1>1. 0 \in S
  BY <1>0
<1>2. ASSUME NEW k \in Nat, k \in S PROVE k + 1 \in S
  <2>1. CASE k + 1 <= m
    <3>0. k \in 0 .. m - 1 /\ k \in 0 .. n - 1
      BY <2>1
    <3>1. f[k + 1] = f[k] \o ss[k + 1] /\ g[k + 1] = g[k] \o tt[k + 1]
      BY <1>0, <3>0, Zenon
    <3>2. f[k] = g[k] /\ ss[k + 1] = tt[k + 1]
      BY <1>2, <2>1
    <3>3. f[k + 1] = g[k + 1]
      BY <3>1, <3>2, Zenon
    <3> QED BY <3>3
  <2>2. CASE ~ (k + 1 <= m)
    BY <2>2
  <2> QED BY <2>1, <2>2
<1>3. Nat \subseteq S
  <2> HIDE DEF S
  <2> QED BY <1>1, <1>2, InductionOverNat
<1> QED BY <1>3

\* No sequences, nothing.
LEMMA JoinedNone == ASSUME NEW ss, Len(ss) = 0 PROVE Joined(ss) = <<>>
<1>1. PICK f : Joins(ss, f, 0) /\ Joined(ss) = f[0]
  BY JoinedIs
<1> QED BY <1>1 DEF Joins

\* One more sequence comes behind the others.
LEMMA JoinedMore ==
    ASSUME NEW ss, NEW tt, NEW n \in Nat, Len(ss) = n, Len(tt) = n + 1,
           \A k \in 1 .. n : tt[k] = ss[k]
    PROVE  Joined(tt) = Joined(ss) \o tt[n + 1]
<1>1. PICK f : Joins(ss, f, n) /\ Joined(ss) = f[n]
  BY JoinedIs
<1>2. PICK g : Joins(tt, g, n + 1) /\ Joined(tt) = g[n + 1]
  BY JoinedIs
<1>3. f[n] = g[n]
  <2>1. PICK p \in Nat : p = n + 1 /\ n <= p /\ n <= n
    OBVIOUS
  <2>2. Joins(tt, g, p)
    BY <1>2, <2>1
  <2>3. \A k \in 1 .. n : ss[k] = tt[k]
    OBVIOUS
  <2>4. Joins(ss, f, n)
    BY <1>1
  <2>5. n <= p
    BY <2>1
  <2> QED BY ONLY n \in Nat, p \in Nat, <2>2, <2>3, <2>4, <2>5, JoinsSame
<1>4. g[n + 1] = g[n] \o tt[n + 1]
  BY <1>2 DEF Joins
<1> QED BY <1>1, <1>2, <1>3, <1>4

\* What all of them consist of.
LEMMA JoinedType ==
    ASSUME NEW T, NEW ss, Len(ss) \in Nat, \A k \in 1 .. Len(ss) : ss[k] \in Seq(T)
    PROVE  Joined(ss) \in Seq(T)
<1>0. PICK n \in Nat : n = Len(ss)
  OBVIOUS
<1>1. PICK f : Joins(ss, f, n) /\ Joined(ss) = f[n]
  BY <1>0, JoinedIs
<1>a. \A k \in 1 .. n : ss[k] \in Seq(T)
  BY <1>0
<1>b. f[0] = <<>> /\ \A k \in 0 .. n - 1 : f[k + 1] = f[k] \o ss[k + 1]
  BY <1>1, JoinsStep
<1> DEFINE S == {k \in Nat : k <= n => f[k] \in Seq(T)}
<1>2. 0 \in S
  BY <1>1 DEF Joins
<1>3. ASSUME NEW k \in Nat, k \in S PROVE k + 1 \in S
  <2>1. CASE k + 1 <= n
    <3>1. f[k + 1] = f[k] \o ss[k + 1]
      <4>1. k \in 0 .. n - 1
        BY <2>1
      <4> QED BY <1>b, <4>1, Zenon
    <3>2. f[k] \in Seq(T) /\ ss[k + 1] \in Seq(T)
      BY <1>a, <1>3, <2>1
    <3>3. f[k + 1] \in Seq(T)
      BY <3>1, <3>2
    <3> QED BY <3>3
  <2>2. CASE ~ (k + 1 <= n)
    BY <2>2
  <2> QED BY <2>1, <2>2
<1>4. Nat \subseteq S
  <2> HIDE DEF S
  <2> QED BY <1>2, <1>3, InductionOverNat
<1> QED BY <1>1, <1>4

\* s is how t begins.
Begins(s, t) == Len(s) <= Len(t) /\ \A j \in 1 .. Len(s) : s[j] = t[j]

\* A sequence begins what it is continued to.
LEMMA ConcatExtends ==
    ASSUME NEW T, NEW s \in Seq(T), NEW t \in Seq(T)
    PROVE  Begins(s, s \o t)
  BY DEF Begins

\* To begin with is transitive.
LEMMA BeginsThrough ==
    ASSUME NEW T, NEW s \in Seq(T), NEW t \in Seq(T), NEW u \in Seq(T), Begins(s, t), Begins(t, u)
    PROVE  Begins(s, u)
  BY DEF Begins

\* The first sequences joined are how all of them begin.
LEMMA JoinedPrefix ==
    ASSUME NEW T, NEW ss, NEW tt, Len(ss) \in Nat, Len(tt) \in Nat, Len(ss) <= Len(tt),
           \A k \in 1 .. Len(tt) : tt[k] \in Seq(T), \A k \in 1 .. Len(ss) : ss[k] = tt[k]
    PROVE  Begins(Joined(ss), Joined(tt))
<1>a. PICK m \in Nat, n \in Nat : m = Len(ss) /\ n = Len(tt)
  OBVIOUS
<1>b. m <= n /\ (\A k \in 1 .. n : tt[k] \in Seq(T)) /\ \A k \in 1 .. m : ss[k] = tt[k]
  BY <1>a
<1>1. PICK f : Joins(ss, f, m) /\ Joined(ss) = f[m]
  BY <1>a, JoinedIs
<1>2. PICK g : Joins(tt, g, n) /\ Joined(tt) = g[n]
  BY <1>a, JoinedIs
<1>3. f[m] = g[m]
  <2>1. m <= n
    BY <1>b
  <2>2. \A k \in 1 .. m : ss[k] = tt[k]
    BY <1>b
  <2>3. Joins(ss, f, m)
    BY <1>1
  <2>4. Joins(tt, g, n)
    BY <1>2
  <2> QED BY ONLY m \in Nat, n \in Nat, <2>1, <2>2, <2>3, <2>4, JoinsSame
<1>d. g[0] = <<>> /\ \A k \in 0 .. n - 1 : g[k + 1] = g[k] \o tt[k + 1]
  BY <1>2, JoinsStep
<1>c. g[m] \in Seq(T)
  BY <1>a, <1>1, <1>3, JoinedType
<1> DEFINE S == {k \in Nat : k <= n => g[k] \in Seq(T) /\ (m <= k => Begins(g[m], g[k]))}
<1>4. 0 \in S
  <2>1. g[0] = <<>>
    BY <1>d
  <2>2. g[0] \in Seq(T)
    BY <2>1
  <2>3. m <= 0 => Begins(g[m], g[0])
    BY <2>1 DEF Begins
  <2> QED BY <2>2, <2>3
<1>5. ASSUME NEW k \in Nat, k \in S PROVE k + 1 \in S
  <2>1. CASE k + 1 <= n
    <3>1. g[k + 1] = g[k] \o tt[k + 1]
      <4>1. k \in 0 .. n - 1
        BY <2>1
      <4> QED BY <1>d, <4>1, Zenon
    <3>2. g[k] \in Seq(T) /\ tt[k + 1] \in Seq(T)
      BY <1>b, <1>5, <2>1
    <3>3. g[k + 1] \in Seq(T)
      BY <3>1, <3>2
    <3>a. Begins(g[k], g[k + 1])
      BY <3>1, <3>2, ConcatExtends
    <3>4. CASE m <= k
      <4>1. Begins(g[m], g[k])
        BY <1>5, <2>1, <3>4
      <4>2. Begins(g[m], g[k + 1])
        BY <1>c, <3>2, <3>3, <3>a, <4>1, BeginsThrough
      <4> QED BY <3>3, <4>2
    <3>5. CASE m = k + 1
      BY <1>c, <3>3, <3>5 DEF Begins
    <3>6. CASE m > k + 1
      BY <3>3, <3>6
    <3> QED BY <3>4, <3>5, <3>6
  <2>2. CASE ~ (k + 1 <= n)
    BY <2>2
  <2> QED BY <2>1, <2>2
<1>6. Nat \subseteq S
  <2> HIDE DEF S
  <2> QED BY <1>4, <1>5, InductionOverNat
<1>7. Begins(g[m], g[n])
  BY <1>b, <1>6
<1> QED BY <1>1, <1>2, <1>3, <1>7
-----------------------------------------------------------------------------
(* The archives *)

\* The entries there may be, and the data records.
EntriesIn(x) == {e \in Listing : e.file \in FilesOf(x)}

DataOf(x) == {j \in 1 .. Len(x.records) : x.records[j].type = "data"}

\* What the inputs may hold at each place (TryParseLegacyCnArchive reads no other types).
LEMMA RecordFacts ==
    ASSUME NEW x \in Inputs, NEW j \in 1 .. Len(x.records)
    PROVE  /\ Length(x.records[j]) \in Nat
           /\ x.records[j].type \in {"codec", "table", "times", "sums", "data"}
           /\ x.records[j].type = "table" => x.records[j].body \in Seq(EntriesIn(x))
           /\ x.records[j].type = "sums" => Len(x.records[j].body) \in Nat
           /\ x.records[j].type = "data" => x.records[j].body \in Seq(Int)
           /\ x.records[j].type = "table" =>
                  Length(x.records[j]) = EntryBytes * Len(x.records[j].body)
<1> DEFINE r == x.records[j]
<1>1. IsRecord(r) /\ j \in DOMAIN x.records
  BY InputsAssumption
<1>2. Length(r) \in Nat
  BY <1>1 DEF IsRecord, Length, EntryBytes
<1>3. ASSUME r.type = "table" PROVE r.body \in Seq(EntriesIn(x))
  <2>1. r.body \in Seq(Listing)
    BY <1>1, <1>3 DEF IsRecord
  <2>2. ASSUME NEW k \in 1 .. Len(r.body) PROVE r.body[k] \in EntriesIn(x)
    <3>1. r \in ToSet(x.records)
      BY <1>1 DEF ToSet
    <3>2. r.body[k].file \in FilesOf(x)
      BY <1>3, <2>1, <3>1 DEF FilesOf
    <3> QED BY <2>1, <3>2 DEF EntriesIn
  <2> HIDE DEF r
  <2> QED BY <2>1, <2>2
<1>4. r.type = "table" => Length(r) = EntryBytes * Len(r.body)
  BY DEF Length
<1> QED BY <1>1, <1>2, <1>3, <1>4 DEF IsRecord

\* The archive's tables and the entries they list.
LEMMA TablesType ==
    ASSUME NEW x \in Inputs, NEW n \in 0 .. Len(x.records)
    PROVE  /\ Len(TablesOf(x, n)) = n
           /\ \A j \in 1 .. n : TablesOf(x, n)[j] \in Seq(EntriesIn(x))
           /\ ListedIn(x, n) \in Seq(EntriesIn(x))
<1>0. Len(x.records) \in Nat
  BY InputsAssumption
<1>1. n \in Nat /\ Len(TablesOf(x, n)) = n
  BY <1>0 DEF TablesOf
<1>2. ASSUME NEW j \in 1 .. n PROVE TablesOf(x, n)[j] \in Seq(EntriesIn(x))
  <2>1. j \in 1 .. Len(x.records)
    BY <1>0
  <2>2. x.records[j].type = "table" => x.records[j].body \in Seq(EntriesIn(x))
    BY <2>1, RecordFacts
  <2> QED BY <2>2 DEF TablesOf
<1>3. ListedIn(x, n) \in Seq(EntriesIn(x))
  <2> DEFINE ss == TablesOf(x, n)
  <2>1. Len(ss) \in Nat /\ \A k \in 1 .. Len(ss) : ss[k] \in Seq(EntriesIn(x))
    BY <1>1, <1>2
  <2> HIDE DEF ss
  <2>2. Joined(ss) \in Seq(EntriesIn(x))
    BY <2>1, JoinedType
  <2> QED BY <2>2 DEF ListedIn, ss
<1> QED BY <1>1, <1>2, <1>3

\* One record more lists its table's entries, and nothing if it is none.
LEMMA ListedMore ==
    ASSUME NEW x \in Inputs, NEW n \in 0 .. Len(x.records) - 1
    PROVE  ListedIn(x, n + 1) =
             ListedIn(x, n) \o (IF x.records[n + 1].type = "table" THEN x.records[n + 1].body ELSE <<>>)
<1>0. Len(x.records) \in Nat /\ n \in Nat
  BY InputsAssumption
<1> DEFINE ss == TablesOf(x, n)
           tt == TablesOf(x, n + 1)
<1>1. Len(ss) = n /\ Len(tt) = n + 1 /\ \A k \in 1 .. n : tt[k] = ss[k]
  BY <1>0, TablesType DEF TablesOf
<1>2. tt[n + 1] = IF x.records[n + 1].type = "table" THEN x.records[n + 1].body ELSE <<>>
  BY <1>0 DEF TablesOf
<1> HIDE DEF ss, tt
<1>3. Joined(tt) = Joined(ss) \o tt[n + 1]
  BY <1>0, <1>1, JoinedMore
<1> QED BY <1>2, <1>3 DEF ListedIn, ss, tt

\* What the first records list begins what all of them list.
LEMMA ListedBegins ==
    ASSUME NEW x \in Inputs, NEW n \in 0 .. Len(x.records)
    PROVE  Begins(ListedIn(x, n), ListedIn(x, Len(x.records)))
<1>0. Len(x.records) \in Nat /\ n \in Nat /\ Len(x.records) \in 0 .. Len(x.records)
  BY InputsAssumption
<1> DEFINE ss == TablesOf(x, n)
           tt == TablesOf(x, Len(x.records))
           T == EntriesIn(x)
<1>1. Len(ss) = n /\ Len(tt) = Len(x.records) /\ \A j \in 1 .. Len(tt) : tt[j] \in Seq(T)
  BY <1>0, TablesType
<1>2. \A k \in 1 .. Len(ss) : ss[k] = tt[k]
  BY <1>0, <1>1 DEF TablesOf
<1>3. Len(ss) \in Nat /\ Len(tt) \in Nat /\ Len(ss) <= Len(tt)
  BY <1>0, <1>1
<1> HIDE DEF ss, tt, T
<1>4. \A j \in 1 .. Len(tt) : tt[j] \in Seq(T)
  BY <1>1
<1>5. Len(ss) \in Nat
  BY <1>3
<1>6. Len(tt) \in Nat
  BY <1>3
<1>7. Len(ss) <= Len(tt)
  BY <1>3
<1>8. Begins(Joined(ss), Joined(tt))
  BY ONLY <1>2, <1>4, <1>5, <1>6, <1>7, JoinedPrefix
<1> QED BY <1>8 DEF ListedIn, ss, tt

\* There are as many bytes as there are.
LEMMA SizeType == ASSUME NEW x \in Inputs PROVE Size(x) \in Nat
<1>0. Len(x.records) \in Nat /\ DOMAIN x.records = 1 .. Len(x.records) /\ x.cut \in Nat
  BY InputsAssumption
<1>1. Bytes(x.records) \in Nat
  <2> DEFINE sizes == [n \in DOMAIN x.records |-> TagBytes + Length(x.records[n])]
  <2>1. PICK i \in Nat \ {0} : i = Len(x.records) + 1
    BY <1>0
  <2>2. \A k \in 1 .. i - 1 : sizes[k] \in Nat
    BY <1>0, <2>1, RecordFacts, RecordWalkAssumption
  <2> HIDE DEF sizes
  <2>3. SumBefore(sizes, i) \in Nat
    BY <2>2, SumType
  <2> QED BY <2>1, <2>3 DEF Bytes, At, sizes
<1>2. x.cut \in Int /\ Bytes(x.records) \in Int
  BY <1>0, <1>1
<1>3. Min({x.cut, Bytes(x.records)}) \in {x.cut, Bytes(x.records)}
  BY <1>2, MinOfTwo
<1> QED BY <1>0, <1>1, <1>3 DEF Size
-----------------------------------------------------------------------------
(* The walk *)

TablesIn(x) ==
    {t \in [names : Seq(EntriesIn(x)), bytes : Nat] : t.bytes <= EntryBytes * Len(t.names)}

CutsIn(x) ==
    {c \in [at : DataOf(x), got : Nat, of : Nat] : c.of = Length(x.records[c.at]) /\ c.got <= c.of}

WalksOf(x) ==
    [pos : Nat, next : 1 .. Len(x.records) + 1, open : BOOLEAN, truncated : BOOLEAN,
     eofBefore : BOOLEAN, codec : {"none", x.records[1].body}, tables : Seq(TablesIn(x)), sums : Nat,
     attrs : BOOLEAN, sawData : BOOLEAN, data : Seq(DataOf(x)), cut : CutsIn(x) \cup {NoCut},
     cutFirst : BOOLEAN]

\* As long as no record was cut the entries are those of the tables so far, all of
\* them whole; they are always the first of the archive.
WalkOf(x, w) ==
    /\ w \in WalksOf(x)
    /\ w.open /\ w.next > 1 => Known(w)
    /\ w.open => EntriesOf(w) = ListedIn(x, w.next - 1)
    /\ Begins(EntriesOf(w), ListedIn(x, Len(x.records)))

\* The names of the tables, one table after the other.
NamesOf(w) == [n \in DOMAIN w.tables |-> NamesIn(w.tables[n])]

\* The whole entries of a table that may be cut are entries of the archive.
LEMMA NamesType ==
    ASSUME NEW x \in Inputs, NEW t \in TablesIn(x)
    PROVE  NamesIn(t) \in Seq(EntriesIn(x))
<1> DEFINE T == EntriesIn(x)
<1>1. t.names \in Seq(T) /\ t.bytes \in Nat /\ t.bytes <= 3 * Len(t.names)
  BY DEF TablesIn, EntryBytes
<1>2. PICK s \in Seq(T), m \in Nat : s = t.names /\ m = t.bytes /\ m <= 3 * Len(s)
  BY <1>1
<1> HIDE DEF T
<1>0. m \div 3 \in Nat /\ m \div 3 <= Len(s)
  <2>1. PICK n \in Nat : n = Len(s)
    OBVIOUS
  <2>2. m <= 3 * n
    BY <1>2, <2>1
  <2>3. m \div 3 \in Nat /\ m \div 3 <= n
    BY ONLY m \in Nat, n \in Nat, <2>2
  <2> QED BY <2>1, <2>3
<1>3. PICK q \in Nat : q = m \div 3 /\ q <= Len(s)
  BY <1>0
<1>4. SubSeq(s, 1, q) \in Seq(T)
  BY <1>3
<1> QED BY <1>2, <1>3, <1>4 DEF NamesIn, EntryBytes, T

\* So are those of a whole walk.
LEMMA EntriesType ==
    ASSUME NEW x \in Inputs, NEW w, w.tables \in Seq(TablesIn(x))
    PROVE  /\ EntriesOf(w) = Joined(NamesOf(w))
           /\ Len(NamesOf(w)) = Len(w.tables)
           /\ \A k \in 1 .. Len(w.tables) : NamesOf(w)[k] = NamesIn(w.tables[k])
           /\ EntriesOf(w) \in Seq(EntriesIn(x))
<1>1. DOMAIN w.tables = 1 .. Len(w.tables) /\ Len(w.tables) \in Nat
  OBVIOUS
<1>2. Len(NamesOf(w)) = Len(w.tables)
  BY <1>1 DEF NamesOf
<1>3. \A k \in 1 .. Len(w.tables) : NamesOf(w)[k] = NamesIn(w.tables[k])
  BY <1>1 DEF NamesOf
<1>4. \A k \in 1 .. Len(NamesOf(w)) : NamesOf(w)[k] \in Seq(EntriesIn(x))
  BY <1>2, <1>3, NamesType
<1>5. Len(NamesOf(w)) \in Nat
  BY <1>1, <1>2
<1>6. Joined(NamesOf(w)) \in Seq(EntriesIn(x))
  BY ONLY <1>4, <1>5, JoinedType
<1>7. EntriesOf(w) = Joined(NamesOf(w))
  BY DEF EntriesOf, NamesOf
<1> QED BY <1>2, <1>3, <1>6, <1>7

\* The entries are those of the tables, so they change only with them.
LEMMA EntriesSame ==
    ASSUME NEW w, NEW v, v.tables = w.tables
    PROVE  EntriesOf(v) = EntriesOf(w)
  BY DEF EntriesOf

\* One more table.
LEMMA EntriesMore ==
    ASSUME NEW x \in Inputs, NEW w, NEW v, NEW t \in TablesIn(x),
           w.tables \in Seq(TablesIn(x)), v.tables = Append(w.tables, t)
    PROVE  EntriesOf(v) = EntriesOf(w) \o NamesIn(t)
<1> DEFINE ss == NamesOf(w)
           tt == NamesOf(v)
           T == TablesIn(x)
<1>1. PICK n \in Nat : n = Len(w.tables)
  OBVIOUS
<1>2. /\ v.tables \in Seq(T) /\ Len(v.tables) = n + 1 /\ v.tables[n + 1] = t
      /\ \A k \in 1 .. n : v.tables[k] = w.tables[k]
  <2> HIDE DEF T
  <2> QED BY <1>1 DEF T
<1>3. Len(ss) = n /\ Len(tt) = n + 1 /\ tt[n + 1] = NamesIn(t) /\ \A k \in 1 .. n : tt[k] = ss[k]
  <2>1. Len(ss) = n /\ \A k \in 1 .. n : ss[k] = NamesIn(w.tables[k])
    BY <1>1, EntriesType
  <2>2. Len(tt) = n + 1 /\ \A k \in 1 .. n + 1 : tt[k] = NamesIn(v.tables[k])
    BY <1>2, EntriesType
  <2> HIDE DEF ss, tt
  <2>3. tt[n + 1] = NamesIn(t)
    BY <1>2, <2>2
  <2>4. \A k \in 1 .. n : tt[k] = ss[k]
    BY <1>2, <2>1, <2>2
  <2> QED BY <2>1, <2>2, <2>3, <2>4
<1>4. EntriesOf(w) = Joined(ss) /\ EntriesOf(v) = Joined(tt)
  BY <1>2, EntriesType
<1> HIDE DEF ss, tt
<1>5. Joined(tt) = Joined(ss) \o tt[n + 1]
  BY <1>3, JoinedMore
<1> QED BY <1>3, <1>4, <1>5

\* Nothing begins everything.
LEMMA NothingBegins == ASSUME NEW t, Len(t) \in Nat PROVE Begins(<<>>, t)
  BY DEF Begins

\* The walk before its first record has the invariant.
LEMMA WalkStarts == ASSUME NEW x \in Inputs PROVE WalkOf(x, StartOfWalk)
<1> DEFINE w == StartOfWalk
<1>0. Len(x.records) \in Nat
  BY InputsAssumption
<1>1. w \in WalksOf(x)
  <2>1. w.tables = <<>> /\ w.data = <<>> /\ w.next = 1 /\ w.cut = NoCut
    BY DEF StartOfWalk
  <2>2. w.next \in 1 .. Len(x.records) + 1
    BY <1>0, <2>1
  <2> QED BY <2>2 DEF WalksOf, StartOfWalk
<1>2. EntriesOf(w) = <<>>
  <2>1. w.tables = <<>>
    BY DEF StartOfWalk
  <2>2. Len(NamesOf(w)) = 0
    BY <2>1 DEF NamesOf
  <2>3. EntriesOf(w) = Joined(NamesOf(w))
    BY DEF EntriesOf, NamesOf
  <2> QED BY <2>2, <2>3, JoinedNone
<1>3. ListedIn(x, w.next - 1) = <<>>
  <2>1. w.next - 1 = 0
    BY DEF StartOfWalk
  <2>2. Len(TablesOf(x, 0)) = 0
    BY <1>0, TablesType
  <2> QED BY <2>1, <2>2, JoinedNone DEF ListedIn
<1>4. Begins(<<>>, ListedIn(x, Len(x.records)))
  <2>1. ListedIn(x, Len(x.records)) \in Seq(EntriesIn(x))
    BY <1>0, TablesType
  <2> QED BY <2>1, NothingBegins
<1>5. ~ (w.next > 1)
  BY DEF StartOfWalk
<1> HIDE DEF w
<1> QED BY <1>1, <1>2, <1>3, <1>4, <1>5 DEF WalkOf, w

\* What is known of the record that is read next.
LEMMA WalkFacts ==
    ASSUME NEW x \in Inputs, NEW w, WalkOf(x, w), More(x.records, Size(x), w)
    PROVE  /\ w \in WalksOf(x) /\ w.open
           /\ w.next \in 1 .. Len(x.records) /\ w.pos \in Nat
           /\ EntriesOf(w) = ListedIn(x, w.next - 1)
           /\ ~Known(w) =>
                  w.next = 1 /\ x.records[1].type = "codec" /\ x.records[1].body \in Families
<1>0. Len(x.records) \in Nat /\ DOMAIN x.records = 1 .. Len(x.records)
  BY InputsAssumption
<1>1. w \in WalksOf(x) /\ w.open /\ w.next <= Len(x.records)
  BY DEF WalkOf, More
<1>2. w.next \in 1 .. Len(x.records) /\ w.pos \in Nat
  BY <1>0, <1>1 DEF WalksOf
<1>3. ASSUME ~Known(w)
      PROVE  w.next = 1 /\ x.records[1].type = "codec" /\ x.records[1].body \in Families
  <2>1. w.next = 1
    BY <1>1, <1>2, <1>3 DEF WalkOf
  <2>2. x.records[1].type = "codec" /\ IsRecord(x.records[1])
    BY <1>0, <1>2, <2>1, InputsAssumption
  <2> QED BY <2>1, <2>2 DEF IsRecord
<1> QED BY <1>1, <1>2, <1>3 DEF WalkOf

\* A tag that is cut ends the walk and keeps it.
LEMMA TagCutKeeps ==
    ASSUME NEW x \in Inputs, NEW w, WalkOf(x, w), More(x.records, Size(x), w)
    PROVE  WalkOf(x, TagCut(w))
<1> DEFINE v == TagCut(w)
<1>1. w \in WalksOf(x) /\ Begins(EntriesOf(w), ListedIn(x, Len(x.records)))
  BY DEF WalkOf
<1>2. v \in WalksOf(x) /\ ~v.open /\ v.tables = w.tables
  BY <1>1 DEF WalksOf, TagCut
<1> HIDE DEF v
<1>3. EntriesOf(v) = EntriesOf(w)
  BY <1>2, EntriesSame
<1>4. WalkOf(x, v)
  BY <1>1, <1>2, <1>3 DEF WalkOf
<1> QED BY <1>4 DEF v

\* A table that was cut is the first one, and the names it has left begin the archive's.
LEMMA PayloadCutKeeps ==
    ASSUME NEW x \in Inputs, NEW w, WalkOf(x, w), More(x.records, Size(x), w),
           NEW got \in Nat, got <= Length(x.records[w.next])
    PROVE  WalkOf(x, PayloadCut(w, x.records[w.next], w.next, got))
<1> DEFINE r == x.records[w.next]
           v == PayloadCut(w, r, w.next, got)
<1>0. /\ w \in WalksOf(x) /\ w.open
      /\ w.next \in 1 .. Len(x.records) /\ w.pos \in Nat
      /\ EntriesOf(w) = ListedIn(x, w.next - 1)
  BY WalkFacts
<1>1. Begins(EntriesOf(w), ListedIn(x, Len(x.records)))
  BY DEF WalkOf
<1>2. /\ r.type = "table" => r.body \in Seq(EntriesIn(x)) /\ Length(r) = EntryBytes * Len(r.body)
      /\ Length(r) \in Nat /\ got <= Length(r)
  BY <1>0, RecordFacts
<1> DEFINE t == [names |-> r.body, bytes |-> got]
           first == r.type = "table" /\ Known(w) /\ w.tables = <<>> /\ got > 0
           inData == r.type = "data" /\ Known(w)
           c == IF inData THEN [at |-> w.next, got |-> got, of |-> Length(r)] ELSE w.cut
<1>3. v.tables = (IF first THEN <<t>> ELSE w.tables) /\ v.cut = c /\ ~v.open
  BY <1>0 DEF PayloadCut, WalksOf
<1>4. first => t \in TablesIn(x)
  BY <1>2 DEF TablesIn
<1>5. v \in WalksOf(x)
  <2>1. c \in CutsIn(x) \cup {NoCut}
    <3>1. CASE inData
      <4>1. w.next \in DataOf(x)
        BY <1>0, <3>1 DEF DataOf
      <4>2. c = [at |-> w.next, got |-> got, of |-> Length(x.records[w.next])]
        BY <3>1
      <4> HIDE DEF c, inData
      <4> QED BY <1>2, <4>1, <4>2 DEF CutsIn
    <3>2. CASE ~inData
      BY <1>0, <3>2 DEF WalksOf
    <3> QED BY <3>1, <3>2
  <2>2. (IF first THEN <<t>> ELSE w.tables) \in Seq(TablesIn(x))
    <3>1. w.tables \in Seq(TablesIn(x))
      BY <1>0 DEF WalksOf
    <3> HIDE DEF t, first
    <3> QED BY <1>4, <3>1
  <2>3. v = [w EXCEPT
               !.open = FALSE, !.truncated = TRUE,
               !.sawData = w.sawData \/ inData,
               !.eofBefore = w.data = <<>> /\
                   (~inData \/ (w.codec \in {"optimum", "cm"} /\ got < BlockHeader)),
               !.cutFirst = inData /\ w.data = <<>>,
               !.cut = c, !.tables = IF first THEN <<t>> ELSE w.tables]
    BY DEF PayloadCut
  <2> DEFINE ts == IF first THEN <<t>> ELSE w.tables
  <2> HIDE DEF v, c, inData, first, t, ts
  <2>4. ts \in Seq(TablesIn(x))
    BY <2>2 DEF ts
  <2>5. v = [w EXCEPT
               !.open = FALSE, !.truncated = TRUE,
               !.sawData = w.sawData \/ inData,
               !.eofBefore = w.data = <<>> /\
                   (~inData \/ (w.codec \in {"optimum", "cm"} /\ got < BlockHeader)),
               !.cutFirst = inData /\ w.data = <<>>,
               !.cut = c, !.tables = ts]
    BY <2>3 DEF ts
  <2>6. PICK saw \in BOOLEAN, before \in BOOLEAN, alone \in BOOLEAN :
          v = [w EXCEPT !.open = FALSE, !.truncated = TRUE, !.sawData = saw, !.eofBefore = before,
                        !.cutFirst = alone, !.cut = c, !.tables = ts]
    BY <2>5, Zenon
  <2>7. w \in WalksOf(x)
    BY <1>0
  <2> DEFINE u == [w EXCEPT !.open = FALSE, !.truncated = TRUE, !.sawData = saw]
  <2>8. u \in WalksOf(x)
    BY ONLY saw \in BOOLEAN, <2>7 DEF WalksOf
  <2>9. v = [u EXCEPT !.eofBefore = before, !.cutFirst = alone, !.cut = c, !.tables = ts]
    BY <2>6
  <2> HIDE DEF u
  <2> QED BY ONLY before \in BOOLEAN, alone \in BOOLEAN, <2>1, <2>4, <2>8, <2>9 DEF WalksOf
<1>6. Begins(EntriesOf(v), ListedIn(x, Len(x.records)))
  <2>1. CASE ~first
    <3>1. v.tables = w.tables
      BY <1>3, <2>1
    <3> HIDE DEF v
    <3> QED BY <1>1, <3>1, EntriesSame
  <2>2. CASE first
    <3>0. Len(x.records) \in Nat
      BY InputsAssumption
    <3>1. v.tables = Append(w.tables, t) /\ t \in TablesIn(x) /\ w.tables \in Seq(TablesIn(x))
      <4>1. v.tables = <<t>> /\ w.tables = <<>>
        BY <1>3, <2>2
      <4>2. t \in TablesIn(x)
        BY <1>4, <2>2
      <4> HIDE DEF v, t
      <4> QED BY <4>1, <4>2
    <3>2. EntriesOf(w) = <<>>
      <4>1. Len(NamesOf(w)) = 0
        BY <2>2 DEF NamesOf
      <4>2. EntriesOf(w) = Joined(NamesOf(w))
        BY DEF EntriesOf, NamesOf
      <4> QED BY <4>1, <4>2, JoinedNone
    <3>3. EntriesOf(v) = EntriesOf(w) \o NamesIn(t)
      <4> HIDE DEF v, t
      <4> QED BY <3>1, EntriesMore
    <3>4. ListedIn(x, w.next) = ListedIn(x, w.next - 1) \o r.body
      <4>1. PICK n \in Nat : n = w.next - 1 /\ n + 1 = w.next /\ n \in 0 .. Len(x.records) - 1
        BY <1>0, <3>0
      <4>2. ListedIn(x, n + 1) = ListedIn(x, n)
              \o (IF x.records[n + 1].type = "table" THEN x.records[n + 1].body ELSE <<>>)
        BY <4>1, ListedMore
      <4> QED BY <2>2, <4>1, <4>2
    <3>5. Begins(NamesIn(t), r.body) /\ NamesIn(t) \in Seq(EntriesIn(x))
      <4>1. NamesIn(t) \in Seq(EntriesIn(x))
        <5> HIDE DEF t
        <5> QED BY <3>1, NamesType
      <4>2. r.body \in Seq(EntriesIn(x)) /\ got <= 3 * Len(r.body)
        BY <1>2, <2>2 DEF EntryBytes
      <4>3. NamesIn(t) = SubSeq(r.body, 1, got \div 3)
        BY DEF NamesIn, EntryBytes
      <4>4. got \div 3 \in Nat /\ got \div 3 <= Len(r.body)
        <5>1. PICK n \in Nat : n = Len(r.body) /\ got <= 3 * n
          BY <4>2
        <5>2. got <= 3 * n
          BY <5>1
        <5>3. got \div 3 \in Nat /\ got \div 3 <= n
          BY ONLY got \in Nat, n \in Nat, <5>2
        <5> QED BY <5>1, <5>3
      <4>5. PICK q \in Nat : q = got \div 3 /\ q <= Len(r.body)
        BY <4>4
      <4>6. PICK b \in Seq(EntriesIn(x)) : b = r.body
        BY <4>2
      <4> HIDE DEF r, t
      <4>7. Len(SubSeq(b, 1, q)) = q /\ \A j \in 1 .. q : SubSeq(b, 1, q)[j] = b[j]
        BY <4>5, <4>6
      <4> QED BY <4>1, <4>3, <4>5, <4>6, <4>7 DEF Begins
    <3>6. NamesIn(t) = EntriesOf(v) /\ r.body = ListedIn(x, w.next)
      <4>1. PICK b \in Seq(EntriesIn(x)) : b = r.body
        BY <1>2, <2>2
      <4>2. PICK m \in Seq(EntriesIn(x)) : m = NamesIn(t)
        BY <3>5
      <4>3. <<>> \o b = b /\ <<>> \o m = m
        OBVIOUS
      <4> HIDE DEF v, t, r
      <4> QED BY <1>0, <3>2, <3>3, <3>4, <4>1, <4>2, <4>3
    <3>7. Begins(EntriesOf(v), ListedIn(x, w.next))
      BY <3>5, <3>6
    <3>8. /\ EntriesOf(v) \in Seq(EntriesIn(x)) /\ ListedIn(x, w.next) \in Seq(EntriesIn(x))
          /\ ListedIn(x, Len(x.records)) \in Seq(EntriesIn(x))
          /\ Begins(ListedIn(x, w.next), ListedIn(x, Len(x.records)))
      <4>1. w.next \in 0 .. Len(x.records) /\ Len(x.records) \in 0 .. Len(x.records)
        BY <1>0, <3>0
      <4> HIDE DEF v, t, r
      <4> QED BY <3>5, <3>6, <4>1, TablesType, ListedBegins
    <3> HIDE DEF v, t, r
    <3> QED BY <3>7, <3>8, BeginsThrough
  <2> QED BY <2>1, <2>2
<1>7. ~v.open
  BY <1>3
<1> HIDE DEF v
<1>8. WalkOf(x, v)
  BY <1>5, <1>6, <1>7 DEF WalkOf
<1> QED BY <1>8 DEF v

\* A record that is whole, with which the walk goes on behind it.
LEMMA WholeKeeps ==
    ASSUME NEW x \in Inputs, NEW w, WalkOf(x, w), More(x.records, Size(x), w), NEW behind \in Nat
    PROVE  WalkOf(x, [WholeRecord(w, x.records[w.next], w.next) EXCEPT !.pos = behind, !.next = w.next + 1])
<1> DEFINE r == x.records[w.next]
           v == [WholeRecord(w, r, w.next) EXCEPT !.pos = behind, !.next = w.next + 1]
<1>0. /\ w \in WalksOf(x) /\ w.open
      /\ w.next \in 1 .. Len(x.records) /\ w.pos \in Nat
      /\ EntriesOf(w) = ListedIn(x, w.next - 1)
      /\ ~Known(w) => w.next = 1 /\ x.records[1].type = "codec" /\ x.records[1].body \in Families
  BY WalkFacts
<1>1. /\ Length(r) \in Nat
      /\ r.type \in {"codec", "table", "times", "sums", "data"}
      /\ r.type = "table" => r.body \in Seq(EntriesIn(x)) /\ Length(r) = EntryBytes * Len(r.body)
      /\ r.type = "sums" => Len(r.body) \in Nat
  BY <1>0, RecordFacts
<1>2. Len(x.records) \in Nat /\ w.next + 1 \in 1 .. Len(x.records) + 1
  BY <1>0, InputsAssumption
<1>3. ListedIn(x, w.next) =
        ListedIn(x, w.next - 1) \o (IF r.type = "table" THEN r.body ELSE <<>>)
  <2>1. PICK n \in Nat : n = w.next - 1 /\ n + 1 = w.next /\ n \in 0 .. Len(x.records) - 1
    BY <1>0, <1>2
  <2>2. ListedIn(x, n + 1) = ListedIn(x, n)
          \o (IF x.records[n + 1].type = "table" THEN x.records[n + 1].body ELSE <<>>)
    BY <2>1, ListedMore
  <2> QED BY <2>1, <2>2
<1>4. w.next - 1 \in 0 .. Len(x.records) /\ w.next \in 0 .. Len(x.records)
  BY <1>0, <1>2
<1>5. ListedIn(x, w.next - 1) \in Seq(EntriesIn(x)) /\ ListedIn(x, w.next) \in Seq(EntriesIn(x))
  BY <1>4, TablesType
<1>6. /\ v \in WalksOf(x) /\ v.open /\ v.next = w.next + 1 /\ Known(v)
      /\ EntriesOf(v) = ListedIn(x, w.next)
  <2>a. r.type # "table" => ListedIn(x, w.next) = ListedIn(x, w.next - 1)
    <3>1. PICK l \in Seq(EntriesIn(x)) : l = ListedIn(x, w.next - 1)
      BY <1>5
    <3>2. l \o <<>> = l
      OBVIOUS
    <3> HIDE DEF r
    <3> QED BY <1>3, <3>1, <3>2
  <2>1. CASE r.type = "codec"
    <3> DEFINE c == IF Known(w) THEN w.codec ELSE r.body
    <3>1. v = [w EXCEPT !.codec = c, !.pos = behind, !.next = w.next + 1]
      <4>1. WholeRecord(w, r, w.next) = [w EXCEPT !.codec = c]
        BY <2>1 DEF WholeRecord
      <4> HIDE DEF c, r
      <4> QED BY <1>0, <4>1 DEF WalksOf
    <3>2. c \in {"none", x.records[1].body} /\ c # "none"
      <4>1. CASE Known(w)
        BY <1>0, <4>1 DEF WalksOf, Known
      <4>2. CASE ~Known(w)
        BY <1>0, <4>2 DEF Families
      <4> QED BY <4>1, <4>2
    <3> HIDE DEF c, v
    <3>3. v \in WalksOf(x) /\ v.open /\ v.next = w.next + 1 /\ v.codec = c /\ v.tables = w.tables
      BY <1>0, <1>2, <3>1, <3>2 DEF WalksOf
    <3>4. EntriesOf(v) = EntriesOf(w)
      BY <3>3, EntriesSame
    <3> QED BY <1>0, <2>1, <2>a, <3>2, <3>3, <3>4 DEF Known
  <2>b. r.type # "codec" => Known(w)
    BY <1>0
  <2>2. CASE r.type = "table"
    <3> DEFINE t == [names |-> r.body, bytes |-> Length(r)]
    <3>1. v = [w EXCEPT !.tables = Append(w.tables, t), !.pos = behind, !.next = w.next + 1]
      BY <1>0, <2>2, <2>b DEF WholeRecord, WalksOf
    <3>2. t \in TablesIn(x)
      BY <1>1, <2>2 DEF TablesIn, EntryBytes
    <3>3. NamesIn(t) = r.body
      <4>1. PICK b \in Seq(EntriesIn(x)) : b = r.body /\ Length(r) = 3 * Len(b)
        BY <1>1, <2>2 DEF EntryBytes
      <4>2. PICK n \in Nat : n = Len(b)
        OBVIOUS
      <4>3. (3 * n) \div 3 = n
        BY ONLY n \in Nat
      <4>4. NamesIn(t) = SubSeq(b, 1, (3 * n) \div 3)
        BY <4>1, <4>2 DEF NamesIn, EntryBytes
      <4>5. SubSeq(b, 1, n) = b
        BY <4>2
      <4> QED BY <4>1, <4>3, <4>4, <4>5
    <3> HIDE DEF t, v
    <3>4. w.tables \in Seq(TablesIn(x)) /\ Append(w.tables, t) \in Seq(TablesIn(x))
      BY <1>0, <3>2 DEF WalksOf
    <3>5. v \in WalksOf(x)
      <4>1. PICK ts \in Seq(TablesIn(x)) : ts = Append(w.tables, t)
        BY <3>4
      <4>2. v = [w EXCEPT !.tables = ts, !.pos = behind, !.next = w.next + 1]
        BY <3>1, <4>1
      <4>3. w \in WalksOf(x)
        BY <1>0
      <4> QED BY ONLY behind \in Nat, ts \in Seq(TablesIn(x)), <1>2, <4>2, <4>3 DEF WalksOf
    <3>6. /\ v.tables = Append(w.tables, t) /\ v.open /\ v.next = w.next + 1
          /\ v.codec = w.codec
      BY <1>0, <3>1 DEF WalksOf
    <3>7. EntriesOf(v) = EntriesOf(w) \o r.body
      <4>1. EntriesOf(v) = EntriesOf(w) \o NamesIn(t)
        BY <3>2, <3>4, <3>6, EntriesMore
      <4> QED BY <3>3, <4>1
    <3> QED BY <1>0, <1>3, <2>2, <2>b, <3>5, <3>6, <3>7 DEF Known
  <2>3. CASE r.type \in {"times", "sums"}
    <3>1. PICK n \in Nat : v = [w EXCEPT !.attrs = TRUE, !.sums = n, !.pos = behind, !.next = w.next + 1]
      <4>1. CASE r.type = "times"
        <5>1. v = [w EXCEPT !.attrs = TRUE, !.sums = w.sums, !.pos = behind, !.next = w.next + 1]
          BY <1>0, <2>b, <4>1 DEF WholeRecord, WalksOf
        <5>2. w.sums \in Nat
          BY <1>0 DEF WalksOf
        <5> HIDE DEF v
        <5> QED BY <5>1, <5>2
      <4>2. CASE r.type = "sums"
        <5>1. v = [w EXCEPT !.attrs = TRUE, !.sums = w.sums + Len(r.body), !.pos = behind,
                            !.next = w.next + 1]
          BY <1>0, <2>b, <4>2 DEF WholeRecord, WalksOf
        <5>2. w.sums + Len(r.body) \in Nat
          <6>1. w.sums \in Nat
            BY <1>0 DEF WalksOf
          <6>2. Len(r.body) \in Nat
            BY <1>1, <4>2
          <6> HIDE DEF r, v
          <6> QED BY <6>1, <6>2
        <5> HIDE DEF v
        <5> QED BY <5>1, <5>2
      <4> QED BY <2>3, <4>1, <4>2
    <3> HIDE DEF v
    <3>2. v \in WalksOf(x) /\ v.open /\ v.next = w.next + 1 /\ v.codec = w.codec /\ v.tables = w.tables
      BY <1>0, <1>2, <3>1 DEF WalksOf
    <3>3. EntriesOf(v) = EntriesOf(w)
      BY <3>2, EntriesSame
    <3> QED BY <1>0, <2>3, <2>a, <2>b, <3>2, <3>3 DEF Known
  <2>4. CASE r.type = "data"
    <3>1. v = [w EXCEPT !.sawData = TRUE, !.data = Append(w.data, w.next), !.pos = behind,
                        !.next = w.next + 1]
      BY <1>0, <2>4, <2>b DEF WholeRecord, WalksOf
    <3>2. w.next \in DataOf(x)
      BY <1>0, <2>4 DEF DataOf
    <3>3. PICK d \in Seq(DataOf(x)) : d = Append(w.data, w.next)
      <4>1. w.data \in Seq(DataOf(x))
        BY <1>0 DEF WalksOf
      <4>2. PICK before \in Seq(DataOf(x)), k \in DataOf(x) : before = w.data /\ k = w.next
        BY <3>2, <4>1
      <4>3. Append(before, k) \in Seq(DataOf(x))
        OBVIOUS
      <4> HIDE DEF r, v
      <4> QED BY <4>2, <4>3
    <3>4. v = [w EXCEPT !.sawData = TRUE, !.data = d, !.pos = behind, !.next = w.next + 1]
      BY <3>1, <3>3
    <3> HIDE DEF v
    <3>5. v \in WalksOf(x) /\ v.open /\ v.next = w.next + 1 /\ v.codec = w.codec /\ v.tables = w.tables
      <4>1. w \in WalksOf(x) /\ w.open
        BY <1>0
      <4> QED BY ONLY behind \in Nat, d \in Seq(DataOf(x)), <1>2, <3>4, <4>1 DEF WalksOf
    <3>6. EntriesOf(v) = EntriesOf(w)
      BY <3>5, EntriesSame
    <3> QED BY <1>0, <2>4, <2>a, <2>b, <3>5, <3>6 DEF Known
  <2> QED BY <1>1, <2>1, <2>2, <2>3, <2>4
<1>7. Begins(EntriesOf(v), ListedIn(x, Len(x.records)))
  <2> HIDE DEF v
  <2> QED BY <1>4, <1>6, ListedBegins
<1>8. v.next - 1 = w.next
  <2> HIDE DEF v
  <2> QED BY <1>0, <1>2, <1>6
<1> HIDE DEF v
<1>9. WalkOf(x, v)
  BY <1>6, <1>7, <1>8 DEF WalkOf
<1> QED BY <1>9 DEF v

\* One turn of the walk.
LEMMA WalkGoesOn ==
    ASSUME NEW x \in Inputs, NEW w, WalkOf(x, w), More(x.records, Size(x), w)
    PROVE  WalkOf(x, WalkRecord(x.records, Size(x), w))
<1> DEFINE r == x.records[w.next]
           body == w.pos + TagBytes
           behind == body + Length(r)
<1>0. w.next \in 1 .. Len(x.records) /\ w.pos \in Nat
  BY WalkFacts
<1>1. body \in Nat /\ Length(r) \in Nat /\ behind \in Nat /\ Size(x) \in Nat
  <2>1. Length(r) \in Nat
    BY <1>0, RecordFacts
  <2>2. Size(x) \in Nat
    BY SizeType
  <2> HIDE DEF r
  <2> QED BY <1>0, <2>1, <2>2, RecordWalkAssumption
<1>2. CASE body > Size(x)
  <2>1. WalkRecord(x.records, Size(x), w) = TagCut(w)
    BY <1>1, <1>2 DEF WalkRecord
  <2> QED BY <2>1, TagCutKeeps
<1>3. CASE body <= Size(x) /\ behind > Size(x)
  <2>1. WalkRecord(x.records, Size(x), w) = PayloadCut(w, r, w.next, Size(x) - body)
    BY <1>1, <1>3 DEF WalkRecord
  <2>2. PICK got \in Nat : got = Size(x) - body /\ got <= Length(r)
    BY <1>1, <1>3
  <2>3. WalkOf(x, PayloadCut(w, x.records[w.next], w.next, got))
    BY <2>2, PayloadCutKeeps
  <2> QED BY <2>1, <2>2, <2>3
<1>4. CASE behind <= Size(x)
  <2>1. WalkRecord(x.records, Size(x), w) =
          [WholeRecord(w, x.records[w.next], w.next) EXCEPT !.pos = behind, !.next = w.next + 1]
    BY <1>1, <1>4 DEF WalkRecord
  <2>2. PICK e \in Nat : e = behind
    BY <1>1
  <2>3. WalkOf(x, [WholeRecord(w, x.records[w.next], w.next) EXCEPT !.pos = e, !.next = w.next + 1])
    BY WholeKeeps
  <2> HIDE DEF behind
  <2> QED BY <2>1, <2>2, <2>3
<1> QED BY <1>1, <1>2, <1>3, <1>4
-----------------------------------------------------------------------------
(* What the walk leaves to the driver *)

\* Where an entry starts in the output.
LEMMA StartType ==
    ASSUME NEW x \in Inputs, NEW entries \in Seq(EntriesIn(x)), NEW j \in 1 .. Len(entries) + 1
    PROVE  StartOf(entries, j) \in Nat
<1> DEFINE sizes == [n \in DOMAIN entries |-> entries[n].size]
<1>1. j \in Nat \ {0} /\ \A k \in 1 .. j - 1 : sizes[k] \in Nat
  BY DEF EntriesIn, Listing
<1> HIDE DEF sizes
<1>2. SumBefore(sizes, j) \in Nat
  BY <1>1, SumType
<1> QED BY <1>2 DEF StartOf, sizes

\* How long the output is.
LEMMA SizeOfType ==
    ASSUME NEW x \in Inputs, NEW entries \in Seq(EntriesIn(x))
    PROVE  SizeOf(entries) \in Nat
<1>1. PICK j \in 1 .. Len(entries) + 1 : j = Len(entries) + 1
  OBVIOUS
<1>2. StartOf(entries, j) \in Nat
  BY StartType
<1> QED BY <1>1, <1>2 DEF SizeOf

\* Where an entry starts depends on the entries before it.
LEMMA StartSame ==
    ASSUME NEW x \in Inputs, NEW s \in Seq(EntriesIn(x)), NEW t \in Seq(EntriesIn(x)), Begins(s, t),
           NEW j \in 1 .. Len(s)
    PROVE  StartOf(s, j) = StartOf(t, j)
<1> DEFINE a == [n \in DOMAIN s |-> s[n].size]
           b == [n \in DOMAIN t |-> t[n].size]
<1>1. j \in Nat \ {0} /\ \A k \in 1 .. j - 1 : a[k] = b[k]
  <2>1. PICK l \in Nat, m \in Nat : /\ l = Len(s) /\ DOMAIN s = 1 .. l /\ j \in 1 .. l
                                   /\ m = Len(t) /\ DOMAIN t = 1 .. m
    OBVIOUS
  <2>2. l <= m /\ \A k \in 1 .. l : s[k] = t[k]
    BY <2>1 DEF Begins
  <2> QED BY <2>1, <2>2
<1> HIDE DEF a, b
<1>2. SumBefore(a, j) = SumBefore(b, j)
  BY <1>1, SumSame
<1> QED BY <1>2 DEF StartOf, a, b

\* A data record, damaged or not, holds units, as many as it should.
LEMMA BodyType ==
    ASSUME NEW x \in Inputs, NEW j \in DataOf(x)
    PROVE  /\ Records(x)[j].body \in Seq(Int)
           /\ Len(Records(x)[j].body) = Len(x.records[j].body)
           /\ x.records[1].body = "store" => Length(x.records[j]) = Len(x.records[j].body)
<1>1. j \in DOMAIN x.records /\ j \in 1 .. Len(x.records) /\ x.records[j].type = "data"
  BY InputsAssumption DEF DataOf
<1>2. x.records[j].body \in Seq(Int)
  BY <1>1, RecordFacts
<1>3. AllWrong(x.records[j].body) \in Seq(Int)
      /\ Len(AllWrong(x.records[j].body)) = Len(x.records[j].body)
  <2>1. PICK b \in Seq(Int) : b = x.records[j].body
    BY <1>2
  <2>2. AllWrong(b) \in Seq(Int) /\ Len(AllWrong(b)) = Len(b)
    BY DEF AllWrong, BadUnit
  <2> QED BY <2>1, <2>2
<1>4. \/ Records(x)[j].body = x.records[j].body
      \/ Records(x)[j].body = AllWrong(x.records[j].body)
  <2> DEFINE r == x.records[j]
  <2>1. Records(x)[j] = IF j = x.damaged /\ x.records[1].body = "store"
                        THEN [r EXCEPT !.body = AllWrong(r.body)] ELSE r
    BY <1>1 DEF Records
  <2>2. [r EXCEPT !.body = AllWrong(r.body)].body \in {r.body, AllWrong(r.body)}
    OBVIOUS
  <2> HIDE DEF r
  <2> QED BY <2>1, <2>2 DEF r
<1>5. x.records[1].body = "store" => x.records[j].packed = Len(x.records[j].body)
  BY <1>1, InputsAssumption
<1>6. Length(x.records[j]) = x.records[j].packed
  BY <1>1 DEF Length
<1> QED BY <1>2, <1>3, <1>4, <1>5, <1>6

\* The data records of a stored archive that are whole are units, and so is what becomes
\* of one that was cut, which is taken at its full length.
LEMMA StoredParts ==
    ASSUME NEW x \in Inputs, NEW w \in WalksOf(x), w.codec = "store"
    PROVE  /\ WholeUnits(Records(x), w) \in Seq(Int) /\ CutUnits(Records(x), w) \in Seq(Int)
           /\ w.cut # NoCut => Len(CutUnits(Records(x), w)) = Len(x.records[w.cut.at].body)
<1> DEFINE records == Records(x)
<1>1. w.data \in Seq(DataOf(x)) /\ w.cut \in CutsIn(x) \cup {NoCut} /\ x.records[1].body = "store"
  BY DEF WalksOf
<1>2. \A k \in 1 .. Len(w.data) : w.data[k] \in DataOf(x) /\ records[w.data[k]].body \in Seq(Int)
  BY <1>1, BodyType
<1>3. WholeUnits(records, w) \in Seq(Int)
  <2> DEFINE ss == [n \in DOMAIN w.data |-> records[w.data[n]].body]
  <2>1. Len(ss) \in Nat /\ \A k \in 1 .. Len(ss) : ss[k] \in Seq(Int)
    <3> HIDE DEF records
    <3> QED BY <1>1, <1>2
  <2> HIDE DEF ss
  <2>2. Joined(ss) \in Seq(Int)
    BY <2>1, JoinedType
  <2> QED BY <2>2 DEF WholeUnits, ss
<1>4. ASSUME NEW o \in Nat \ {0} PROVE StaleUnit(records, w, o) \in Int
  <2> DEFINE long == {k \in DOMAIN w.data : Len(records[w.data[k]].body) >= o}
  <2>1. CASE long = {}
    <3>1. StaleUnit(records, w, o) = Unit0
      BY ONLY <2>1 DEF StaleUnit
    <3> QED BY <3>1 DEF Unit0
  <2>2. CASE long # {}
    <3>1. PICK m \in Nat : m = Len(w.data) /\ DOMAIN w.data = 1 .. m
      BY <1>1
    <3>2. long \in SUBSET Nat /\ \A n \in long : n <= m
      BY <3>1
    <3> HIDE DEF long
    <3>3. Max(long) \in long
      BY <2>2, <3>2, MaxOfBounded
    <3>4. PICK k \in 1 .. m : k = Max(long) /\ Len(records[w.data[k]].body) >= o
      BY <3>1, <3>3 DEF long
    <3>5. PICK b \in Seq(Int) : b = records[w.data[k]].body
      BY <1>2, <3>1
    <3>6. b[o] \in Int
      BY <3>4, <3>5
    <3>7. StaleUnit(records, w, o) = b[o]
      BY <2>2, <3>4, <3>5 DEF StaleUnit, long
    <3> QED BY <3>6, <3>7
  <2> QED BY <2>1, <2>2
<1>5. /\ CutUnits(records, w) \in Seq(Int)
      /\ w.cut # NoCut => Len(CutUnits(records, w)) = Len(x.records[w.cut.at].body)
  <2>1. CASE w.cut = NoCut
    BY <2>1 DEF CutUnits
  <2>2. CASE w.cut # NoCut
    <3>1. w.cut.at \in DataOf(x) /\ w.cut.of = Length(x.records[w.cut.at]) /\ w.cut.got <= w.cut.of
          /\ w.cut.of \in Nat /\ w.cut.got \in Nat
      BY <1>1, <2>2 DEF CutsIn
    <3>2. PICK b \in Seq(Int) : b = records[w.cut.at].body /\ Len(b) = w.cut.of
      BY <1>1, <3>1, BodyType
    <3>3. PICK of \in Nat, got \in Nat : of = w.cut.of /\ got = w.cut.got /\ got <= of
      BY <3>1
    <3> DEFINE unit(o) == IF o <= got THEN b[o] ELSE StaleUnit(records, w, o)
    <3>4. \A o \in 1 .. of : unit(o) \in Int
      BY <1>4, <3>2, <3>3
    <3>5. CutUnits(records, w) = [o \in 1 .. of |-> unit(o)]
      BY <2>2, <3>2, <3>3 DEF CutUnits
    <3> HIDE DEF unit, records
    <3>6. [o \in 1 .. of |-> unit(o)] \in Seq(Int) /\ Len([o \in 1 .. of |-> unit(o)]) = of
      BY <3>4
    <3>7. of = Len(x.records[w.cut.at].body)
      BY <1>1, <3>1, <3>3, BodyType
    <3> QED BY <3>5, <3>6, <3>7
  <2> QED BY <2>1, <2>2
<1> QED BY <1>3, <1>5

\* What is read of a stored archive is units, no more than its files have.
LEMMA StoredType ==
    ASSUME NEW x \in Inputs, NEW w \in WalksOf(x), w.codec = "store"
    PROVE  /\ StoredUnits(Records(x), w) \in Seq(Int)
           /\ Len(StoredUnits(Records(x), w)) <= SizeOf(EntriesOf(w))
           /\ Len(StoredUnits(Records(x), w)) <=
                 Len(WholeUnits(Records(x), w)) + Len(CutUnits(Records(x), w))
<1> DEFINE records == Records(x)
<1>1. WholeUnits(records, w) \in Seq(Int)
  BY StoredParts
<1>2. CutUnits(records, w) \in Seq(Int)
  BY StoredParts
<1>3. SizeOf(EntriesOf(w)) \in Nat
  <2>1. EntriesOf(w) \in Seq(EntriesIn(x))
    BY EntriesType DEF WalksOf
  <2> QED BY <2>1, SizeOfType
<1>4. PICK us \in Seq(Int), n \in Nat :
          /\ us = WholeUnits(records, w) \o CutUnits(records, w) /\ n = SizeOf(EntriesOf(w))
          /\ Len(us) = Len(WholeUnits(records, w)) + Len(CutUnits(records, w))
  <2>1. PICK a \in Seq(Int), b \in Seq(Int) : a = WholeUnits(records, w) /\ b = CutUnits(records, w)
    BY <1>1, <1>2
  <2>2. a \o b \in Seq(Int) /\ Len(a \o b) = Len(a) + Len(b)
    OBVIOUS
  <2> HIDE DEF records
  <2> QED BY <1>3, <2>1, <2>2
<1>5. Min({Len(us), n}) = IF Len(us) <= n THEN Len(us) ELSE n
  BY MinOfTwo
<1>6. PICK m \in Nat : m = Min({Len(us), n}) /\ m <= Len(us) /\ m <= n
  BY <1>5
<1>7. SubSeq(us, 1, m) \in Seq(Int) /\ Len(SubSeq(us, 1, m)) = m
  <2>1. m <= Len(us)
    BY <1>6
  <2> QED BY ONLY us \in Seq(Int), m \in Nat, <2>1
<1> QED BY <1>4, <1>6, <1>7 DEF StoredUnits

BlocksType == Seq([units : Seq(Int), may : SUBSET Outcomes])

\* Every data record becomes a block, the stump at their end another.
LEMMA BlocksAre ==
    ASSUME NEW x \in Inputs, NEW w \in WalksOf(x), Known(w), w.codec # "store"
    PROVE  Blocks(x, w) \in BlocksType
<1> DEFINE B == [units : Seq(Int), may : SUBSET Outcomes]
           whole == [j \in DOMAIN w.data |-> [units |-> x.records[w.data[j]].body,
                                              may |-> IF w.data[j] = x.damaged THEN {x.how} ELSE {"right"}]]
           stump == IF w.cut = NoCut \/ w.data = <<>> \/ StumpOutcomes(w) = {} THEN <<>>
                    ELSE <<[units |-> x.records[w.cut.at].body, may |-> StumpOutcomes(w)]>>
<1>0. /\ w.data \in Seq(DataOf(x)) /\ w.cut \in CutsIn(x) \cup {NoCut}
      /\ w.codec \in {"none", x.records[1].body}
  BY DEF WalksOf
<1>1. \A j \in DataOf(x) : x.records[j].body \in Seq(Int)
  BY RecordFacts DEF DataOf
<1>2. x.how \in Outcomes /\ "right" \in Outcomes
  BY InputsAssumption DEF Outcomes
<1>3. whole \in Seq(B)
  <2>1. \A j \in DOMAIN w.data : w.data[j] \in DataOf(x)
    BY <1>0
  <2>2. \A j \in DOMAIN w.data : whole[j] \in B
    BY <1>1, <1>2, <2>1
  <2>3. PICK n \in Nat : DOMAIN w.data = 1 .. n
    BY <1>0
  <2> DEFINE f(j) == [units |-> x.records[w.data[j]].body,
                      may |-> IF w.data[j] = x.damaged THEN {x.how} ELSE {"right"}]
  <2>4. whole = [j \in 1 .. n |-> f(j)] /\ \A j \in 1 .. n : f(j) \in B
    BY <2>2, <2>3
  <2> HIDE DEF whole, f, B
  <2>5. [j \in 1 .. n |-> f(j)] \in Seq(B)
    BY <2>4
  <2> QED BY <2>4, <2>5
<1>4. StumpOutcomes(w) \subseteq Outcomes
  <2>1. w.codec \in {"lzpf", "lzhd", "optimum", "cm"} \/ w.codec \notin Families
    BY DEF Families
  <2>2. w.codec \in Families
    <3>1. w.codec = x.records[1].body /\ w.codec # "none"
      BY <1>0 DEF Known
    <3>2. 1 \in DOMAIN x.records /\ x.records[1].type = "codec"
      BY InputsAssumption
    <3>3. x.records[1].body \in Families
      BY <3>2, InputsAssumption DEF IsRecord
    <3> QED BY <3>1, <3>3
  <2> QED BY <2>1, <2>2 DEF StumpOutcomes, Outcomes
<1>5. stump \in Seq(B)
  <2>1. CASE w.cut = NoCut \/ w.data = <<>> \/ StumpOutcomes(w) = {}
    BY <2>1
  <2>2. CASE ~ (w.cut = NoCut \/ w.data = <<>> \/ StumpOutcomes(w) = {})
    <3>1. w.cut.at \in DataOf(x)
      BY <1>0, <2>2 DEF CutsIn
    <3> DEFINE b == [units |-> x.records[w.cut.at].body, may |-> StumpOutcomes(w)]
    <3>2. b \in B
      BY <1>1, <1>4, <3>1
    <3>3. stump = <<b>>
      BY <2>2
    <3> HIDE DEF b, B, stump
    <3> QED BY <3>2, <3>3
  <2> QED BY <2>1, <2>2
<1>6. Blocks(x, w) = whole \o stump
  BY DEF Blocks
<1> HIDE DEF whole, stump, B
<1>7. Blocks(x, w) \in Seq(B)
  BY <1>3, <1>5, <1>6
<1> QED BY <1>7 DEF B, BlocksType

\* A parser accepts only an archive whose codec it has seen.
LEMMA AcceptedKnown == ASSUME NEW x, NEW n, NEW w, Accepted(x, n, w) PROVE Known(w)
  BY DEF Accepted, NoFiles

\* What the driver is handed: entries that begin the archive's, and a checksum for one
\* of them only if it can be told.
LEMMA ContextIs ==
    ASSUME NEW x \in Inputs, NEW w, WalkOf(x, w), Known(w), NEW found \in BOOLEAN
    PROVE  LET c == Context(x, w, found)
           IN /\ c.entries \in Seq(EntriesIn(x)) /\ Begins(c.entries, ListedIn(x, Len(x.records)))
              /\ c.entries = EntriesOf(w) /\ c.total = SizeOf(c.entries) /\ c.total \in Nat
              /\ c.codec = w.codec
              /\ c.sums \in Nat /\ (c.sums > 0 => c.verifies)
              /\ c.blocks \in BlocksType
<1> DEFINE c == Context(x, w, found)
           es == EntriesOf(w)
<1>0. w \in WalksOf(x) /\ Begins(es, ListedIn(x, Len(x.records)))
  BY DEF WalkOf
<1>1. es \in Seq(EntriesIn(x))
  BY <1>0, EntriesType DEF WalksOf
<1>2. SizeOf(es) \in Nat
  BY <1>1, SizeOfType
<1>3. c.entries = es /\ c.total = SizeOf(es) /\ c.codec = w.codec
  BY DEF Context
<1>4. c.sums \in Nat /\ (c.sums > 0 => c.verifies)
  <2> DEFINE H == {j \in DOMAIN es : HasSum(w, j)}
  <2>1. c.sums = Cardinality(H) /\ c.verifies = Verifies(w)
    BY DEF Context
  <2>2. IsFiniteSet(H)
    <3>1. PICK n \in Nat : DOMAIN es = 1 .. n
      BY <1>1
    <3>2. IsFiniteSet(1 .. n)
      <4>1. 1 \in Int /\ n \in Int
        OBVIOUS
      <4> QED BY <4>1, FS_Interval
    <3>3. H \subseteq 1 .. n
      BY <3>1
    <3> HIDE DEF H
    <3> QED BY <3>2, <3>3, FS_Subset
  <2>3. Cardinality(H) \in Nat
    <3> HIDE DEF H
    <3> QED BY <2>2, FS_CardinalityType
  <2>4. ASSUME c.sums > 0 PROVE c.verifies
    <3>1. H # {}
      <4>1. Cardinality({}) = 0
        BY FS_EmptySet
      <4> HIDE DEF H, c
      <4> QED BY <2>1, <2>3, <2>4, <4>1
    <3>2. AttributesRead(w)
      BY <3>1 DEF HasSum
    <3> QED BY <2>1, <3>2 DEF Verifies
  <2> HIDE DEF H, c
  <2> QED BY <2>1, <2>3, <2>4
<1>5. c.blocks \in BlocksType
  <2>1. c.blocks = IF found /\ w.codec # "store" THEN Blocks(x, w) ELSE <<>>
    BY DEF Context
  <2>2. <<>> \in BlocksType
    BY DEF BlocksType
  <2>3. w.codec # "store" => Blocks(x, w) \in BlocksType
    BY <1>0, BlocksAre
  <2> HIDE DEF c
  <2> QED BY <2>1, <2>2, <2>3
<1> HIDE DEF c, es
<1> QED BY <1>0, <1>1, <1>2, <1>3, <1>4, <1>5 DEF c, es
-----------------------------------------------------------------------------
(* The inductive invariant *)

DecoderTypes ==
    /\ sink \in BOOLEAN /\ (sink => UsesSink /\ pc # "open")
    /\ engine \in {"none", "lzpf", "lzhd", "optimum", "cm"}
    /\ pc \in {"block", "ended"} => engine # "none"
    /\ out \in Seq(Int) /\ Len(out) <= ctx.total
    /\ blockAt \in 1 .. Len(ctx.blocks) + 1
    /\ end \in {"ok", "eof", "fail", "fatal"} /\ err \in {"none", "eof", "fail", "fatal"}

FileTypes ==
    /\ cursor \in 1 .. Len(ctx.entries) + 1
    /\ yesToAll \in BOOLEAN /\ failed \in Nat /\ refused \subseteq FilesOf(in)
    /\ disk \in [FilesOf(in) -> [new : BOOLEAN, there : BOOLEAN, data : Seq(Int)]]

EndTypes ==
    /\ pc \in {"parse", "open", "block", "ended", "copy", "ask", "done"}
    /\ said \in {"nothing", "refused", "footer", "eof", "code", "fatal"}
    /\ rc \in {0, 1, 2, 255}

\* What the driver was handed: nothing while the archive is parsed, and no file is
\* written then.
Handed ==
    /\ ctx.entries \in Seq(EntriesIn(in)) /\ Begins(ctx.entries, ListedIn(in, Len(in.records)))
    /\ ctx.total \in Nat /\ ctx.sums \in Nat /\ (ctx.sums > 0 => ctx.verifies)
    /\ ctx.blocks \in BlocksType

Fresh ==
    pc = "parse" =>
        /\ blockAt = 1 /\ cursor = 1 /\ out = <<>> /\ ~sink
        /\ \A f \in FilesOf(in) : ~disk[f].new

\* A question is about an entry that may be written.
Asked ==
    pc = "ask" =>
        cursor <= Len(ctx.entries) /\ ~in.test /\ ~SafeStop(Entry) /\ ~(Mismatch /\ in.safe)

\* What safe mode wrote, in terms of the entries that were read.
Kept(f) ==
    \E j \in DOMAIN ctx.entries :
        /\ ctx.entries[j].file = f /\ Len(disk[f].data) = ctx.entries[j].size
        /\ j <= ctx.sums /\ in.checks =>
              disk[f] = [new |-> TRUE, there |-> TRUE, data |-> TrueContent(ctx.entries, j)]

SafeKept == in.safe => \A f \in FilesOf(in) \ in.locked : disk[f].new => Kept(f)

Inv ==
    /\ in \in Inputs /\ WalkOf(in, walk)
    /\ DecoderTypes /\ FileTypes /\ EndTypes
    /\ Handed /\ Fresh /\ Asked /\ SafeKept

\* The driver starts with the invariant.
LEMMA InitInv == ASSUME Init PROVE Inv
<1>1. in \in Inputs /\ walk = StartOfWalk
  BY DEF Init
<1>2. WalkOf(in, walk)
  BY <1>1, WalkStarts
<1>3. ctx.entries = <<>> /\ ctx.total = 0 /\ ctx.blocks = <<>> /\ ctx.sums = 0
  BY DEF Init, NoEntries
<1>a. <<>> \in Seq(Int) /\ Len(<<>>) = 0
  OBVIOUS
<1>4. DecoderTypes /\ EndTypes
  <2>1. /\ sink = FALSE /\ engine = "none" /\ out = <<>> /\ blockAt = 1 /\ end = "ok" /\ err = "none"
        /\ pc = "parse" /\ said = "nothing" /\ rc = 0
    BY DEF Init
  <2>2. Len(ctx.blocks) + 1 = 1
    BY <1>3
  <2>3. DecoderTypes
    <3>1. out \in Seq(Int) /\ Len(out) <= ctx.total
      BY <1>3, <1>a, <2>1
    <3>2. blockAt \in 1 .. Len(ctx.blocks) + 1
      BY <2>1, <2>2
    <3> QED BY <2>1, <3>1, <3>2 DEF DecoderTypes
  <2>4. EndTypes
    BY <2>1 DEF EndTypes
  <2> QED BY <2>3, <2>4
<1>5. /\ disk \in [FilesOf(in) -> [new : BOOLEAN, there : BOOLEAN, data : Seq(Int)]]
      /\ \A f \in FilesOf(in) : ~disk[f].new
  <2>1. /\ Old \in [new : BOOLEAN, there : BOOLEAN, data : Seq(Int)] /\ ~Old.new
        /\ Absent \in [new : BOOLEAN, there : BOOLEAN, data : Seq(Int)] /\ ~Absent.new
    BY <1>a DEF Old, Absent
  <2>2. disk = [f \in FilesOf(in) |-> IF f \in in.old THEN Old ELSE Absent]
    BY DEF Init
  <2> QED BY <2>1, <2>2
<1>6. FileTypes
  <2>1. in.yes \in BOOLEAN
    BY <1>1, InputsAssumption
  <2> QED BY <1>3, <1>5, <2>1 DEF Init, FileTypes
<1>7. Handed
  <2>1. ListedIn(in, Len(in.records)) \in Seq(EntriesIn(in))
    <3>1. Len(in.records) \in 0 .. Len(in.records)
      BY <1>1, InputsAssumption
    <3> QED BY <1>1, <3>1, TablesType
  <2>2. Begins(<<>>, ListedIn(in, Len(in.records)))
    BY <2>1, NothingBegins
  <2> QED BY <1>3, <2>2 DEF Handed, BlocksType
<1>8. Fresh /\ Asked
  BY <1>5 DEF Init, Fresh, Asked
<1>9. SafeKept
  BY <1>5 DEF SafeKept
<1> QED BY <1>1, <1>2, <1>4, <1>6, <1>7, <1>8, <1>9 DEF Inv

\* What stays when the archive, the entries and the files do.
LEMMA SafeStays ==
    ASSUME SafeKept, UNCHANGED <<in, ctx, disk>>
    PROVE  SafeKept'
  BY DEF SafeKept, Kept

\* What was handed over stays while the decoder works.
LEMMA HandedStays ==
    ASSUME Handed, UNCHANGED <<in, ctx>>
    PROVE  Handed'
  BY DEF Handed

\* Reading a record keeps it (TryParseLegacyCnArchive).
LEMMA ReadInv == ASSUME Inv, ReadRecord PROVE Inv'
<1>1. /\ in \in Inputs /\ WalkOf(in, walk)
      /\ DecoderTypes /\ FileTypes /\ EndTypes /\ Handed /\ Fresh /\ Asked /\ SafeKept
  BY DEF Inv
<1>2. /\ UNCHANGED <<in, ctx, pc, engine, sink, blockAt, out, err, cursor, end, yesToAll, failed,
                     refused, disk, said, rc>>
      /\ walk' = WalkRecord(in.records, Size(in), walk) /\ More(in.records, Size(in), walk)
      /\ pc = "parse"
  BY DEF ReadRecord, Reading
<1>3. WalkOf(in, walk')
  <2>1. PICK x \in Inputs : x = in
    BY <1>1
  <2>2. PICK w : w = walk
    OBVIOUS
  <2>3. WalkOf(x, WalkRecord(x.records, Size(x), w))
    BY <1>1, <1>2, <2>1, <2>2, WalkGoesOn
  <2> QED BY <1>2, <2>1, <2>2, <2>3
<1>4. WalkOf(in, walk)' /\ in' \in Inputs
  BY <1>1, <1>2, <1>3
<1>5. DecoderTypes'
  BY <1>1, <1>2 DEF DecoderTypes, UsesSink
<1>6. FileTypes' /\ EndTypes' /\ Fresh'
  BY <1>1, <1>2 DEF FileTypes, EndTypes, Fresh
<1>7. Asked'
  BY <1>2 DEF Asked
<1> QED BY <1>1, <1>2, <1>4, <1>5, <1>6, <1>7, SafeStays, HandedStays DEF Inv

\* The driver is handed what the walk left.
LEMMA HandedOver ==
    ASSUME Inv, NEW found \in BOOLEAN, UNCHANGED <<in, disk>>, pc = "parse",
           Accepted(in.records, Size(in), walk), ctx' = Context(in, walk, found)
    PROVE  /\ Handed' /\ SafeKept'
           /\ ctx'.entries = EntriesOf(walk) /\ ctx'.total = SizeOf(EntriesOf(walk))
           /\ ctx'.total \in Nat /\ ctx'.codec = walk.codec
           /\ Len(ctx'.entries) \in Nat /\ Len(ctx'.blocks) \in Nat
<1>1. PICK x \in Inputs : x = in
  BY DEF Inv
<1>2. PICK w : w = walk
  OBVIOUS
<1>3. WalkOf(x, w) /\ Known(w) /\ ctx' = Context(x, w, found)
  BY <1>1, <1>2, AcceptedKnown DEF Inv
<1>4. LET c == Context(x, w, found)
      IN /\ c.entries \in Seq(EntriesIn(x)) /\ Begins(c.entries, ListedIn(x, Len(x.records)))
         /\ c.entries = EntriesOf(w) /\ c.total = SizeOf(c.entries) /\ c.total \in Nat
         /\ c.codec = w.codec
         /\ c.sums \in Nat /\ (c.sums > 0 => c.verifies)
         /\ c.blocks \in BlocksType
  BY <1>3, ContextIs
<1>5. /\ ctx'.entries \in Seq(EntriesIn(x)) /\ Begins(ctx'.entries, ListedIn(x, Len(x.records)))
      /\ ctx'.entries = EntriesOf(w) /\ ctx'.total = SizeOf(ctx'.entries) /\ ctx'.total \in Nat
      /\ ctx'.codec = w.codec
      /\ ctx'.sums \in Nat /\ (ctx'.sums > 0 => ctx'.verifies)
      /\ ctx'.blocks \in BlocksType
  BY <1>3, <1>4
<1>6. in' = x
  BY <1>1
<1>7. Handed'
  BY <1>5, <1>6 DEF Handed
<1>8. SafeKept'
  <2>1. \A f \in FilesOf(in) : ~disk[f].new
    BY DEF Inv, Fresh
  <2> QED BY <2>1 DEF SafeKept
<1>9. Len(ctx'.entries) \in Nat /\ Len(ctx'.blocks) \in Nat
  BY <1>5 DEF BlocksType
<1> QED BY <1>2, <1>5, <1>7, <1>8, <1>9

\* So does handing a stored archive over.
LEMMA ParseStoreInv == ASSUME Inv, ParseStore PROVE Inv'
<1>1. /\ in \in Inputs /\ WalkOf(in, walk)
      /\ DecoderTypes /\ FileTypes /\ EndTypes /\ Handed /\ Fresh /\ Asked /\ SafeKept
  BY DEF Inv
<1> DEFINE units == IF ctx'.codec = "store" THEN StoredUnits(Records(in), walk) ELSE <<>>
<1>2. /\ UNCHANGED <<in, walk, engine, sink, blockAt, err, cursor, yesToAll, failed, refused, disk,
                     said, rc>>
      /\ pc = "parse" /\ pc' = "copy" /\ end' \in {"ok", "eof"}
      /\ Accepted(in.records, Size(in), walk)
      /\ ctx' = Context(in, walk, TRUE) /\ out' = units
  BY DEF ParseStore, Parsed
<1>3. /\ Handed' /\ SafeKept'
      /\ ctx'.entries = EntriesOf(walk) /\ ctx'.total = SizeOf(EntriesOf(walk))
      /\ ctx'.total \in Nat /\ ctx'.codec = walk.codec
      /\ Len(ctx'.entries) \in Nat /\ Len(ctx'.blocks) \in Nat
  BY <1>2, HandedOver
<1>4. out' \in Seq(Int) /\ Len(out') <= ctx'.total
  <2>1. CASE ctx'.codec = "store"
    <3>1. PICK x \in Inputs : x = in
      BY <1>1
    <3>2. PICK w \in WalksOf(x) : w = walk
      BY <1>1, <3>1 DEF WalkOf
    <3>3. /\ StoredUnits(Records(x), w) \in Seq(Int)
          /\ Len(StoredUnits(Records(x), w)) <= SizeOf(EntriesOf(w))
      BY <1>3, <2>1, <3>2, StoredType
    <3> QED BY <1>2, <1>3, <2>1, <3>1, <3>2, <3>3
  <2>2. CASE ctx'.codec # "store"
    <3>1. out' = <<>>
      BY <1>2, <2>2
    <3>2. <<>> \in Seq(Int) /\ Len(<<>>) = 0
      OBVIOUS
    <3> QED BY <1>3, <3>1, <3>2
  <2> QED BY <2>1, <2>2
<1>5. blockAt' = 1 /\ cursor' = 1 /\ ~sink'
  BY <1>1, <1>2 DEF Fresh
<1> HIDE DEF units
<1>6. WalkOf(in, walk)' /\ in' \in Inputs
  BY <1>1, <1>2
<1>7. DecoderTypes'
  <2>1. blockAt' \in 1 .. Len(ctx'.blocks) + 1
    BY <1>3, <1>5
  <2>2. sink' \in BOOLEAN
    BY <1>1, <1>2 DEF DecoderTypes
  <2>3. /\ engine' \in {"none", "lzpf", "lzhd", "optimum", "cm"}
        /\ end' \in {"ok", "eof", "fail", "fatal"} /\ err' \in {"none", "eof", "fail", "fatal"}
    BY <1>1, <1>2 DEF DecoderTypes
  <2> QED BY <1>2, <1>4, <1>5, <2>1, <2>2, <2>3 DEF DecoderTypes
<1>8. FileTypes'
  <2>1. cursor' \in 1 .. Len(ctx'.entries) + 1
    BY <1>3, <1>5
  <2> QED BY <1>1, <1>2, <2>1 DEF FileTypes
<1>9. EndTypes' /\ Fresh' /\ Asked'
  BY <1>1, <1>2 DEF EndTypes, Fresh, Asked
<1> QED BY <1>3, <1>6, <1>7, <1>8, <1>9 DEF Inv

\* So does handing a packed one over.
LEMMA ParsePackedInv == ASSUME Inv, NEW found \in BOOLEAN, ParsePacked(found) PROVE Inv'
<1>1. /\ in \in Inputs /\ WalkOf(in, walk)
      /\ DecoderTypes /\ FileTypes /\ EndTypes /\ Handed /\ Fresh /\ Asked /\ SafeKept
  BY DEF Inv
<1>2. /\ UNCHANGED <<in, walk, sink, blockAt, out, err, cursor, end, yesToAll, failed, refused, disk,
                     said, rc>>
      /\ pc = "parse" /\ pc' = "open" /\ engine' \in {"lzpf", "lzhd"}
      /\ Accepted(in.records, Size(in), walk)
      /\ ctx' = Context(in, walk, found)
  BY DEF ParsePacked, Parsed
<1>3. /\ Handed' /\ SafeKept'
      /\ ctx'.total \in Nat /\ Len(ctx'.entries) \in Nat /\ Len(ctx'.blocks) \in Nat
  BY <1>2, HandedOver
<1>4. blockAt' = 1 /\ cursor' = 1 /\ ~sink' /\ out' = <<>>
  BY <1>1, <1>2 DEF Fresh
<1>5. <<>> \in Seq(Int) /\ Len(<<>>) = 0
  OBVIOUS
<1>6. WalkOf(in, walk)' /\ in' \in Inputs
  BY <1>1, <1>2
<1>7. DecoderTypes'
  <2>1. blockAt' \in 1 .. Len(ctx'.blocks) + 1 /\ out' \in Seq(Int) /\ Len(out') <= ctx'.total
    BY <1>3, <1>4, <1>5
  <2>2. sink' \in BOOLEAN
    BY <1>1, <1>2 DEF DecoderTypes
  <2>3. /\ engine' \in {"none", "lzpf", "lzhd", "optimum", "cm"}
        /\ end' \in {"ok", "eof", "fail", "fatal"} /\ err' \in {"none", "eof", "fail", "fatal"}
    BY <1>1, <1>2 DEF DecoderTypes
  <2> QED BY <1>2, <1>4, <2>1, <2>2, <2>3 DEF DecoderTypes
<1>8. FileTypes'
  <2>1. cursor' \in 1 .. Len(ctx'.entries) + 1
    BY <1>3, <1>4
  <2> QED BY <1>1, <1>2, <2>1 DEF FileTypes
<1>9. EndTypes' /\ Fresh' /\ Asked'
  BY <1>1, <1>2 DEF EndTypes, Fresh, Asked
<1> QED BY <1>3, <1>6, <1>7, <1>8, <1>9 DEF Inv

\* The steps that end the program.
LEMMA EndInv == ASSUME Inv, Refuse \/ Nothing \/ Finish PROVE Inv'
<1>1. /\ in \in Inputs /\ WalkOf(in, walk)
      /\ DecoderTypes /\ FileTypes /\ EndTypes /\ Handed /\ Fresh /\ Asked /\ SafeKept
  BY DEF Inv
<1>2. /\ UNCHANGED <<in, walk, ctx, engine, sink, blockAt, out, err, cursor, end, yesToAll, failed,
                     refused, disk>>
      /\ pc' = "done"
      /\ said' \in {"refused", "footer", "eof", "code", "fatal"} /\ rc' \in {0, 1, 2, 255}
  <2>1. CASE Refuse
    BY <2>1 DEF Refuse
  <2>2. CASE Nothing
    BY <2>2 DEF Nothing, Corrupt
  <2>3. CASE Finish
    BY <2>3 DEF Finish, Corrupt
  <2> QED BY <2>1, <2>2, <2>3
<1>3. WalkOf(in, walk)' /\ in' \in Inputs
  BY <1>1, <1>2
<1>4. DecoderTypes' /\ FileTypes' /\ EndTypes'
  BY <1>1, <1>2 DEF DecoderTypes, FileTypes, EndTypes, UsesSink
<1>5. Fresh' /\ Asked'
  BY <1>2 DEF Fresh, Asked
<1> QED BY <1>1, <1>2, <1>3, <1>4, <1>5, SafeStays, HandedStays DEF Inv

\* A decoder's step leaves the archive, the entries and the files alone.
LEMMA DecoderStays ==
    ASSUME Inv, UNCHANGED <<in, walk, ctx, cursor, yesToAll, failed, refused, disk, said, rc>>,
           pc' \in {"open", "block", "ended", "copy"}, DecoderTypes'
    PROVE  Inv'
<1>1. /\ in \in Inputs /\ WalkOf(in, walk)
      /\ FileTypes /\ EndTypes /\ Handed /\ Fresh /\ Asked /\ SafeKept
  BY DEF Inv
<1>2. WalkOf(in, walk)' /\ in' \in Inputs
  BY <1>1
<1>3. FileTypes' /\ EndTypes'
  BY <1>1 DEF FileTypes, EndTypes
<1>4. Fresh' /\ Asked'
  BY DEF Fresh, Asked
<1> QED BY <1>1, <1>2, <1>3, <1>4, SafeStays, HandedStays DEF Inv

\* The decoder tried after one that declines is a decoder.
LEMMA NextEngineType ==
    ASSUME NEW e \in {"none", "lzpf", "lzhd", "optimum", "cm"}, e # "none"
    PROVE  NextEngine[e] \in {"none", "lzpf", "lzhd", "optimum", "cm"}
  BY DEF NextEngine

\* A decoder that declines.
LEMMA DeclineTypes == ASSUME Inv, Decline PROVE DecoderTypes'
<1>1. DecoderTypes /\ engine # "none" /\ pc = "open"
  BY DEF Inv, Decline
<1>2. engine' = NextEngine[engine] /\ UNCHANGED <<in, ctx, pc, sink, blockAt, out, err, end>>
  BY DEF Decline
<1>3. engine \in {"none", "lzpf", "lzhd", "optimum", "cm"} /\ ~sink
  BY <1>1 DEF DecoderTypes
<1>4. engine' \in {"none", "lzpf", "lzhd", "optimum", "cm"}
  BY <1>1, <1>2, <1>3, NextEngineType
<1> QED BY <1>1, <1>2, <1>3, <1>4 DEF DecoderTypes

\* A decoder that begins.
LEMMA StartTypes == ASSUME Inv, Start PROVE DecoderTypes'
<1>1. DecoderTypes /\ ctx.total \in Nat /\ Len(ctx.blocks) \in Nat
  BY DEF Inv, Handed, BlocksType
<1>2. /\ UNCHANGED <<in, ctx, engine, end>> /\ blockAt' = 1 /\ out' = <<>> /\ err' = "none"
      /\ pc' = "block" /\ engine # "none"
  BY DEF Start
<1>3. sink' \in BOOLEAN /\ (sink' => UsesSink)
  <2>1. sink' = (UsesSink /\ engine # "lzpf")
    BY DEF Start
  <2> QED BY <2>1, Zenon
<1>4. UsesSink' = UsesSink
  BY <1>2 DEF UsesSink
<1>5. out' \in Seq(Int) /\ Len(out') <= ctx'.total /\ blockAt' \in 1 .. Len(ctx'.blocks) + 1
  <2>1. <<>> \in Seq(Int) /\ Len(<<>>) = 0
    OBVIOUS
  <2> QED BY <1>1, <1>2, <2>1
<1>6. /\ engine' \in {"none", "lzpf", "lzhd", "optimum", "cm"}
      /\ end' \in {"ok", "eof", "fail", "fatal"} /\ err' \in {"none", "eof", "fail", "fatal"}
  BY <1>1, <1>2 DEF DecoderTypes
<1> QED BY <1>2, <1>3, <1>4, <1>5, <1>6 DEF DecoderTypes

\* A record decoded, right or wrong.
LEMMA DecodeTypes == ASSUME Inv, NEW o \in Outcomes, DecodeRecord(o) PROVE DecoderTypes'
<1>1. DecoderTypes /\ ctx.total \in Nat /\ ctx.blocks \in BlocksType
  BY DEF Inv, Handed
<1> DEFINE us == ctx.blocks[blockAt].units
           got == CASE o = "right" -> us
                    [] o = "wrong" -> AllWrong(us)
                    [] o = "short" -> SubSeq(us, 1, Len(us) - 1)
<1>2. /\ UNCHANGED <<in, ctx, pc, engine, err, end>> /\ blockAt' = blockAt + 1
      /\ blockAt <= Len(ctx.blocks) /\ o \notin {"fail", "fatal"} /\ pc = "block"
      /\ out' = SubSeq(out \o got, 1, Min({Len(out \o got), ctx.total}))
  BY DEF DecodeRecord, Decoding
<1>3. PICK n \in Nat : n = Len(ctx.blocks)
  BY <1>1 DEF BlocksType
<1>4. blockAt \in 1 .. n
  BY <1>1, <1>2, <1>3 DEF DecoderTypes
<1>5. us \in Seq(Int)
  <2>1. ctx.blocks[blockAt] \in [units : Seq(Int), may : SUBSET Outcomes]
    <3> DEFINE B == [units : Seq(Int), may : SUBSET Outcomes]
    <3> HIDE DEF us, got, B
    <3>1. PICK s \in Seq(B) : s = ctx.blocks
      BY <1>1 DEF BlocksType, B
    <3>2. PICK k \in 1 .. Len(s) : k = blockAt
      BY <1>3, <1>4, <3>1
    <3>3. s[k] \in B
      OBVIOUS
    <3> QED BY <3>1, <3>2, <3>3 DEF B
  <2> QED BY <2>1
<1>6. got \in Seq(Int)
  <2>1. PICK b \in Seq(Int) : b = us
    BY <1>5
  <2>2. AllWrong(b) \in Seq(Int)
    BY DEF AllWrong, BadUnit
  <2>3. SubSeq(b, 1, Len(b) - 1) \in Seq(Int)
    <3>1. CASE Len(b) = 0
      BY <3>1
    <3>2. CASE Len(b) # 0
      BY <3>2
    <3> QED BY <3>1, <3>2
  <2>4. o \in {"right", "wrong", "short"}
    BY <1>2 DEF Outcomes
  <2> HIDE DEF us
  <2> QED BY <2>1, <2>2, <2>3, <2>4
<1>7. out' \in Seq(Int) /\ Len(out') <= ctx.total
  <2>1. PICK a \in Seq(Int), b \in Seq(Int) : a = out /\ b = got
    BY <1>1, <1>6 DEF DecoderTypes
  <2>2. PICK c \in Seq(Int) : c = a \o b
    <3>1. a \o b \in Seq(Int)
      OBVIOUS
    <3> QED BY <3>1
  <2>3. PICK t \in Nat : t = ctx.total
    BY <1>1
  <2>4. PICK m \in Nat : m = Min({Len(c), t}) /\ m <= Len(c) /\ m <= t
    <3>0. Len(c) \in Int /\ t \in Int
      OBVIOUS
    <3> HIDE DEF us, got
    <3>1. Min({Len(c), t}) = IF Len(c) <= t THEN Len(c) ELSE t
      BY <3>0, MinOfTwo
    <3> QED BY <3>1
  <2>5. SubSeq(c, 1, m) \in Seq(Int) /\ Len(SubSeq(c, 1, m)) = m
    <3>1. m <= Len(c)
      BY <2>4
    <3> QED BY ONLY c \in Seq(Int), m \in Nat, <3>1
  <2> HIDE DEF got, us
  <2>6. out' = SubSeq(c, 1, m)
    BY <1>2, <2>1, <2>2, <2>3, <2>4
  <2> QED BY <2>3, <2>4, <2>5, <2>6
<1>8. sink' \in BOOLEAN /\ (sink' => UsesSink)
  <2>1. sink' = (sink \/ (UsesSink /\ got # <<>>))
    BY DEF DecodeRecord
  <2>2. sink => UsesSink
    BY <1>1 DEF DecoderTypes
  <2> HIDE DEF got, us
  <2> QED BY <2>1, <2>2, Zenon
<1>9. UsesSink' = UsesSink
  BY <1>2 DEF UsesSink
<1>a. blockAt' \in 1 .. Len(ctx'.blocks) + 1
  <2> HIDE DEF got, us
  <2> QED BY <1>2, <1>3, <1>4
<1>b. pc' # "open" /\ ctx' = ctx /\ engine' # "none"
  BY <1>1, <1>2 DEF DecoderTypes
<1>c. /\ engine' \in {"none", "lzpf", "lzhd", "optimum", "cm"}
      /\ end' \in {"ok", "eof", "fail", "fatal"} /\ err' \in {"none", "eof", "fail", "fatal"}
  BY <1>1, <1>2 DEF DecoderTypes
<1> HIDE DEF got, us
<1> QED BY <1>7, <1>8, <1>9, <1>a, <1>b, <1>c DEF DecoderTypes

\* The decoders keep the invariant.
LEMMA DecoderInv ==
    ASSUME Inv,
           \/ Decline \/ Start \/ EndOfRecords \/ Ended \/ HandBack \/ Partial
           \/ \E o \in Outcomes : DecodeRecord(o) \/ FailRecord(o)
    PROVE  Inv'
<1>1. DecoderTypes
  BY DEF Inv
<1>2. CASE Decline
  BY <1>2, DeclineTypes, DecoderStays DEF Decline
<1>3. CASE Start
  BY <1>3, StartTypes, DecoderStays DEF Start
<1>4. ASSUME NEW o \in Outcomes, DecodeRecord(o) PROVE Inv'
  <2>1. DecoderTypes'
    BY <1>4, DecodeTypes
  <2>2. UNCHANGED <<in, walk, ctx, cursor, yesToAll, failed, refused, disk, said, rc>> /\ pc' = "block"
    BY <1>4 DEF DecodeRecord, Decoding
  <2> QED BY <2>1, <2>2, DecoderStays
<1>5. ASSUME NEW o \in Outcomes, FailRecord(o) PROVE Inv'
  <2>1. /\ UNCHANGED <<in, walk, ctx, cursor, yesToAll, failed, refused, disk, said, rc>>
        /\ UNCHANGED <<engine, sink, blockAt, out, end>>
        /\ pc = "block" /\ pc' = "ended" /\ err' \in {"fail", "fatal"}
    BY <1>5 DEF FailRecord, Decoding
  <2>2. DecoderTypes'
    BY <1>1, <2>1 DEF DecoderTypes, UsesSink
  <2> QED BY <2>1, <2>2, DecoderStays
<1>6. CASE EndOfRecords
  <2>1. /\ UNCHANGED <<in, walk, ctx, cursor, yesToAll, failed, refused, disk, said, rc>>
        /\ UNCHANGED <<engine, sink, blockAt, out, end>>
        /\ pc = "block" /\ pc' = "ended" /\ err' \in {"none", "eof", "fail"}
    BY <1>6 DEF EndOfRecords
  <2>2. DecoderTypes'
    BY <1>1, <2>1 DEF DecoderTypes, UsesSink
  <2> QED BY <2>1, <2>2, DecoderStays
<1>7. CASE Ended \/ Partial
  <2>1. /\ UNCHANGED <<in, walk, ctx, cursor, yesToAll, failed, refused, disk, said, rc>>
        /\ UNCHANGED <<engine, sink, blockAt, out, err>>
        /\ pc' = "copy" /\ end' = IF err = "none" THEN "ok" ELSE err
    BY <1>7 DEF Ended, Partial, Adopt
  <2>2. DecoderTypes'
    BY <1>1, <2>1 DEF DecoderTypes, UsesSink
  <2> QED BY <2>1, <2>2, DecoderStays
<1>8. CASE HandBack
  <2>1. /\ UNCHANGED <<in, walk, ctx, cursor, yesToAll, failed, refused, disk, said, rc>>
        /\ UNCHANGED <<blockAt, out, err, end>>
        /\ pc' = "open" /\ sink' = FALSE /\ engine' = NextEngine[engine]
    BY <1>8 DEF HandBack
  <2>2. engine' \in {"none", "lzpf", "lzhd", "optimum", "cm"}
    BY <1>1, <1>8, <2>1, NextEngineType DEF DecoderTypes, HandBack
  <2>3. DecoderTypes'
    BY <1>1, <2>1, <2>2 DEF DecoderTypes
  <2> QED BY <2>1, <2>3, DecoderStays
<1> QED BY <1>2, <1>3, <1>4, <1>5, <1>6, <1>7, <1>8

\* The entry the loop is at, and what there is of it.
LEMMA EntryFacts ==
    ASSUME Inv, cursor <= Len(ctx.entries)
    PROVE  /\ cursor \in 1 .. Len(ctx.entries) /\ Len(ctx.entries) \in Nat
           /\ Entry.file \in FilesOf(in) /\ Entry.size \in Nat
           /\ Content \in Seq(Int) /\ Len(Content) <= Entry.size
<1>1. PICK x \in Inputs : x = in
  BY DEF Inv
<1>2. PICK es \in Seq(EntriesIn(x)) : es = ctx.entries
  BY <1>1 DEF Inv, Handed
<1>3. PICK j \in 1 .. Len(es) : j = cursor
  BY <1>2 DEF Inv, FileTypes
<1>4. Entry = es[j] /\ es[j] \in EntriesIn(x)
  BY <1>2, <1>3 DEF Entry
<1>5. Entry.file \in FilesOf(in) /\ Entry.size \in Nat
  BY <1>1, <1>4 DEF EntriesIn, Listing
<1>6. PICK a \in Nat : a = StartOf(es, j)
  <2>1. j \in 1 .. Len(es) + 1
    OBVIOUS
  <2>2. StartOf(es, j) \in Nat
    BY <2>1, StartType
  <2> QED BY <2>2
<1>7. PICK us \in Seq(Int) : us = out
  BY DEF Inv, DecoderTypes
<1>8. PICK n \in Nat : n = es[j].size
  BY <1>4 DEF EntriesIn, Listing
<1>9. PICK b \in Nat : b = Min({Len(us), a + n}) /\ b <= Len(us) /\ b <= a + n
  <2>1. Len(us) \in Int /\ a + n \in Int
    OBVIOUS
  <2>2. Min({Len(us), a + n}) = IF Len(us) <= a + n THEN Len(us) ELSE a + n
    BY <2>1, MinOfTwo
  <2> QED BY <2>2
<1>a. Content = SubSeq(us, a + 1, b)
  BY <1>2, <1>3, <1>6, <1>7, <1>8, <1>9 DEF Content, RangeOf
<1>b. SubSeq(us, a + 1, b) \in Seq(Int) /\ Len(SubSeq(us, a + 1, b)) <= n
  <2>1. b <= Len(us) /\ b <= a + n
    BY <1>9
  <2>2. CASE a + 1 <= b
    BY ONLY us \in Seq(Int), a \in Nat, b \in Nat, n \in Nat, <2>1, <2>2
  <2>3. CASE ~ (a + 1 <= b)
    BY ONLY us \in Seq(Int), a \in Nat, b \in Nat, n \in Nat, <2>1, <2>3
  <2> QED BY <2>2, <2>3
<1>c. cursor \in 1 .. Len(ctx.entries) /\ Len(ctx.entries) \in Nat
  BY <1>2, <1>3
<1> QED BY <1>2, <1>3, <1>4, <1>5, <1>8, <1>a, <1>b, <1>c

\* The loop over the entries goes to the next or behind the last.
LEMMA Next1Type ==
    ASSUME cursor \in 1 .. Len(ctx.entries), Len(ctx.entries) \in Nat, Next1
    PROVE  cursor' \in 1 .. Len(ctx.entries) + 1
  BY DEF Next1

\* A mismatch counts for one.
LEMMA BadType == Bad \in {0, 1}
  BY DEF Bad

\* An entry that is not written.
LEMMA PassedInv == ASSUME Inv, Skip \/ Test \/ Unsafe \/ AnswerNo PROVE Inv'
<1>1. /\ in \in Inputs /\ WalkOf(in, walk)
      /\ DecoderTypes /\ FileTypes /\ EndTypes /\ Handed /\ Fresh /\ Asked /\ SafeKept
  BY DEF Inv
<1>2. cursor <= Len(ctx.entries)
  BY <1>1 DEF Skip, Test, Unsafe, Goes, Copying, AnswerNo, Asked
<1>3. /\ cursor \in 1 .. Len(ctx.entries) /\ Len(ctx.entries) \in Nat /\ Entry.file \in FilesOf(in)
  BY <1>2, EntryFacts
<1>4. /\ UNCHANGED <<in, walk, ctx, engine, sink, blockAt, out, err, end, said, rc>>
      /\ UNCHANGED <<yesToAll, disk>> /\ Next1
      /\ pc \in {"copy", "ask"} /\ pc' = "copy"
  BY DEF Skip, Test, Unsafe, Goes, Copying, AnswerNo, Rest
<1>5. failed' = failed + Bad \/ failed' = failed + (Bad + 1)
  BY DEF Skip, Test, Unsafe, AnswerNo, Count
<1>6. refused' = refused \/ refused' = refused \cup {Entry.file}
  BY DEF Skip, Test, Unsafe, AnswerNo
<1>7. cursor' \in 1 .. Len(ctx.entries) + 1
  BY <1>3, <1>4, Next1Type
<1>8. failed' \in Nat
  <2>1. failed \in Nat
    BY <1>1 DEF FileTypes
  <2> QED BY <1>5, <2>1, BadType
<1>9. WalkOf(in, walk)' /\ in' \in Inputs
  BY <1>1, <1>4
<1>a. DecoderTypes'
  BY <1>1, <1>4 DEF DecoderTypes, UsesSink
<1>b. FileTypes'
  BY <1>1, <1>3, <1>4, <1>6, <1>7, <1>8 DEF FileTypes
<1>c. EndTypes' /\ Fresh' /\ Asked'
  BY <1>1, <1>4 DEF EndTypes, Fresh, Asked
<1> QED BY <1>1, <1>4, <1>9, <1>a, <1>b, <1>c, SafeStays, HandedStays DEF Inv

\* A question.
LEMMA AskInv == ASSUME Inv, Ask PROVE Inv'
<1>1. /\ in \in Inputs /\ WalkOf(in, walk)
      /\ DecoderTypes /\ FileTypes /\ EndTypes /\ Handed /\ Fresh /\ Asked /\ SafeKept
  BY DEF Inv
<1>2. /\ UNCHANGED <<in, walk, ctx, engine, sink, blockAt, out, err, end, said, rc>>
      /\ UNCHANGED <<cursor, yesToAll, failed, refused, disk>>
      /\ pc = "copy" /\ pc' = "ask"
  BY DEF Ask, Writes, Goes, Copying, Rest
<1>3. cursor <= Len(ctx.entries) /\ ~in.test /\ ~SafeStop(Entry) /\ ~(Mismatch /\ in.safe)
  BY DEF Ask, Writes, Goes, Copying
<1>4. Asked'
  <2>1. Entry' = Entry /\ SafeStop(Entry)' = SafeStop(Entry) /\ Mismatch' = Mismatch
    BY <1>2 DEF Entry, SafeStop, Mismatch, Judged, LastPartial, Content
  <2> QED BY <1>2, <1>3, <2>1 DEF Asked
<1>5. WalkOf(in, walk)' /\ in' \in Inputs
  BY <1>1, <1>2
<1>6. DecoderTypes'
  BY <1>1, <1>2 DEF DecoderTypes, UsesSink
<1>7. FileTypes' /\ EndTypes' /\ Fresh'
  BY <1>1, <1>2 DEF FileTypes, EndTypes, Fresh
<1> QED BY <1>1, <1>2, <1>4, <1>5, <1>6, <1>7, SafeStays, HandedStays DEF Inv

\* What safe mode writes of an entry is the entry.
LEMMA SafeContent ==
    ASSUME Inv, cursor <= Len(ctx.entries), ~in.test, ~SafeStop(Entry), ~(Mismatch /\ in.safe), in.safe
    PROVE  /\ Len(Content) = Entry.size
           /\ cursor <= ctx.sums /\ in.checks => Content = TrueContent(ctx.entries, cursor)
<1>1. /\ cursor \in 1 .. Len(ctx.entries) /\ Len(ctx.entries) \in Nat /\ Entry.size \in Nat
      /\ Content \in Seq(Int) /\ Len(Content) <= Entry.size
  BY EntryFacts
<1>2. ~LastPartial
  BY DEF SafeStop
<1>3. Len(Content) = Entry.size
  BY <1>1, <1>2 DEF LastPartial
<1>4. ASSUME cursor <= ctx.sums, in.checks PROVE Content = TrueContent(ctx.entries, cursor)
  <2>1. ctx.verifies
    <3>1. ctx.sums \in Nat /\ (ctx.sums > 0 => ctx.verifies)
      BY DEF Inv, Handed
    <3> QED BY <1>1, <1>4, <3>1
  <2>2. Judged
    BY <1>2, <1>4, <2>1 DEF Judged
  <2> QED BY <2>2 DEF Mismatch
<1> QED BY <1>3, <1>4

\* An entry that is written, in safe mode only once its checksum is seen to match.
LEMMA WriteInv ==
    ASSUME Inv, NEW always \in BOOLEAN, WriteEntry(always), pc \in {"copy", "ask"},
           cursor <= Len(ctx.entries), ~in.test, ~SafeStop(Entry), ~(Mismatch /\ in.safe)
    PROVE  Inv'
<1>1. /\ in \in Inputs /\ WalkOf(in, walk)
      /\ DecoderTypes /\ FileTypes /\ EndTypes /\ Handed /\ Fresh /\ Asked /\ SafeKept
  BY DEF Inv
<1> DEFINE f == Entry.file
           written == [new |-> TRUE, there |-> TRUE, data |-> IF f \in in.locked THEN <<>> ELSE Content]
<1>2. /\ cursor \in 1 .. Len(ctx.entries) /\ Len(ctx.entries) \in Nat
      /\ f \in FilesOf(in) /\ Content \in Seq(Int)
  BY EntryFacts
<1>3. /\ UNCHANGED <<in, walk, ctx, engine, sink, blockAt, out, err, end, said, rc, refused>>
      /\ disk' = [disk EXCEPT ![f] = written] /\ yesToAll' = always /\ Next1 /\ pc' = "copy"
      /\ failed' = failed + (Bad + IF f \in in.locked THEN 1 ELSE 0)
  BY DEF WriteEntry, Rest, Count
<1>4. cursor' \in 1 .. Len(ctx.entries) + 1
  BY <1>2, <1>3, Next1Type
<1>5. failed' \in Nat
  <2>1. failed \in Nat
    BY <1>1 DEF FileTypes
  <2> HIDE DEF f
  <2> QED BY <1>3, <2>1, BadType
<1>6. disk \in [FilesOf(in) -> [new : BOOLEAN, there : BOOLEAN, data : Seq(Int)]]
  BY <1>1 DEF FileTypes
<1>7. written \in [new : BOOLEAN, there : BOOLEAN, data : Seq(Int)]
  <2>1. <<>> \in Seq(Int)
    OBVIOUS
  <2> QED BY <1>2, <2>1
<1>8. FileTypes'
  <2> HIDE DEF f, written
  <2> QED BY <1>1, <1>2, <1>3, <1>4, <1>5, <1>6, <1>7 DEF FileTypes
<1>9. WalkOf(in, walk)' /\ in' \in Inputs
  BY <1>1, <1>3
<1>a. DecoderTypes'
  BY <1>1, <1>3 DEF DecoderTypes, UsesSink
<1>b. EndTypes' /\ Fresh' /\ Asked'
  BY <1>1, <1>3 DEF EndTypes, Fresh, Asked
<1>c. SafeKept'
  <2>1. SUFFICES ASSUME in.safe, NEW g \in FilesOf(in) \ in.locked, disk'[g].new
                 PROVE  Kept(g)'
    BY <1>3 DEF SafeKept
  <2>2. CASE g # f
    <3>1. disk'[g] = disk[g]
      <4> HIDE DEF f, written
      <4> QED BY <1>3, <1>6, <2>2
    <3>2. Kept(g)
      BY <1>1, <2>1, <3>1 DEF SafeKept
    <3> QED BY <1>3, <3>1, <3>2 DEF Kept
  <2>3. CASE g = f
    <3>1. disk'[g] = written
      <4> HIDE DEF f, written
      <4> QED BY <1>2, <1>3, <1>6, <2>3
    <3>2. written = [new |-> TRUE, there |-> TRUE, data |-> Content]
      BY <2>1, <2>3
    <3>3. /\ Len(Content) = Entry.size
          /\ cursor <= ctx.sums /\ in.checks => Content = TrueContent(ctx.entries, cursor)
      BY <2>1, SafeContent
    <3>4. PICK c : c = Content
      OBVIOUS
    <3>5. PICK j \in DOMAIN ctx.entries : j = cursor
      BY <1>1, <1>2 DEF Handed
    <3>6. disk'[g] = [new |-> TRUE, there |-> TRUE, data |-> c]
      BY <3>1, <3>2, <3>4
    <3>7. ctx.entries[j].file = g /\ Len(c) = ctx.entries[j].size
      BY <2>3, <3>3, <3>4, <3>5 DEF Entry
    <3>8. j <= ctx.sums /\ in.checks => c = TrueContent(ctx.entries, j)
      BY <3>3, <3>4, <3>5
    <3> HIDE DEF written, f
    <3>9. disk'[g].data = c /\ ctx' = ctx /\ in' = in
      BY <1>3, <3>6
    <3>a. j <= ctx.sums /\ in.checks =>
            disk'[g] = [new |-> TRUE, there |-> TRUE, data |-> TrueContent(ctx.entries, j)]
      BY <3>6, <3>8
    <3> QED BY <3>7, <3>9, <3>a, Zenon DEF Kept
  <2> QED BY <2>2, <2>3
<1>d. Handed'
  BY <1>1, <1>3, HandedStays
<1> QED BY <1>8, <1>9, <1>a, <1>b, <1>c, <1>d DEF Inv
-----------------------------------------------------------------------------
(* Types, and safe mode *)

\* Every step keeps the invariant.
LEMMA NextInv == ASSUME Inv, [Next \/ Done]_vars PROVE Inv'
<1>1. CASE ReadRecord
  BY <1>1, ReadInv
<1>2. CASE Refuse \/ Nothing \/ Finish
  BY <1>2, EndInv
<1>3. CASE ParseStore
  BY <1>3, ParseStoreInv
<1>4. CASE \E found \in BOOLEAN : ParsePacked(found)
  BY <1>4, ParsePackedInv
<1>5. CASE \/ Decline \/ Start \/ EndOfRecords \/ Ended \/ HandBack \/ Partial
           \/ \E o \in Outcomes : DecodeRecord(o) \/ FailRecord(o)
  BY <1>5, DecoderInv
<1>6. CASE Skip \/ Test \/ Unsafe \/ AnswerNo
  BY <1>6, PassedInv
<1>7. CASE Ask
  BY <1>7, AskInv
<1>8. CASE Write
  <2>1. /\ pc = "copy" /\ WriteEntry(yesToAll) /\ cursor <= Len(ctx.entries)
        /\ ~in.test /\ ~SafeStop(Entry) /\ ~(Mismatch /\ in.safe)
    BY <1>8 DEF Write, Writes, Goes, Copying
  <2>2. yesToAll \in BOOLEAN
    BY DEF Inv, FileTypes
  <2> QED BY <2>1, <2>2, WriteInv
<1>9. CASE AnswerYes \/ AnswerAlways
  <2>1. pc = "ask" /\ (WriteEntry(yesToAll) \/ WriteEntry(TRUE))
    BY <1>9 DEF AnswerYes, AnswerAlways
  <2>2. cursor <= Len(ctx.entries) /\ ~in.test /\ ~SafeStop(Entry) /\ ~(Mismatch /\ in.safe)
    BY <2>1 DEF Inv, Asked
  <2>3. yesToAll \in BOOLEAN /\ TRUE \in BOOLEAN
    BY DEF Inv, FileTypes
  <2> QED BY <2>1, <2>2, <2>3, WriteInv
<1>a. CASE UNCHANGED vars
  <2>1. /\ in \in Inputs /\ WalkOf(in, walk)
        /\ DecoderTypes /\ FileTypes /\ EndTypes /\ Handed /\ Fresh /\ Asked /\ SafeKept
    BY DEF Inv
  <2>2. UNCHANGED <<in, walk, ctx, pc, engine, sink, blockAt, out, err, cursor, end, yesToAll, failed,
                    refused, disk, said, rc>>
    BY <1>a DEF vars
  <2>3. WalkOf(in, walk)' /\ in' \in Inputs
    BY <2>1, <2>2
  <2>4. DecoderTypes'
    BY <2>1, <2>2 DEF DecoderTypes, UsesSink
  <2>5. FileTypes' /\ EndTypes' /\ Fresh'
    BY <2>1, <2>2 DEF FileTypes, EndTypes, Fresh
  <2>6. Asked'
    <3>1. Entry' = Entry /\ SafeStop(Entry)' = SafeStop(Entry) /\ Mismatch' = Mismatch
      BY <2>2 DEF Entry, SafeStop, Mismatch, Judged, LastPartial, Content
    <3> QED BY <2>1, <2>2, <3>1 DEF Asked
  <2> QED BY <2>1, <2>2, <2>3, <2>4, <2>5, <2>6, SafeStays, HandedStays DEF Inv
<1> QED BY <1>1, <1>2, <1>3, <1>4, <1>5, <1>6, <1>7, <1>8, <1>9, <1>a DEF Next, Done

\* The invariant holds throughout.
THEOREM Invariance == Spec => []Inv
<1>1. Init => Inv
  BY InitInv
<1>2. Inv /\ [Next \/ Done]_vars => Inv'
  BY NextInv
<1> QED BY <1>1, <1>2, PTL DEF Spec

\* Whatever the archive, and wherever it is cut or damaged, the variables have their
\* types: no decoder gives more than the tables announce, the loop is never past the
\* entry after the last, and the sink is with a decoder that may use it.
THEOREM TypeCorrect == Spec => []TypeOK
<1>1. Inv => TypeOK
  BY DEF Inv, DecoderTypes, FileTypes, EndTypes, TypeOK
<1> QED BY <1>1, Invariance, PTL

\* Whatever the archive, safe mode writes an entry whole, and with the bytes that were
\* archived if it has a checksum that can be told.
THEOREM SafeWrites == Spec => []SafeWritesVerified
<1>1. ASSUME Inv PROVE SafeWritesVerified
  <2>1. PICK x \in Inputs : x = in
    BY <1>1 DEF Inv
  <2>2. AllEntries = ListedIn(x, Len(x.records))
    BY <2>1 DEF AllEntries
  <2>3. PICK all \in Seq(EntriesIn(x)) : all = AllEntries
    <3>1. Len(x.records) \in 0 .. Len(x.records)
      BY InputsAssumption
    <3> QED BY <2>2, <3>1, TablesType
  <2>4. PICK es \in Seq(EntriesIn(x)) : es = ctx.entries /\ Begins(es, all)
    BY <1>1, <2>1, <2>2, <2>3 DEF Inv, Handed
  <2>5. ASSUME in.safe, NEW f \in FilesOf(in) \ in.locked, disk[f].new
        PROVE  \E j \in DOMAIN ctx.entries :
                   /\ ctx.entries[j].file = f /\ Len(disk[f].data) = ctx.entries[j].size
                   /\ j <= ctx.sums /\ in.checks => Right(f)
    <3>1. Kept(f)
      BY <1>1, <2>5 DEF Inv, SafeKept
    <3>2. PICK j \in DOMAIN ctx.entries :
            /\ ctx.entries[j].file = f /\ Len(disk[f].data) = ctx.entries[j].size
            /\ j <= ctx.sums /\ in.checks =>
                 disk[f] = [new |-> TRUE, there |-> TRUE, data |-> TrueContent(ctx.entries, j)]
      BY <3>1 DEF Kept
    <3>3. j \in 1 .. Len(es) /\ j \in DOMAIN all /\ all[j] = es[j]
      BY <2>4 DEF Begins
    <3>4. TrueContent(es, j) = TrueContent(all, j)
      <4>1. StartOf(es, j) = StartOf(all, j)
        BY <2>4, <3>3, StartSame
      <4> QED BY <3>3, <4>1 DEF TrueContent
    <3>5. ASSUME j <= ctx.sums, in.checks PROVE Right(f)
      <4>1. disk[f] = [new |-> TRUE, there |-> TRUE, data |-> TrueContent(AllEntries, j)]
        BY <2>3, <2>4, <3>2, <3>4, <3>5
      <4>2. j \in DOMAIN AllEntries /\ AllEntries[j].file = f
        BY <2>3, <2>4, <3>2, <3>3
      <4> QED BY <4>1, <4>2 DEF Right
    <3> QED BY <3>2, <3>5
  <2> QED BY <2>5 DEF SafeWritesVerified
<1> QED BY <1>1, Invariance, PTL
-----------------------------------------------------------------------------
(* How much the archive holds *)

\* What a record of a type adds.
Holds(x, type, j) == IF x.records[j].type = type THEN Len(x.records[j].body) ELSE 0

\* The bodies of data and checksum records have lengths.
LEMMA HoldsType ==
    ASSUME NEW x \in Inputs, NEW type \in {"data", "sums"}, NEW j \in 1 .. Len(x.records)
    PROVE  Holds(x, type, j) \in Nat
<1>1. /\ x.records[j].type = "data" => x.records[j].body \in Seq(Int)
      /\ x.records[j].type = "sums" => Len(x.records[j].body) \in Nat
  BY RecordFacts
<1>2. x.records[j].type = "data" => Len(x.records[j].body) \in Nat
  BY <1>1
<1> QED BY <1>1, <1>2 DEF Holds

\* How much there is, and how much one record more adds.
LEMMA HeldMore ==
    ASSUME NEW x \in Inputs, NEW type \in {"data", "sums"}, NEW n \in 0 .. Len(x.records)
    PROVE  /\ HeldIn(x, type, n) \in Nat
           /\ n = 0 => HeldIn(x, type, n) = 0
           /\ n < Len(x.records) =>
                HeldIn(x, type, n + 1) = HeldIn(x, type, n) + Holds(x, type, n + 1)
<1> DEFINE sizes == [j \in 1 .. n |-> IF x.records[j].type = type THEN Len(x.records[j].body) ELSE 0]
           more == [j \in 1 .. n + 1 |-> IF x.records[j].type = type THEN Len(x.records[j].body) ELSE 0]
<1>0. Len(x.records) \in Nat /\ n \in Nat /\ n + 1 \in Nat \ {0}
  BY InputsAssumption
<1>1. \A j \in 1 .. n : sizes[j] = Holds(x, type, j) /\ more[j] = sizes[j]
  BY <1>0 DEF Holds
<1>2. more[n + 1] = Holds(x, type, n + 1)
  BY <1>0 DEF Holds
<1>3. HeldIn(x, type, n) = SumBefore(sizes, n + 1)
  BY DEF HeldIn
<1>4. HeldIn(x, type, n + 1) = SumBefore(more, (n + 1) + 1)
  BY DEF HeldIn
<1>5. \A j \in 1 .. n : Holds(x, type, j) \in Nat
  BY <1>0, HoldsType
<1> HIDE DEF sizes, more
<1>6. \A j \in 1 .. (n + 1) - 1 : sizes[j] \in Nat /\ sizes[j] = more[j]
  BY <1>0, <1>1, <1>5
<1>7. SumBefore(sizes, n + 1) \in Nat
  BY <1>0, <1>6, SumType
<1>8. n = 0 => SumBefore(sizes, n + 1) = 0
  BY SumNone
<1>9. SumBefore(more, n + 1) = SumBefore(sizes, n + 1)
  BY <1>0, <1>6, SumSame
<1>10. SumBefore(more, (n + 1) + 1) = SumBefore(more, n + 1) + more[n + 1]
  BY <1>0, SumStep
<1> QED BY <1>2, <1>3, <1>4, <1>7, <1>8, <1>9, <1>10

\* Sums only grow.
LEMMA SumGrows ==
    ASSUME NEW sizes, NEW j \in Nat \ {0}, \A k \in 1 .. j - 1 : sizes[k] \in Nat, NEW i \in 1 .. j
    PROVE  SumBefore(sizes, i) <= SumBefore(sizes, j)
<1> DEFINE S == {d \in Nat : i + d <= j => SumBefore(sizes, i) <= SumBefore(sizes, i + d)}
<1>0. \A k \in 1 .. j : SumBefore(sizes, k) \in Nat
  <2>1. ASSUME NEW k \in 1 .. j PROVE SumBefore(sizes, k) \in Nat
    <3>1. k \in Nat \ {0} /\ \A m \in 1 .. k - 1 : sizes[m] \in Nat
      OBVIOUS
    <3> QED BY <3>1, SumType
  <2> QED BY <2>1
<1>1. 0 \in S
  BY <1>0
<1>2. ASSUME NEW d \in Nat, d \in S PROVE d + 1 \in S
  <2>1. CASE i + (d + 1) <= j
    <3>1. PICK m \in Nat \ {0} : m = i + d
      OBVIOUS
    <3>2. m \in 1 .. j /\ m \in 1 .. j - 1 /\ m + 1 = i + (d + 1) /\ m + 1 \in 1 .. j
      BY <2>1, <3>1
    <3>3. SumBefore(sizes, m + 1) = SumBefore(sizes, m) + sizes[m]
      BY SumStep
    <3>4. SumBefore(sizes, i) <= SumBefore(sizes, m)
      BY <1>2, <2>1, <3>1
    <3>5. sizes[m] \in Nat /\ SumBefore(sizes, m) \in Nat /\ SumBefore(sizes, i) \in Nat
      BY <1>0, <3>2
    <3>6. SumBefore(sizes, i) <= SumBefore(sizes, m + 1)
      BY <3>3, <3>4, <3>5
    <3> QED BY <3>2, <3>6
  <2>2. CASE ~ (i + (d + 1) <= j)
    BY <2>2
  <2> QED BY <2>1, <2>2
<1> HIDE DEF S
<1>3. Nat \subseteq S
  BY <1>1, <1>2, InductionOverNat
<1>4. j - i \in Nat /\ i + (j - i) = j
  OBVIOUS
<1>5. j - i \in S
  BY <1>3, <1>4
<1> QED BY <1>4, <1>5 DEF S

\* Joined sequences are as long as all of them.
LEMMA JoinedLength ==
    ASSUME NEW T, NEW ss, Len(ss) \in Nat, \A k \in 1 .. Len(ss) : ss[k] \in Seq(T),
           NEW sizes, \A k \in 1 .. Len(ss) : sizes[k] = Len(ss[k])
    PROVE  Len(Joined(ss)) = SumBefore(sizes, Len(ss) + 1)
<1>0. PICK n \in Nat : n = Len(ss)
  OBVIOUS
<1>1. PICK f : Joins(ss, f, n) /\ Joined(ss) = f[n]
  BY <1>0, JoinedIs
<1>2. f[0] = <<>> /\ \A k \in 0 .. n - 1 : f[k + 1] = f[k] \o ss[k + 1]
  BY <1>1, JoinsStep
<1>3. \A k \in 1 .. n : ss[k] \in Seq(T) /\ sizes[k] = Len(ss[k])
  BY <1>0
<1> DEFINE S == {k \in Nat : k <= n => f[k] \in Seq(T) /\ Len(f[k]) = SumBefore(sizes, k + 1)}
<1>4. 0 \in S
  <2>1. f[0] \in Seq(T) /\ Len(f[0]) = 0
    BY <1>2
  <2>2. SumBefore(sizes, 0 + 1) = 0
    BY SumNone
  <2> QED BY <2>1, <2>2
<1>5. ASSUME NEW k \in Nat, k \in S PROVE k + 1 \in S
  <2>1. CASE k + 1 <= n
    <3>1. k \in 0 .. n - 1 /\ k + 1 \in 1 .. n /\ k + 1 \in Nat \ {0}
      BY <2>1
    <3>2. f[k + 1] = f[k] \o ss[k + 1]
      BY <1>2, <3>1, Zenon
    <3>3. ss[k + 1] \in Seq(T) /\ sizes[k + 1] = Len(ss[k + 1])
      BY <1>3, <3>1
    <3>4. PICK a \in Seq(T), b \in Seq(T) : a = f[k] /\ b = ss[k + 1]
      BY <1>5, <2>1, <3>3
    <3>5. Len(a) = SumBefore(sizes, k + 1)
      BY <1>5, <2>1, <3>4
    <3>6. SumBefore(sizes, (k + 1) + 1) = SumBefore(sizes, k + 1) + sizes[k + 1]
      BY <3>1, SumStep
    <3>7. f[k + 1] = a \o b /\ Len(a \o b) = Len(a) + Len(b) /\ a \o b \in Seq(T)
      BY <3>2, <3>4
    <3>8. Len(f[k + 1]) = SumBefore(sizes, (k + 1) + 1)
      BY <3>3, <3>4, <3>5, <3>6, <3>7
    <3>9. f[k + 1] \in Seq(T)
      BY <3>7
    <3> QED BY <3>8, <3>9
  <2>2. CASE ~ (k + 1 <= n)
    BY <2>2
  <2> QED BY <2>1, <2>2
<1> HIDE DEF S
<1>6. Nat \subseteq S
  BY <1>4, <1>5, InductionOverNat
<1>7. n \in S
  BY <1>6
<1> QED BY <1>0, <1>1, <1>7 DEF S
-----------------------------------------------------------------------------
(* What the walk has read *)

UnitsOf(x, w) == SumBefore([k \in DOMAIN w.data |-> Len(x.records[w.data[k]].body)], Len(w.data) + 1)

\* The walk has the data records and checksums of the records before the next one, and
\* the entries of their tables, unless there is only a part of the first table.
ReadOf(x, w) ==
    /\ w.sums > 0 => w.attrs
    /\ w.sums = HeldIn(x, "sums", w.next - 1) /\ UnitsOf(x, w) = HeldIn(x, "data", w.next - 1)
    /\ w.cut = NoCut \/ (~w.open /\ w.cut.at = w.next /\ w.next \in DataOf(x))
    /\ \/ EntriesOf(w) = ListedIn(x, w.next - 1)
       \/ ~w.open /\ w.cut = NoCut /\ UnitsOf(x, w) = 0

\* No entries need no output.
LEMMA SizeOfNone == SizeOf(<<>>) = 0
<1>1. Len(<<>>) + 1 = 1
  OBVIOUS
<1>2. StartOf(<<>>, 1) = 0
  BY SumNone DEF StartOf
<1> QED BY <1>1, <1>2 DEF SizeOf

\* The walk before its first record.
LEMMA ReadStarts == ASSUME NEW x \in Inputs PROVE ReadOf(x, StartOfWalk)
<1> DEFINE w == StartOfWalk
<1>1. w.sums = 0 /\ w.next = 1 /\ w.data = <<>> /\ w.cut = NoCut /\ w.open
  BY DEF StartOfWalk
<1>2. EntriesOf(w) = ListedIn(x, w.next - 1)
  BY WalkStarts, <1>1 DEF WalkOf
<1>3. 0 \in 0 .. Len(x.records)
  BY InputsAssumption
<1>4. HeldIn(x, "sums", 0) = 0 /\ HeldIn(x, "data", 0) = 0
  BY <1>3, HeldMore
<1>5. UnitsOf(x, w) = 0
  <2>1. Len(w.data) + 1 = 1
    BY <1>1
  <2> QED BY <2>1, SumNone DEF UnitsOf
<1>6. w.next - 1 = 0 /\ ~(w.sums > 0)
  BY <1>1
<1> HIDE DEF w
<1>7. ReadOf(x, w)
  BY <1>1, <1>2, <1>4, <1>5, <1>6 DEF ReadOf
<1> QED BY <1>7 DEF w

\* One data record more.
LEMMA UnitsMore ==
    ASSUME NEW x \in Inputs, NEW w, w.data \in Seq(DataOf(x)), NEW j \in DataOf(x),
           NEW v, v.data = Append(w.data, j)
    PROVE  UnitsOf(x, v) = UnitsOf(x, w) + Len(x.records[j].body)
<1>1. PICK d \in Seq(DataOf(x)), e \in Seq(DataOf(x)), n \in Nat :
         d = w.data /\ e = v.data /\ n = Len(d) /\ e = Append(d, j)
  <2>1. \A d \in Seq(DataOf(x)) : Append(d, j) \in Seq(DataOf(x)) /\ Len(d) \in Nat
    OBVIOUS
  <2> QED BY <2>1
<1> DEFINE a == [k \in DOMAIN d |-> Len(x.records[d[k]].body)]
           b == [k \in DOMAIN e |-> Len(x.records[e[k]].body)]
<1>2. Len(e) = n + 1 /\ e[n + 1] = j /\ \A k \in 1 .. n : e[k] = d[k]
  BY <1>1
<1>3. DOMAIN d = 1 .. n /\ DOMAIN e = 1 .. n + 1
  BY <1>1, <1>2
<1>4. \A k \in 1 .. (n + 1) - 1 : a[k] = b[k]
  BY <1>2, <1>3
<1>5. b[n + 1] = Len(x.records[j].body)
  BY <1>2, <1>3
<1>6. UnitsOf(x, w) = SumBefore(a, n + 1) /\ UnitsOf(x, v) = SumBefore(b, (n + 1) + 1)
  BY <1>1, <1>2 DEF UnitsOf
<1> HIDE DEF a, b
<1>7. n + 1 \in Nat \ {0}
  OBVIOUS
<1>8. SumBefore(a, n + 1) = SumBefore(b, n + 1)
  BY <1>4, <1>7, SumSame
<1>9. SumBefore(b, (n + 1) + 1) = SumBefore(b, n + 1) + b[n + 1]
  BY <1>7, SumStep
<1> QED BY <1>5, <1>6, <1>8, <1>9

\* The walk that ends at a tag or in a payload.
LEMMA ReadStops ==
    ASSUME LaidOut, NEW x \in Inputs, NEW w, WalkOf(x, w), ReadOf(x, w), More(x.records, Size(x), w),
           NEW v, \/ v = TagCut(w)
                  \/ \E got \in Nat : v = PayloadCut(w, x.records[w.next], w.next, got)
    PROVE  ReadOf(x, v)
<1>0. /\ w \in WalksOf(x) /\ w.open /\ w.next \in 1 .. Len(x.records)
      /\ EntriesOf(w) = ListedIn(x, w.next - 1)
  BY WalkFacts
<1>1. w.cut = NoCut /\ UnitsOf(x, w) = HeldIn(x, "data", w.next - 1)
  BY <1>0 DEF ReadOf
<1> DEFINE r == x.records[w.next]
           first == r.type = "table" /\ w.tables = <<>>
<1>2. /\ ~v.open /\ v.sums = w.sums /\ v.attrs = w.attrs /\ v.data = w.data /\ v.next = w.next
      /\ v.cut = NoCut \/ (v.cut.at = w.next /\ r.type = "data")
      /\ v.tables = w.tables \/ (first /\ v.cut = NoCut)
  <2>1. CASE v = TagCut(w)
    BY <1>0, <1>1, <2>1 DEF TagCut, WalksOf
  <2>2. CASE \E got \in Nat : v = PayloadCut(w, x.records[w.next], w.next, got)
    <3>1. PICK got \in Nat : v = PayloadCut(w, r, w.next, got)
      BY <2>2
    <3>2. /\ ~v.open /\ v.sums = w.sums /\ v.attrs = w.attrs /\ v.data = w.data /\ v.next = w.next
      BY <1>0, <3>1 DEF PayloadCut, WalksOf
    <3> DEFINE inData == r.type = "data" /\ Known(w)
    <3>3. v.cut = IF inData THEN [at |-> w.next, got |-> got, of |-> Length(r)] ELSE w.cut
      BY <1>0, <3>1 DEF PayloadCut, WalksOf
    <3>4. v.tables = w.tables \/ (r.type = "table" /\ w.tables = <<>>)
      BY <1>0, <3>1 DEF PayloadCut, WalksOf
    <3> QED BY <1>1, <3>2, <3>3, <3>4
  <2> QED BY <2>1, <2>2
<1>3. UnitsOf(x, v) = UnitsOf(x, w)
  BY <1>2 DEF UnitsOf
<1>4. CASE v.tables = w.tables
  <2>1. EntriesOf(v) = EntriesOf(w)
    BY <1>4, EntriesSame
  <2>2. v.cut = NoCut \/ (v.cut.at = v.next /\ v.next \in DataOf(x))
    BY <1>0, <1>2 DEF DataOf
  <2> QED BY <1>0, <1>2, <1>3, <2>1, <2>2 DEF ReadOf
<1>5. CASE first /\ v.cut = NoCut
  <2>1. PICK n \in 0 .. Len(x.records) : n = w.next - 1
    BY <1>0, InputsAssumption
  <2>2. ListedIn(x, n) = <<>>
    <3>1. Len(NamesOf(w)) = 0
      BY <1>5 DEF NamesOf
    <3>2. EntriesOf(w) = Joined(NamesOf(w))
      BY DEF EntriesOf, NamesOf
    <3> QED BY <1>0, <2>1, <3>1, <3>2, JoinedNone
  <2>3. HeldIn(x, "data", n) <= SizeOf(ListedIn(x, n)) /\ HeldIn(x, "data", n) \in Nat
    BY HeldMore DEF LaidOut
  <2>4. UnitsOf(x, v) = 0
    BY <1>1, <1>3, <2>1, <2>2, <2>3, SizeOfNone
  <2> QED BY <1>1, <1>2, <1>3, <1>5, <2>4 DEF ReadOf
<1> QED BY <1>2, <1>4, <1>5

\* The walk that goes on behind a whole record.
LEMMA ReadWhole ==
    ASSUME NEW x \in Inputs, NEW w, WalkOf(x, w), ReadOf(x, w), More(x.records, Size(x), w),
           NEW behind \in Nat,
           NEW v, v = [WholeRecord(w, x.records[w.next], w.next) EXCEPT !.pos = behind,
                                                                       !.next = w.next + 1]
    PROVE  ReadOf(x, v)
<1> DEFINE r == x.records[w.next]
<1>0. /\ w \in WalksOf(x) /\ w.open /\ w.next \in 1 .. Len(x.records)
      /\ ~Known(w) => w.next = 1 /\ x.records[1].type = "codec" /\ x.records[1].body \in Families
  BY WalkFacts
<1>1. /\ w.cut = NoCut /\ (w.sums > 0 => w.attrs) /\ w.sums \in Nat
      /\ w.sums = HeldIn(x, "sums", w.next - 1) /\ UnitsOf(x, w) = HeldIn(x, "data", w.next - 1)
  BY <1>0 DEF ReadOf, WalksOf
<1>2. /\ r.type \in {"codec", "table", "times", "sums", "data"}
      /\ r.type = "sums" => Len(r.body) \in Nat
  BY <1>0, RecordFacts
<1>3. WalkOf(x, v)
  BY WholeKeeps
<1>4. v.open /\ v.next = w.next + 1 /\ v.cut = NoCut
      /\ v.sums = w.sums + Holds(x, "sums", w.next) /\ (v.sums > 0 => v.attrs)
      /\ v.data = IF r.type = "data" THEN Append(w.data, w.next) ELSE w.data
  <2>0. w.sums + 0 = w.sums
    BY <1>1
  <2>1. CASE r.type = "codec"
    <3>1. v = [w EXCEPT !.codec = IF Known(w) THEN w.codec ELSE r.body, !.pos = behind,
                        !.next = w.next + 1]
      BY <1>0, <2>1 DEF WholeRecord, WalksOf
    <3> QED BY <1>0, <1>1, <2>0, <2>1, <3>1 DEF WalksOf, Holds
  <2>2. CASE r.type = "table"
    <3>1. v = [w EXCEPT !.tables = Append(w.tables, [names |-> r.body, bytes |-> Length(r)]),
                        !.pos = behind, !.next = w.next + 1]
      BY <1>0, <2>2 DEF WholeRecord, WalksOf
    <3> QED BY <1>0, <1>1, <2>0, <2>2, <3>1 DEF WalksOf, Holds
  <2>3. CASE r.type = "times"
    <3>1. v = [w EXCEPT !.attrs = TRUE, !.pos = behind, !.next = w.next + 1]
      BY <1>0, <2>3 DEF WholeRecord, WalksOf
    <3> QED BY <1>0, <1>1, <2>0, <2>3, <3>1 DEF WalksOf, Holds
  <2>4. CASE r.type = "sums"
    <3>1. v = [w EXCEPT !.attrs = TRUE, !.sums = w.sums + Len(r.body), !.pos = behind,
                        !.next = w.next + 1]
      BY <1>0, <2>4 DEF WholeRecord, WalksOf
    <3> QED BY <1>0, <1>1, <2>4, <3>1 DEF WalksOf, Holds
  <2>5. CASE r.type = "data"
    <3>1. v = [w EXCEPT !.sawData = TRUE, !.data = Append(w.data, w.next), !.pos = behind,
                        !.next = w.next + 1]
      BY <1>0, <2>5 DEF WholeRecord, WalksOf
    <3> QED BY <1>0, <1>1, <2>0, <2>5, <3>1 DEF WalksOf, Holds
  <2> QED BY <1>2, <2>1, <2>2, <2>3, <2>4, <2>5
<1>5. PICK n \in 0 .. Len(x.records) :
          n = w.next - 1 /\ n < Len(x.records) /\ n + 1 = w.next /\ n + 1 = v.next - 1
  <2>1. Len(x.records) \in Nat
    BY InputsAssumption
  <2> QED BY <1>0, <1>4, <2>1
<1>6. /\ HeldIn(x, "sums", n + 1) = HeldIn(x, "sums", n) + Holds(x, "sums", n + 1)
      /\ HeldIn(x, "data", n + 1) = HeldIn(x, "data", n) + Holds(x, "data", n + 1)
      /\ HeldIn(x, "data", n) \in Nat
  BY <1>5, HeldMore
<1>7. UnitsOf(x, v) = UnitsOf(x, w) + Holds(x, "data", w.next)
  <2>1. CASE r.type = "data"
    <3>1. w.next \in DataOf(x) /\ w.data \in Seq(DataOf(x)) /\ v.data = Append(w.data, w.next)
      BY <1>0, <1>4, <2>1 DEF DataOf, WalksOf
    <3>2. UnitsOf(x, v) = UnitsOf(x, w) + Len(x.records[w.next].body)
      BY <3>1, UnitsMore
    <3> QED BY <2>1, <3>2 DEF Holds
  <2>2. CASE r.type # "data"
    <3>a. v.data = w.data
      BY <1>4, <2>2
    <3>b. UnitsOf(x, v) = UnitsOf(x, w)
      BY ONLY <3>a DEF UnitsOf
    <3>c. Holds(x, "data", w.next) = 0
      BY <2>2 DEF Holds
    <3>1. UnitsOf(x, v) = UnitsOf(x, w) /\ Holds(x, "data", w.next) = 0
      BY <3>b, <3>c
    <3>2. UnitsOf(x, w) \in Nat
      BY <1>1, <1>5, <1>6
    <3> QED BY <3>1, <3>2
  <2> QED BY <2>1, <2>2
<1>8. EntriesOf(v) = ListedIn(x, v.next - 1)
  BY <1>3, <1>4 DEF WalkOf
<1>9. v.sums = HeldIn(x, "sums", v.next - 1) /\ UnitsOf(x, v) = HeldIn(x, "data", v.next - 1)
  BY <1>1, <1>4, <1>5, <1>6, <1>7
<1> QED BY <1>4, <1>8, <1>9 DEF ReadOf

\* One turn of the walk.
LEMMA ReadGoesOn ==
    ASSUME LaidOut, NEW x \in Inputs, NEW w, WalkOf(x, w), ReadOf(x, w), More(x.records, Size(x), w)
    PROVE  ReadOf(x, WalkRecord(x.records, Size(x), w))
<1> DEFINE r == x.records[w.next]
           body == w.pos + TagBytes
           behind == body + Length(r)
<1>0. w.next \in 1 .. Len(x.records) /\ w.pos \in Nat
  BY WalkFacts
<1>1. body \in Nat /\ Length(r) \in Nat /\ behind \in Nat /\ Size(x) \in Nat
  <2>1. Length(r) \in Nat
    BY <1>0, RecordFacts
  <2>2. Size(x) \in Nat
    BY SizeType
  <2> HIDE DEF r
  <2> QED BY <1>0, <2>1, <2>2, RecordWalkAssumption
<1>2. CASE body > Size(x)
  <2>1. WalkRecord(x.records, Size(x), w) = TagCut(w)
    BY <1>1, <1>2 DEF WalkRecord
  <2> QED BY <2>1, ReadStops
<1>3. CASE body <= Size(x) /\ behind > Size(x)
  <2>1. WalkRecord(x.records, Size(x), w) = PayloadCut(w, r, w.next, Size(x) - body)
    BY <1>1, <1>3 DEF WalkRecord
  <2>2. Size(x) - body \in Nat
    BY <1>1, <1>3
  <2>3. \E got \in Nat : WalkRecord(x.records, Size(x), w) = PayloadCut(w, x.records[w.next], w.next, got)
    BY <2>1, <2>2
  <2> QED BY <2>3, ReadStops
<1>4. CASE behind <= Size(x)
  <2>1. WalkRecord(x.records, Size(x), w) =
          [WholeRecord(w, x.records[w.next], w.next) EXCEPT !.pos = behind, !.next = w.next + 1]
    BY <1>1, <1>4 DEF WalkRecord
  <2> HIDE DEF behind
  <2> QED BY <1>1, <2>1, ReadWhole
<1> QED BY <1>1, <1>2, <1>3, <1>4
-----------------------------------------------------------------------------
(* What is handed over *)

\* How much the data records the walk read hold, the one it was cut in taken as whole.
Reach(x, w) == UnitsOf(x, w) + IF w.cut = NoCut THEN 0 ELSE Len(x.records[w.cut.at].body)

\* It is a number.
LEMMA ReachType ==
    ASSUME NEW x \in Inputs, NEW w \in WalksOf(x), ReadOf(x, w)
    PROVE  /\ UnitsOf(x, w) \in Nat /\ Reach(x, w) \in Nat /\ UnitsOf(x, w) <= Reach(x, w)
           /\ w.cut # NoCut => Len(x.records[w.cut.at].body) \in Nat
<1>1. PICK n \in 0 .. Len(x.records) : n = w.next - 1
  BY InputsAssumption DEF WalksOf
<1>2. UnitsOf(x, w) \in Nat
  BY <1>1, HeldMore DEF ReadOf
<1>3. w.cut # NoCut => Len(x.records[w.cut.at].body) \in Nat
  <2>1. SUFFICES ASSUME w.cut # NoCut PROVE Len(x.records[w.cut.at].body) \in Nat
    OBVIOUS
  <2>2. w.cut.at \in DataOf(x)
    BY <2>1 DEF WalksOf, CutsIn
  <2>3. x.records[w.cut.at].body \in Seq(Int)
    BY <2>2, RecordFacts DEF DataOf
  <2>4. \A b \in Seq(Int) : Len(b) \in Nat
    OBVIOUS
  <2> QED BY <2>3, <2>4
<1>4. PICK m \in Nat : m = UnitsOf(x, w)
  BY <1>2
<1>5. PICK more \in Nat : more = IF w.cut = NoCut THEN 0 ELSE Len(x.records[w.cut.at].body)
  BY <1>3
<1>6. Reach(x, w) = m + more
  BY <1>4, <1>5 DEF Reach
<1> QED BY <1>3, <1>4, <1>6

\* Entries that need output are some.
LEMMA SomeEntries ==
    ASSUME NEW x \in Inputs, NEW es \in Seq(EntriesIn(x)), SizeOf(es) > 0
    PROVE  Len(es) > 0
<1>1. CASE es = <<>>
  BY <1>1, SizeOfNone
<1>2. CASE es # <<>>
  BY <1>2
<1> QED BY <1>1, <1>2

\* Every checksum can then be told.
LEMMA AllTold ==
    ASSUME NEW x \in Inputs, NEW w, WalkOf(x, w), ReadOf(x, w), NEW found,
           w.sums = Len(EntriesOf(w)), SizeOf(EntriesOf(w)) > 0
    PROVE  LET c == Context(x, w, found) IN c.sums = Len(c.entries) /\ c.verifies
<1> DEFINE es == EntriesOf(w)
           H == {j \in DOMAIN es : HasSum(w, j)}
<1>1. es \in Seq(EntriesIn(x))
  BY EntriesType DEF WalkOf, WalksOf
<1>2. PICK n \in Nat : n = Len(es) /\ DOMAIN es = 1 .. n /\ n > 0
  BY <1>1, SomeEntries
<1>3. AttributesRead(w) /\ w.attrs /\ w.sums = n
  BY <1>2 DEF ReadOf, AttributesRead
<1>4. H = 1 .. n
  <2> HIDE DEF es
  <2> QED BY <1>2, <1>3 DEF HasSum
<1>5. Cardinality(1 .. n) = n
  <2>1. 1 \in Int /\ n \in Int
    OBVIOUS
  <2>2. Cardinality(1 .. n) = IF 1 > n THEN 0 ELSE n - 1 + 1
    BY <2>1, FS_Interval
  <2> QED BY <1>2, <2>2
<1>6. Context(x, w, found).sums = Cardinality(H) /\ Context(x, w, found).verifies = Verifies(w)
      /\ Context(x, w, found).entries = es
  BY DEF Context
<1> QED BY <1>2, <1>3, <1>4, <1>5, <1>6 DEF Verifies

\* How much the first blocks give, up to the i-th, and all of them.
GivenBefore(blocks, i) == SumBefore([k \in DOMAIN blocks |-> Len(blocks[k].units)], i)

Given(blocks) == GivenBefore(blocks, Len(blocks) + 1)

\* They are numbers that grow.
LEMMA GivenType ==
    ASSUME NEW blocks \in BlocksType, NEW i \in 1 .. Len(blocks) + 1
    PROVE  /\ GivenBefore(blocks, i) \in Nat /\ Given(blocks) \in Nat
           /\ GivenBefore(blocks, i) <= Given(blocks)
           /\ i = 1 => GivenBefore(blocks, i) = 0
           /\ i <= Len(blocks) =>
                GivenBefore(blocks, i + 1) = GivenBefore(blocks, i) + Len(blocks[i].units)
<1> DEFINE B == [units : Seq(Int), may : SUBSET Outcomes]
           sizes == [k \in DOMAIN blocks |-> Len(blocks[k].units)]
<1>1. PICK s \in Seq(B), n \in Nat : s = blocks /\ n = Len(s) /\ DOMAIN s = 1 .. n
  BY DEF BlocksType
<1>2. ASSUME NEW k \in 1 .. n PROVE sizes[k] \in Nat /\ sizes[k] = Len(blocks[k].units)
  <2>1. s[k] \in B
    <3> HIDE DEF B
    <3> QED BY <1>1
  <2>2. \A b \in Seq(Int) : Len(b) \in Nat
    OBVIOUS
  <2>3. Len(s[k].units) \in Nat
    BY <2>1, <2>2
  <2>4. sizes[k] = Len(blocks[k].units)
    BY <1>1
  <2> QED BY <1>1, <2>3, <2>4
<1> HIDE DEF sizes, B
<1>3. i \in Nat \ {0} /\ i \in 1 .. n + 1 /\ n + 1 \in Nat \ {0} /\ Len(blocks) = n
  BY <1>1
<1>4. (\A k \in 1 .. i - 1 : sizes[k] \in Nat) /\ \A k \in 1 .. (n + 1) - 1 : sizes[k] \in Nat
  BY <1>2, <1>3
<1>5. SumBefore(sizes, i) \in Nat /\ SumBefore(sizes, n + 1) \in Nat
  BY <1>3, <1>4, SumType
<1>6. SumBefore(sizes, i) <= SumBefore(sizes, n + 1)
  BY <1>3, <1>4, SumGrows
<1>7. i = 1 => SumBefore(sizes, i) = 0
  BY SumNone
<1>8. SumBefore(sizes, i + 1) = SumBefore(sizes, i) + sizes[i]
  BY <1>3, SumStep
<1>9. i <= n => sizes[i] = Len(blocks[i].units)
  BY <1>2, <1>3
<1> QED BY <1>3, <1>5, <1>6, <1>7, <1>8, <1>9 DEF GivenBefore, Given, sizes

\* The blocks give no more than the records hold.
LEMMA BlocksReach ==
    ASSUME NEW x \in Inputs, NEW w \in WalksOf(x), ReadOf(x, w)
    PROVE  Given(Blocks(x, w)) <= Reach(x, w)
<1> DEFINE whole == [j \in DOMAIN w.data |-> [units |-> x.records[w.data[j]].body,
                                              may |-> IF w.data[j] = x.damaged THEN {x.how} ELSE {"right"}]]
           none == w.cut = NoCut \/ w.data = <<>> \/ StumpOutcomes(w) = {}
           b == [units |-> x.records[w.cut.at].body, may |-> StumpOutcomes(w)]
           a == [k \in DOMAIN w.data |-> Len(x.records[w.data[k]].body)]
<1>1. PICK d \in Seq(DataOf(x)), n \in Nat : d = w.data /\ n = Len(d) /\ DOMAIN d = 1 .. n
  BY DEF WalksOf
<1>2. UnitsOf(x, w) = SumBefore(a, n + 1)
  BY <1>1 DEF UnitsOf
<1>3. Blocks(x, w) = whole \o (IF none THEN <<>> ELSE <<b>>)
  BY DEF Blocks
<1> DEFINE f(k) == [units |-> x.records[w.data[k]].body,
                    may |-> IF w.data[k] = x.damaged THEN {x.how} ELSE {"right"}]
           T == {f(k) : k \in 1 .. n}
<1>4. whole \in Seq(T) /\ Len(whole) = n /\ \A k \in 1 .. n : Len(whole[k].units) = a[k]
  <2>1. whole = [k \in 1 .. n |-> f(k)] /\ \A k \in 1 .. n : f(k) \in T
    BY <1>1
  <2>2. \A k \in 1 .. n : Len(whole[k].units) = a[k]
    BY <1>1
  <2> HIDE DEF whole, f, T
  <2>3. [k \in 1 .. n |-> f(k)] \in Seq(T) /\ Len([k \in 1 .. n |-> f(k)]) = n
    BY <2>1
  <2> QED BY <2>1, <2>2, <2>3
<1> HIDE DEF f, T
<1>5. UnitsOf(x, w) \in Nat /\ Reach(x, w) \in Nat /\ UnitsOf(x, w) <= Reach(x, w)
  BY ReachType
<1>6. CASE none
  <2>1. Blocks(x, w) = whole
    <3>1. Blocks(x, w) = whole \o <<>>
      BY <1>3, <1>6
    <3> HIDE DEF whole
    <3>2. whole \o <<>> = whole
      BY <1>4
    <3> QED BY <3>1, <3>2
  <2> DEFINE c == [k \in DOMAIN whole |-> Len(whole[k].units)]
  <2>2. \A k \in 1 .. (n + 1) - 1 : c[k] = a[k]
    BY <1>1, <1>4
  <2>3. Given(Blocks(x, w)) = SumBefore(c, n + 1)
    BY <1>4, <2>1 DEF Given, GivenBefore
  <2> HIDE DEF a, c, whole, none
  <2>4. n + 1 \in Nat \ {0}
    OBVIOUS
  <2>5. SumBefore(c, n + 1) = SumBefore(a, n + 1)
    BY <2>2, <2>4, SumSame
  <2> QED BY <1>2, <1>5, <2>3, <2>5
<1>7. CASE ~none
  <2> DEFINE all == whole \o <<b>>
             c == [k \in DOMAIN all |-> Len(all[k].units)]
  <2>1. Blocks(x, w) = all
    BY <1>3, <1>7
  <2>2. Len(all) = n + 1 /\ DOMAIN all = 1 .. n + 1 /\ all[n + 1] = b
        /\ \A k \in 1 .. n : all[k] = whole[k]
    <3> HIDE DEF b, whole
    <3> QED BY <1>4
  <2>3. \A k \in 1 .. (n + 1) - 1 : c[k] = a[k]
    <3> HIDE DEF all, whole, a
    <3> QED BY <1>4, <2>2
  <2>4. c[n + 1] = Len(x.records[w.cut.at].body)
    <3> HIDE DEF all
    <3> QED BY <2>2
  <2>5. Given(Blocks(x, w)) = SumBefore(c, (n + 1) + 1)
    BY <2>1, <2>2 DEF Given, GivenBefore
  <2> HIDE DEF a, c, all, whole
  <2>6. n + 1 \in Nat \ {0}
    OBVIOUS
  <2>7. SumBefore(c, n + 1) = SumBefore(a, n + 1)
    BY <2>3, <2>6, SumSame
  <2>8. SumBefore(c, (n + 1) + 1) = SumBefore(c, n + 1) + c[n + 1]
    BY <2>6, SumStep
  <2>9. Reach(x, w) = UnitsOf(x, w) + Len(x.records[w.cut.at].body)
    BY <1>7 DEF Reach
  <2> QED BY <1>2, <1>5, <2>4, <2>5, <2>7, <2>8, <2>9
<1> QED BY <1>6, <1>7

\* Nor does a stored archive.
LEMMA StoredReach ==
    ASSUME NEW x \in Inputs, NEW w \in WalksOf(x), ReadOf(x, w), w.codec = "store"
    PROVE  Len(StoredUnits(Records(x), w)) <= Reach(x, w)
<1> DEFINE a == [k \in DOMAIN w.data |-> Len(x.records[w.data[k]].body)]
           ss == [k \in DOMAIN w.data |-> Records(x)[w.data[k]].body]
<1>1. PICK d \in Seq(DataOf(x)), n \in Nat : d = w.data /\ n = Len(d) /\ DOMAIN d = 1 .. n
  BY DEF WalksOf
<1>2. UnitsOf(x, w) = SumBefore(a, n + 1)
  BY <1>1 DEF UnitsOf
<1>3. ASSUME NEW k \in 1 .. n PROVE ss[k] \in Seq(Int) /\ a[k] = Len(ss[k])
  <2>1. d[k] \in DataOf(x)
    BY <1>1
  <2>2. ss[k] = Records(x)[d[k]].body /\ a[k] = Len(x.records[d[k]].body)
    BY <1>1
  <2> HIDE DEF ss, a
  <2> QED BY <2>1, <2>2, BodyType
<1>4. Len(ss) = n /\ WholeUnits(Records(x), w) = Joined(ss)
  BY <1>1 DEF WholeUnits
<1> HIDE DEF ss, a
<1>5. Len(Joined(ss)) = SumBefore(a, n + 1)
  <2>1. Len(ss) \in Nat /\ (\A k \in 1 .. Len(ss) : ss[k] \in Seq(Int))
    BY <1>3, <1>4
  <2>2. \A k \in 1 .. Len(ss) : a[k] = Len(ss[k])
    BY <1>3, <1>4
  <2>3. Len(Joined(ss)) = SumBefore(a, Len(ss) + 1)
    BY ONLY <2>1, <2>2, JoinedLength
  <2> QED BY <1>4, <2>3
<1>6. w.cut = NoCut => Len(CutUnits(Records(x), w)) = 0
  BY DEF CutUnits
<1>7. w.cut # NoCut => Len(CutUnits(Records(x), w)) = Len(x.records[w.cut.at].body)
  BY StoredParts
<1>8. Len(StoredUnits(Records(x), w)) <=
        Len(WholeUnits(Records(x), w)) + Len(CutUnits(Records(x), w))
  BY StoredType
<1>9. Len(WholeUnits(Records(x), w)) + Len(CutUnits(Records(x), w)) = Reach(x, w)
  BY <1>2, <1>4, <1>5, <1>6, <1>7 DEF Reach
<1> QED BY <1>8, <1>9
-----------------------------------------------------------------------------
(* Where the walk is *)

\* A record starts where the one before it ends.
LEMMA AtMore ==
    ASSUME NEW x \in Inputs, NEW n \in 1 .. Len(x.records)
    PROVE  /\ At(x.records, n) \in Nat /\ At(x.records, n + 1) \in Nat /\ Length(x.records[n]) \in Nat
           /\ n = 1 => At(x.records, n) = 0
           /\ At(x.records, n + 1) = At(x.records, n) + (TagBytes + Length(x.records[n]))
<1> DEFINE sizes == [k \in DOMAIN x.records |-> TagBytes + Length(x.records[k])]
<1>1. Len(x.records) \in Nat /\ DOMAIN x.records = 1 .. Len(x.records) /\ n \in Nat \ {0}
  BY InputsAssumption
<1>2. ASSUME NEW k \in 1 .. Len(x.records)
      PROVE  sizes[k] \in Nat /\ sizes[k] = TagBytes + Length(x.records[k])
  <2>1. Length(x.records[k]) \in Nat
    BY RecordFacts
  <2> QED BY <1>1, <2>1, RecordWalkAssumption
<1>3. At(x.records, n) = SumBefore(sizes, n) /\ At(x.records, n + 1) = SumBefore(sizes, n + 1)
  BY DEF At
<1> HIDE DEF sizes
<1>4. \A k \in 1 .. n - 1 : sizes[k] \in Nat
  BY <1>1, <1>2
<1>5. SumBefore(sizes, n) \in Nat
  BY <1>1, <1>4, SumType
<1>6. SumBefore(sizes, n + 1) = SumBefore(sizes, n) + sizes[n]
  BY <1>1, SumStep
<1>7. n = 1 => SumBefore(sizes, n) = 0
  BY SumNone
<1>8. Length(x.records[n]) \in Nat
  BY RecordFacts
<1> QED BY <1>2, <1>3, <1>5, <1>6, <1>7, <1>8

\* A later record starts behind an earlier one.
LEMMA AtGrows ==
    ASSUME NEW x \in Inputs, NEW i \in 1 .. Len(x.records), NEW j \in i + 1 .. Len(x.records) + 1
    PROVE  At(x.records, i) < At(x.records, i + 1) /\ At(x.records, i + 1) <= At(x.records, j)
<1> DEFINE sizes == [k \in DOMAIN x.records |-> TagBytes + Length(x.records[k])]
<1>1. Len(x.records) \in Nat /\ DOMAIN x.records = 1 .. Len(x.records)
      /\ j \in Nat \ {0} /\ i + 1 \in 1 .. j
  BY InputsAssumption
<1>2. ASSUME NEW k \in 1 .. j - 1 PROVE sizes[k] \in Nat
  <2>1. k \in 1 .. Len(x.records)
    BY <1>1
  <2>2. Length(x.records[k]) \in Nat
    BY <2>1, RecordFacts
  <2> QED BY <1>1, <2>1, <2>2, RecordWalkAssumption
<1>3. At(x.records, i + 1) = SumBefore(sizes, i + 1) /\ At(x.records, j) = SumBefore(sizes, j)
  BY DEF At
<1> HIDE DEF sizes
<1>4. SumBefore(sizes, i + 1) <= SumBefore(sizes, j)
  BY <1>1, <1>2, SumGrows
<1>5. At(x.records, i) < At(x.records, i + 1)
  BY AtMore, RecordWalkAssumption
<1> QED BY <1>3, <1>4, <1>5

\* What the data records before the k-th that was read hold.
UnitsBefore(x, w, k) == SumBefore([i \in DOMAIN w.data |-> Len(x.records[w.data[i]].body)], k)

\* The walk is at the start of a record, or it ended in the one it is at; the data records
\* it has stand before that and hold the units they hold in the archive; all tables are
\* whole, unless it ended in the first; and behind the first record the codec is known.
PlaceOf(x, w) ==
    /\ w.pos = At(x.records, w.next) /\ w.pos <= Size(x)
    /\ w.truncated = ~w.open /\ (w.next > 1 => Known(w))
    /\ ~w.open => w.next <= Len(x.records) /\ At(x.records, w.next + 1) > Size(x)
    /\ \A k \in DOMAIN w.data :
          w.data[k] < w.next /\ UnitsBefore(x, w, k) = HeldIn(x, "data", w.data[k] - 1)
    /\ \/ \A k \in DOMAIN w.tables : w.tables[k].bytes = EntryBytes * Len(w.tables[k].names)
       \/ ~w.open /\ w.cut = NoCut /\ UnitsOf(x, w) = 0
    /\ w.open /\ (w.tables # <<>> \/ w.sawData) =>
          \E j \in DOMAIN x.records : x.records[j].type \in {"table", "data"}
    /\ w.open /\ w.data # <<>> => w.sawData

\* The walk starts at the first record.
LEMMA PlaceStarts == ASSUME NEW x \in Inputs PROVE PlaceOf(x, StartOfWalk)
<1> DEFINE w == StartOfWalk
<1>1. /\ w.pos = 0 /\ w.next = 1 /\ w.data = <<>> /\ w.tables = <<>>
      /\ w.open = TRUE /\ w.truncated = FALSE /\ w.sawData = FALSE
  BY DEF StartOfWalk
<1>2. 1 \in 1 .. Len(x.records)
  BY InputsAssumption
<1>3. At(x.records, 1) = 0 /\ 0 <= Size(x)
  BY <1>2, AtMore, SizeType
<1> HIDE DEF w
<1>4. /\ \A k \in DOMAIN w.data :
            w.data[k] < w.next /\ UnitsBefore(x, w, k) = HeldIn(x, "data", w.data[k] - 1)
      /\ \A k \in DOMAIN w.tables : w.tables[k].bytes = EntryBytes * Len(w.tables[k].names)
  <2>1. DOMAIN w.data = {} /\ DOMAIN w.tables = {}
    BY <1>1
  <2> QED BY <2>1
<1>5. w.pos = At(x.records, w.next) /\ w.pos <= Size(x)
  BY <1>1, <1>3
<1>6. PlaceOf(x, w)
  <2>1. ~ (w.next > 1)
    BY <1>1
  <2> QED BY ONLY <1>1, <1>4, <1>5, <2>1 DEF PlaceOf
<1> QED BY <1>6 DEF w

\* The walk that ends at a tag or in a payload.
LEMMA PlaceStops ==
    ASSUME LaidOut, NEW x \in Inputs, NEW w, WalkOf(x, w), ReadOf(x, w), PlaceOf(x, w),
           More(x.records, Size(x), w), At(x.records, w.next + 1) > Size(x),
           NEW v, \/ v = TagCut(w)
                  \/ \E got \in Nat : v = PayloadCut(w, x.records[w.next], w.next, got)
    PROVE  PlaceOf(x, v)
<1>0. /\ w \in WalksOf(x) /\ w.open /\ w.next \in 1 .. Len(x.records)
      /\ EntriesOf(w) = ListedIn(x, w.next - 1)
  BY WalkFacts
<1>1. w.cut = NoCut /\ UnitsOf(x, w) = HeldIn(x, "data", w.next - 1)
  BY <1>0 DEF ReadOf
<1> DEFINE r == x.records[w.next]
           first == r.type = "table" /\ w.tables = <<>>
<1>2. /\ ~v.open /\ v.truncated /\ v.data = w.data /\ v.next = w.next /\ v.pos = w.pos
      /\ v.tables = w.tables \/ (first /\ v.cut = NoCut)
  <2>1. CASE v = TagCut(w)
    BY <1>0, <1>1, <2>1 DEF TagCut, WalksOf
  <2>2. CASE \E got \in Nat : v = PayloadCut(w, x.records[w.next], w.next, got)
    <3>1. PICK got \in Nat : v = PayloadCut(w, r, w.next, got)
      BY <2>2
    <3>2. /\ ~v.open /\ v.truncated /\ v.data = w.data /\ v.next = w.next /\ v.pos = w.pos
      BY <1>0, <3>1 DEF PayloadCut, WalksOf
    <3> DEFINE inData == r.type = "data" /\ Known(w)
    <3>3. v.cut = IF inData THEN [at |-> w.next, got |-> got, of |-> Length(r)] ELSE w.cut
      BY <1>0, <3>1 DEF PayloadCut, WalksOf
    <3>4. v.tables = w.tables \/ (r.type = "table" /\ w.tables = <<>>)
      BY <1>0, <3>1 DEF PayloadCut, WalksOf
    <3> QED BY <1>1, <3>2, <3>3, <3>4
  <2> QED BY <2>1, <2>2
<1>3. UnitsOf(x, v) = UnitsOf(x, w)
  BY <1>2 DEF UnitsOf
<1>4. \A k \in DOMAIN v.data :
          v.data[k] < v.next /\ UnitsBefore(x, v, k) = HeldIn(x, "data", v.data[k] - 1)
  BY <1>2 DEF PlaceOf, UnitsBefore
<1>5. \/ \A k \in DOMAIN v.tables : v.tables[k].bytes = EntryBytes * Len(v.tables[k].names)
      \/ ~v.open /\ v.cut = NoCut /\ UnitsOf(x, v) = 0
  <2>1. CASE v.tables = w.tables
    BY <1>0, <2>1 DEF PlaceOf
  <2>2. CASE first /\ v.cut = NoCut
    <3>1. PICK n \in 0 .. Len(x.records) : n = w.next - 1
      BY <1>0, InputsAssumption
    <3>2. ListedIn(x, n) = <<>>
      <4>1. Len(NamesOf(w)) = 0
        BY <2>2 DEF NamesOf
      <4>2. EntriesOf(w) = Joined(NamesOf(w))
        BY DEF EntriesOf, NamesOf
      <4> QED BY <1>0, <3>1, <4>1, <4>2, JoinedNone
    <3>3. HeldIn(x, "data", n) <= SizeOf(ListedIn(x, n)) /\ HeldIn(x, "data", n) \in Nat
      BY HeldMore DEF LaidOut
    <3>4. HeldIn(x, "data", n) = 0
      <4>1. SizeOf(ListedIn(x, n)) = 0
        BY <3>2, SizeOfNone
      <4> QED BY <3>3, <4>1
    <3>5. UnitsOf(x, w) = HeldIn(x, "data", n)
      BY <1>1, <3>1
    <3> QED BY <1>2, <1>3, <2>2, <3>4, <3>5
  <2> QED BY <1>2, <2>1, <2>2
<1>6. w.next <= Len(x.records)
  BY <1>0
<1>7. v.next > 1 => Known(v)
  <2>1. v.codec = w.codec
    <3>1. CASE v = TagCut(w)
      BY <1>0, <3>1 DEF TagCut, WalksOf
    <3>2. CASE \E got \in Nat : v = PayloadCut(w, x.records[w.next], w.next, got)
      <4>1. PICK got \in Nat : v = PayloadCut(w, r, w.next, got)
        BY <3>2
      <4> QED BY ONLY <1>0, <4>1 DEF PayloadCut, WalksOf
    <3> QED BY <3>1, <3>2
  <2> QED BY <1>2, <2>1 DEF PlaceOf, Known
<1> QED BY <1>2, <1>4, <1>5, <1>6, <1>7 DEF PlaceOf

\* One data record more stands behind those before it.
LEMMA UnitsFollow ==
    ASSUME NEW x \in Inputs, NEW w, w.data \in Seq(DataOf(x)), NEW j \in DataOf(x),
           NEW v, v.data = Append(w.data, j)
    PROVE  /\ DOMAIN v.data = 1 .. Len(w.data) + 1 /\ v.data[Len(w.data) + 1] = j
           /\ UnitsBefore(x, v, Len(w.data) + 1) = UnitsOf(x, w)
           /\ \A k \in DOMAIN w.data :
                 v.data[k] = w.data[k] /\ UnitsBefore(x, v, k) = UnitsBefore(x, w, k)
<1>1. PICK d \in Seq(DataOf(x)), e \in Seq(DataOf(x)), n \in Nat :
         d = w.data /\ e = v.data /\ n = Len(d) /\ e = Append(d, j)
  <2>1. \A d \in Seq(DataOf(x)) : Append(d, j) \in Seq(DataOf(x)) /\ Len(d) \in Nat
    OBVIOUS
  <2> QED BY <2>1
<1> DEFINE a == [k \in DOMAIN d |-> Len(x.records[d[k]].body)]
           b == [k \in DOMAIN e |-> Len(x.records[e[k]].body)]
<1>2. Len(e) = n + 1 /\ e[n + 1] = j /\ \A k \in 1 .. n : e[k] = d[k]
  BY <1>1
<1>3. DOMAIN d = 1 .. n /\ DOMAIN e = 1 .. n + 1
  BY <1>1, <1>2
<1>4. \A k \in 1 .. n : a[k] = b[k]
  BY <1>2, <1>3
<1>5. UnitsOf(x, w) = SumBefore(a, n + 1)
  BY <1>1 DEF UnitsOf
<1>6. \A k : UnitsBefore(x, w, k) = SumBefore(a, k) /\ UnitsBefore(x, v, k) = SumBefore(b, k)
  BY <1>1 DEF UnitsBefore
<1> HIDE DEF a, b
<1>7. ASSUME NEW k \in 1 .. n + 1 PROVE SumBefore(a, k) = SumBefore(b, k)
  <2>1. k \in Nat \ {0} /\ \A i \in 1 .. k - 1 : i \in 1 .. n
    BY <1>1
  <2>2. \A i \in 1 .. k - 1 : a[i] = b[i]
    BY <1>4, <2>1
  <2> QED BY <2>1, <2>2, SumSame
<1> QED BY <1>1, <1>2, <1>3, <1>5, <1>6, <1>7

\* The walk that goes on behind a whole record.
LEMMA PlaceWhole ==
    ASSUME NEW x \in Inputs, NEW w, WalkOf(x, w), ReadOf(x, w), PlaceOf(x, w),
           More(x.records, Size(x), w), NEW behind \in Nat,
           behind = At(x.records, w.next + 1), behind <= Size(x),
           NEW v, v = [WholeRecord(w, x.records[w.next], w.next) EXCEPT !.pos = behind,
                                                                       !.next = w.next + 1],
           WalkOf(x, v)
    PROVE  PlaceOf(x, v)
<1> DEFINE r == x.records[w.next]
<1>0. /\ w \in WalksOf(x) /\ w.open /\ w.next \in 1 .. Len(x.records)
      /\ ~Known(w) => w.next = 1 /\ x.records[1].type = "codec" /\ x.records[1].body \in Families
  BY WalkFacts
<1>1. w.cut = NoCut /\ UnitsOf(x, w) = HeldIn(x, "data", w.next - 1) /\ ~w.truncated
      /\ (w.data # <<>> => w.sawData)
  BY <1>0 DEF ReadOf, PlaceOf
<1>2. /\ r.type \in {"codec", "table", "times", "sums", "data"}
      /\ r.type = "sums" => Len(r.body) \in Nat
      /\ r.type = "table" => Length(r) = EntryBytes * Len(r.body)
  BY <1>0, RecordFacts
<1>3. /\ v.open = w.open /\ v.truncated = w.truncated /\ v.next = w.next + 1 /\ v.pos = behind
      /\ v.data = IF r.type = "data" THEN Append(w.data, w.next) ELSE w.data
      /\ v.sawData = (w.sawData \/ r.type = "data")
      /\ v.tables = IF r.type = "table" THEN Append(w.tables, [names |-> r.body, bytes |-> Length(r)])
                                        ELSE w.tables
  <2>1. CASE r.type = "codec"
    <3>1. v = [w EXCEPT !.codec = IF Known(w) THEN w.codec ELSE r.body, !.pos = behind,
                        !.next = w.next + 1]
      BY <1>0, <2>1 DEF WholeRecord, WalksOf
    <3> QED BY <1>0, <1>1, <2>1, <3>1 DEF WalksOf
  <2>2. CASE r.type = "table"
    <3>1. v = [w EXCEPT !.tables = Append(w.tables, [names |-> r.body, bytes |-> Length(r)]),
                        !.pos = behind, !.next = w.next + 1]
      BY <1>0, <2>2 DEF WholeRecord, WalksOf
    <3> QED BY <1>0, <1>1, <2>2, <3>1 DEF WalksOf
  <2>3. CASE r.type = "times"
    <3>1. v = [w EXCEPT !.attrs = TRUE, !.pos = behind, !.next = w.next + 1]
      BY <1>0, <2>3 DEF WholeRecord, WalksOf
    <3> QED BY <1>0, <1>1, <2>3, <3>1 DEF WalksOf
  <2>4. CASE r.type = "sums"
    <3>1. v = [w EXCEPT !.attrs = TRUE, !.sums = w.sums + Len(r.body), !.pos = behind,
                        !.next = w.next + 1]
      BY <1>0, <2>4 DEF WholeRecord, WalksOf
    <3> QED BY <1>0, <1>1, <2>4, <3>1 DEF WalksOf
  <2>5. CASE r.type = "data"
    <3>1. v = [w EXCEPT !.sawData = TRUE, !.data = Append(w.data, w.next), !.pos = behind,
                        !.next = w.next + 1]
      BY <1>0, <2>5 DEF WholeRecord, WalksOf
    <3> QED BY <1>0, <1>1, <2>5, <3>1 DEF WalksOf
  <2> QED BY <1>2, <2>1, <2>2, <2>3, <2>4, <2>5
<1>4. \A k \in DOMAIN v.data :
          v.data[k] < v.next /\ UnitsBefore(x, v, k) = HeldIn(x, "data", v.data[k] - 1)
  <2>0. w.data \in Seq(DataOf(x)) /\ w.next \in Nat
    BY <1>0 DEF WalksOf
  <2>1. CASE r.type = "data"
    <3>1. w.next \in DataOf(x) /\ v.data = Append(w.data, w.next)
      BY <1>0, <1>3, <2>1 DEF DataOf
    <3>2. /\ DOMAIN v.data = 1 .. Len(w.data) + 1 /\ v.data[Len(w.data) + 1] = w.next
          /\ UnitsBefore(x, v, Len(w.data) + 1) = UnitsOf(x, w)
          /\ \A k \in DOMAIN w.data :
                v.data[k] = w.data[k] /\ UnitsBefore(x, v, k) = UnitsBefore(x, w, k)
      BY ONLY x \in Inputs, <2>0, <3>1, UnitsFollow
    <3>3. PICK n \in Nat : n = Len(w.data) /\ DOMAIN w.data = 1 .. n
      BY <2>0
    <3>4. ASSUME NEW k \in DOMAIN v.data
          PROVE  v.data[k] < v.next /\ UnitsBefore(x, v, k) = HeldIn(x, "data", v.data[k] - 1)
      <4>1. CASE k = n + 1
        <5>1. v.data[k] = w.next /\ UnitsBefore(x, v, k) = UnitsOf(x, w)
          BY <3>2, <3>3, <4>1
        <5> QED BY <1>1, <1>3, <2>0, <5>1
      <4>2. CASE k # n + 1
        <5>1. k \in DOMAIN w.data
          <6>1. k \in 1 .. n + 1
            BY <3>2, <3>3
          <6> QED BY <3>3, <4>2, <6>1
        <5>2. w.data[k] < w.next /\ UnitsBefore(x, w, k) = HeldIn(x, "data", w.data[k] - 1)
              /\ w.data[k] \in Nat
          BY <2>0, <5>1 DEF PlaceOf, DataOf
        <5>3. v.data[k] = w.data[k] /\ UnitsBefore(x, v, k) = UnitsBefore(x, w, k)
          BY ONLY <3>2, <5>1
        <5>4. v.next = w.next + 1
          BY <1>3
        <5> QED BY ONLY <2>0, <5>2, <5>3, <5>4
      <4> QED BY <4>1, <4>2
    <3> QED BY <3>4
  <2>2. CASE r.type # "data"
    <3>1. v.data = w.data
      BY <1>3, <2>2
    <3>2. ASSUME NEW k \in DOMAIN w.data
          PROVE  w.data[k] < v.next /\ UnitsBefore(x, v, k) = HeldIn(x, "data", w.data[k] - 1)
      <4>1. w.data[k] < w.next /\ UnitsBefore(x, w, k) = HeldIn(x, "data", w.data[k] - 1)
            /\ w.data[k] \in Nat
        BY <2>0, <3>2 DEF PlaceOf, DataOf
      <4>2. UnitsBefore(x, v, k) = UnitsBefore(x, w, k)
        BY ONLY <3>1 DEF UnitsBefore
      <4> QED BY <1>3, <2>0, <4>1, <4>2
    <3> QED BY <3>1, <3>2
  <2> QED BY <2>1, <2>2
<1>5. \A k \in DOMAIN v.tables : v.tables[k].bytes = EntryBytes * Len(v.tables[k].names)
  <2>1. \A k \in DOMAIN w.tables : w.tables[k].bytes = EntryBytes * Len(w.tables[k].names)
    BY <1>0 DEF PlaceOf
  <2>2. CASE r.type = "table"
    <3>1. PICK s \in Seq(TablesIn(x)), n \in Nat : s = w.tables /\ n = Len(s) /\ DOMAIN s = 1 .. n
      BY <1>0 DEF WalksOf
    <3> DEFINE t == [names |-> r.body, bytes |-> Length(r)]
    <3>2. t.bytes = EntryBytes * Len(t.names)
      BY <1>2, <2>2
    <3>3. v.tables = Append(s, t)
      BY <1>3, <2>2, <3>1
    <3> HIDE DEF t
    <3>4. /\ DOMAIN Append(s, t) = 1 .. n + 1 /\ Append(s, t)[n + 1] = t
          /\ \A k \in 1 .. n : Append(s, t)[k] = s[k]
      BY <3>1
    <3>5. ASSUME NEW k \in 1 .. n + 1
          PROVE  v.tables[k].bytes = EntryBytes * Len(v.tables[k].names)
      <4>1. CASE k = n + 1
        BY <3>2, <3>3, <3>4, <4>1
      <4>2. CASE k # n + 1
        BY <2>1, <3>1, <3>3, <3>4, <4>2
      <4> QED BY <4>1, <4>2
    <3> QED BY <3>3, <3>4, <3>5
  <2>3. CASE r.type # "table"
    BY <1>3, <2>1, <2>3
  <2> QED BY <2>2, <2>3
<1>6. v.tables # <<>> \/ v.sawData =>
          \E j \in DOMAIN x.records : x.records[j].type \in {"table", "data"}
  <2>1. w.tables # <<>> \/ w.sawData =>
          \E j \in DOMAIN x.records : x.records[j].type \in {"table", "data"}
    BY <1>0 DEF PlaceOf
  <2>2. w.next \in DOMAIN x.records
    BY <1>0, InputsAssumption
  <2> QED BY <1>3, <2>1, <2>2
<1>7. v.data # <<>> => v.sawData
  BY <1>1, <1>3
<1>8. v.pos = At(x.records, v.next) /\ v.pos <= Size(x)
  BY <1>3
<1>9. v.open /\ v.truncated = ~v.open
  BY <1>0, <1>3 DEF PlaceOf
<1>10. v.next > 1 => Known(v)
  BY <1>9 DEF WalkOf
<1> QED BY ONLY <1>3, <1>4, <1>5, <1>6, <1>7, <1>8, <1>9, <1>10, Zenon DEF PlaceOf

\* One turn of the walk.
LEMMA PlaceGoesOn ==
    ASSUME LaidOut, NEW x \in Inputs, NEW w, WalkOf(x, w), ReadOf(x, w), PlaceOf(x, w),
           More(x.records, Size(x), w)
    PROVE  PlaceOf(x, WalkRecord(x.records, Size(x), w))
<1> DEFINE r == x.records[w.next]
           body == w.pos + TagBytes
           behind == body + Length(r)
<1>0. w.next \in 1 .. Len(x.records) /\ w.pos \in Nat
  BY WalkFacts
<1>1. body \in Nat /\ Length(r) \in Nat /\ behind \in Nat /\ Size(x) \in Nat
  <2>1. Length(r) \in Nat
    BY <1>0, RecordFacts
  <2>2. Size(x) \in Nat
    BY SizeType
  <2> HIDE DEF r
  <2> QED BY <1>0, <2>1, <2>2, RecordWalkAssumption
<1>2. behind = At(x.records, w.next + 1) /\ body <= behind
  <2>1. w.pos = At(x.records, w.next)
    BY DEF PlaceOf
  <2>2. At(x.records, w.next + 1) = At(x.records, w.next) + (TagBytes + Length(r))
    BY <1>0, AtMore
  <2> HIDE DEF r
  <2> QED BY <1>0, <1>1, <2>1, <2>2, RecordWalkAssumption
<1>3. CASE body > Size(x)
  <2>1. WalkRecord(x.records, Size(x), w) = TagCut(w)
    BY <1>1, <1>3 DEF WalkRecord
  <2>2. At(x.records, w.next + 1) > Size(x)
    <3> HIDE DEF body, behind
    <3> QED BY <1>1, <1>2, <1>3
  <2> QED BY <2>1, <2>2, PlaceStops
<1>4. CASE body <= Size(x) /\ behind > Size(x)
  <2>1. WalkRecord(x.records, Size(x), w) = PayloadCut(w, r, w.next, Size(x) - body)
    BY <1>1, <1>4 DEF WalkRecord
  <2>2. Size(x) - body \in Nat
    BY <1>1, <1>4
  <2>3. \E got \in Nat : WalkRecord(x.records, Size(x), w) = PayloadCut(w, x.records[w.next], w.next, got)
    BY <2>1, <2>2
  <2>4. At(x.records, w.next + 1) > Size(x)
    BY <1>2, <1>4
  <2> QED BY <2>3, <2>4, PlaceStops
<1>5. CASE behind <= Size(x)
  <2>1. WalkRecord(x.records, Size(x), w) =
          [WholeRecord(w, x.records[w.next], w.next) EXCEPT !.pos = behind, !.next = w.next + 1]
    BY <1>1, <1>5 DEF WalkRecord
  <2>2. WalkOf(x, WalkRecord(x.records, Size(x), w))
    BY WalkGoesOn
  <2> HIDE DEF behind
  <2> QED BY <1>1, <1>2, <1>5, <2>1, <2>2, PlaceWhole
<1> QED BY <1>1, <1>3, <1>4, <1>5

\* Where the walk ends: at the end of an archive that is not cut, and anywhere else with
\* the first record that is not there, or not all of it.
LEMMA WalkEnds ==
    ASSUME NEW x \in Inputs, NEW w, WalkOf(x, w), PlaceOf(x, w), ~More(x.records, Size(x), w)
    PROVE  /\ ~Shortened(x) <=> (w.open /\ w.next = Len(x.records) + 1)
           /\ Shortened(x) /\ w.open => w.next \in DOMAIN x.records /\ At(x.records, w.next) = Size(x)
           /\ \A m \in DOMAIN x.records : m < w.next <=> At(x.records, m + 1) <= Size(x)
<1>0. Len(x.records) \in Nat \ {0} /\ DOMAIN x.records = 1 .. Len(x.records) /\ Size(x) \in Nat
  BY InputsAssumption, SizeType
<1>1. w.next \in 1 .. Len(x.records) + 1 /\ w.open \in BOOLEAN /\ w.pos \in Nat
  BY DEF WalkOf, WalksOf
<1>2. w.pos = At(x.records, w.next) /\ w.pos <= Size(x)
      /\ (~w.open => w.next <= Len(x.records) /\ At(x.records, w.next + 1) > Size(x))
  BY DEF PlaceOf
<1>3. ~w.open \/ w.next = Len(x.records) + 1 \/ (w.next <= Len(x.records) /\ w.pos = Size(x))
  BY <1>0, <1>1, <1>2 DEF More
<1>4. \A m \in 1 .. Len(x.records) : At(x.records, m + 1) \in Nat
  BY AtMore
<1>5. Size(x) <= At(x.records, Len(x.records) + 1)
  <2>1. At(x.records, Len(x.records) + 1) \in Nat
    BY <1>0, <1>4
  <2>2. x.cut \in Nat
    BY InputsAssumption
  <2>3. PICK a \in Int, b \in Int : a = x.cut /\ b = At(x.records, Len(x.records) + 1)
    BY <2>1, <2>2
  <2>4. Size(x) = Min({a, b})
    BY <2>3 DEF Size, Bytes
  <2>5. Min({a, b}) = IF a <= b THEN a ELSE b
    BY MinOfTwo
  <2> QED BY <2>3, <2>4, <2>5
<1>6. ASSUME NEW m \in 1 .. Len(x.records), m < w.next PROVE At(x.records, m + 1) <= Size(x)
  <2>1. w.next \in m + 1 .. Len(x.records) + 1
    BY <1>0, <1>1, <1>6
  <2>2. At(x.records, m + 1) <= At(x.records, w.next)
    BY <2>1, AtGrows
  <2> QED BY <1>0, <1>1, <1>2, <1>4, <2>2
<1>7. ASSUME NEW m \in 1 .. Len(x.records), m >= w.next PROVE At(x.records, m + 1) > Size(x)
  <2>1. w.next \in 1 .. Len(x.records) /\ m + 1 \in w.next + 1 .. Len(x.records) + 1
    BY <1>0, <1>1, <1>7
  <2>2. At(x.records, w.next) < At(x.records, w.next + 1)
        /\ At(x.records, w.next + 1) <= At(x.records, m + 1)
    BY <2>1, AtGrows
  <2>3. At(x.records, w.next + 1) \in Nat /\ At(x.records, m + 1) \in Nat
    BY <1>4, <2>1
  <2>4. ~w.open \/ w.pos = Size(x)
    BY <1>0, <1>3, <2>1
  <2> QED BY <1>0, <1>1, <1>2, <2>2, <2>3, <2>4
<1>8. Shortened(x) <=> Size(x) < At(x.records, Len(x.records) + 1)
  BY DEF Shortened, Bytes
<1>9. ~Shortened(x) <=> (w.open /\ w.next = Len(x.records) + 1)
  <2>1. CASE w.next = Len(x.records) + 1
    <3>1. w.open
      BY <1>0, <1>2, <2>1
    <3> QED BY <1>0, <1>1, <1>2, <1>5, <1>8, <2>1, <3>1
  <2>2. CASE w.next # Len(x.records) + 1
    <3>1. Len(x.records) \in 1 .. Len(x.records) /\ Len(x.records) >= w.next
      BY <1>0, <1>1, <2>2
    <3>2. At(x.records, Len(x.records) + 1) > Size(x)
      BY <1>7, <3>1
    <3> QED BY <1>8, <2>2, <3>2
  <2> QED BY <2>1, <2>2
<1>a. Shortened(x) /\ w.open => w.next \in DOMAIN x.records /\ At(x.records, w.next) = Size(x)
  BY <1>0, <1>1, <1>2, <1>3, <1>9
<1>b. \A m \in DOMAIN x.records : m < w.next <=> At(x.records, m + 1) <= Size(x)
  <2>1. ASSUME NEW m \in 1 .. Len(x.records) PROVE m < w.next <=> At(x.records, m + 1) <= Size(x)
    <3>1. m < w.next \/ m >= w.next
      BY <1>0, <1>1
    <3>2. At(x.records, m + 1) \in Nat
      BY <1>4
    <3> QED BY <1>0, <1>1, <1>6, <1>7, <3>1, <3>2
  <2> QED BY <1>0, <2>1
<1> QED BY <1>9, <1>a, <1>b
-----------------------------------------------------------------------------
(* Units that are where they belong *)

\* The first c units are.
InPlace(us, c) == \A k \in 1 .. Len(us) : k <= c => us[k] = k

\* What is put behind them may be anything if they are all there.
LEMMA InPlaceMore ==
    ASSUME NEW us \in Seq(Int), NEW vs \in Seq(Int), NEW c \in Nat, InPlace(us, c),
           Len(us) >= c \/ \A u \in 1 .. Len(vs) : vs[u] = Len(us) + u
    PROVE  InPlace(us \o vs, c) /\ Len(us \o vs) = Len(us) + Len(vs) /\ us \o vs \in Seq(Int)
<1>1. PICK m \in Nat, n \in Nat : m = Len(us) /\ n = Len(vs)
  OBVIOUS
<1>2. us \o vs \in Seq(Int) /\ Len(us \o vs) = m + n
  BY <1>1
<1>3. ASSUME NEW k \in 1 .. m + n, k <= c PROVE (us \o vs)[k] = k
  <2>1. CASE k <= m
    <3>1. (us \o vs)[k] = us[k] /\ k \in 1 .. Len(us)
      BY <1>1, <2>1
    <3> QED BY <1>3, <3>1 DEF InPlace
  <2>2. CASE k > m
    <3>1. (us \o vs)[k] = vs[k - m] /\ k - m \in 1 .. n
      BY <1>1, <2>2
    <3>2. vs[k - m] = m + (k - m)
      BY <1>1, <1>3, <2>2, <3>1
    <3> QED BY <3>1, <3>2
  <2>3. k <= m \/ k > m
    BY <1>3
  <2> QED BY <2>1, <2>2, <2>3
<1> QED BY <1>1, <1>2, <1>3 DEF InPlace

\* The first of them are.
LEMMA InPlaceCut ==
    ASSUME NEW us \in Seq(Int), NEW c \in Nat, InPlace(us, c), NEW n \in Nat
    PROVE  LET m == Min({Len(us), n})
           IN /\ m \in Nat /\ m <= Len(us) /\ m <= n /\ m \in {Len(us), n}
              /\ SubSeq(us, 1, m) \in Seq(Int) /\ Len(SubSeq(us, 1, m)) = m /\ InPlace(SubSeq(us, 1, m), c)
<1> DEFINE m == Min({Len(us), n})
<1>1. m = IF Len(us) <= n THEN Len(us) ELSE n
  BY MinOfTwo
<1>2. m \in Nat /\ m <= Len(us) /\ m <= n /\ m \in {Len(us), n}
  BY <1>1
<1> HIDE DEF m
<1>3. SubSeq(us, 1, m) \in Seq(Int) /\ Len(SubSeq(us, 1, m)) = m
      /\ \A k \in 1 .. m : SubSeq(us, 1, m)[k] = us[k]
  BY <1>2
<1>4. InPlace(SubSeq(us, 1, m), c)
  BY <1>2, <1>3 DEF InPlace
<1> QED BY <1>2, <1>3, <1>4 DEF m

\* Sequences that are numbered on from each other, up to c.
LEMMA JoinedInPlace ==
    ASSUME NEW ss, Len(ss) \in Nat, \A i \in 1 .. Len(ss) : ss[i] \in Seq(Int),
           NEW sizes, \A i \in 1 .. Len(ss) : sizes[i] = Len(ss[i]), NEW c \in Nat,
           \A i \in 1 .. Len(ss) : \/ SumBefore(sizes, i) >= c
                                   \/ \A u \in 1 .. Len(ss[i]) : ss[i][u] = SumBefore(sizes, i) + u
    PROVE  InPlace(Joined(ss), c)
<1>0. PICK n \in Nat : n = Len(ss)
  OBVIOUS
<1>1. PICK f : Joins(ss, f, n) /\ Joined(ss) = f[n]
  BY <1>0, JoinedIs
<1>2. f[0] = <<>> /\ \A k \in 0 .. n - 1 : f[k + 1] = f[k] \o ss[k + 1]
  BY <1>1, JoinsStep
<1> DEFINE S == {k \in Nat : k <= n => f[k] \in Seq(Int) /\ Len(f[k]) = SumBefore(sizes, k + 1)
                                         /\ InPlace(f[k], c)}
<1>4. 0 \in S
  <2>1. f[0] \in Seq(Int) /\ Len(f[0]) = 0
    BY <1>2
  <2>2. SumBefore(sizes, 0 + 1) = 0
    BY SumNone
  <2>3. InPlace(f[0], c)
    BY <2>1 DEF InPlace
  <2> QED BY <2>1, <2>2, <2>3
<1>5. ASSUME NEW k \in Nat, k \in S PROVE k + 1 \in S
  <2>1. CASE k + 1 <= n
    <3>1. k \in 0 .. n - 1 /\ k + 1 \in 1 .. n /\ k + 1 \in Nat \ {0}
      BY <2>1
    <3>2. f[k + 1] = f[k] \o ss[k + 1]
      BY <1>2, <3>1, Zenon
    <3>3. ss[k + 1] \in Seq(Int) /\ sizes[k + 1] = Len(ss[k + 1])
      BY <1>0, <3>1
    <3>4. PICK a \in Seq(Int), b \in Seq(Int) : a = f[k] /\ b = ss[k + 1]
      BY <1>5, <2>1, <3>3
    <3>5. Len(a) = SumBefore(sizes, k + 1) /\ InPlace(a, c)
      BY <1>5, <2>1, <3>4
    <3>6. SumBefore(sizes, (k + 1) + 1) = SumBefore(sizes, k + 1) + sizes[k + 1]
      BY <3>1, SumStep
    <3>7. Len(a) >= c \/ \A u \in 1 .. Len(b) : b[u] = Len(a) + u
      BY <1>0, <3>1, <3>4, <3>5
    <3>8. InPlace(a \o b, c) /\ Len(a \o b) = Len(a) + Len(b) /\ a \o b \in Seq(Int)
      BY <3>5, <3>7, InPlaceMore
    <3>9. f[k + 1] = a \o b
      BY <3>2, <3>4
    <3>10. Len(f[k + 1]) = SumBefore(sizes, (k + 1) + 1)
      BY <3>3, <3>4, <3>5, <3>6, <3>8, <3>9
    <3>11. f[k + 1] \in Seq(Int) /\ InPlace(f[k + 1], c)
      BY <3>8, <3>9
    <3> QED BY <3>10, <3>11
  <2>2. CASE ~ (k + 1 <= n)
    BY <2>2
  <2> QED BY <2>1, <2>2
<1> HIDE DEF S
<1>6. Nat \subseteq S
  BY <1>4, <1>5, InductionOverNat
<1>7. n \in S
  BY <1>6
<1> QED BY <1>0, <1>1, <1>7 DEF S

-----------------------------------------------------------------------------
(* What is not damaged *)

\* More records hold no less.
LEMMA HeldGrows ==
    ASSUME NEW x \in Inputs, NEW type \in {"data", "sums"}, NEW n \in 0 .. Len(x.records), NEW m \in 0 .. n
    PROVE  HeldIn(x, type, m) <= HeldIn(x, type, n)
<1> DEFINE a == [j \in 1 .. m |-> IF x.records[j].type = type THEN Len(x.records[j].body) ELSE 0]
           b == [j \in 1 .. n |-> IF x.records[j].type = type THEN Len(x.records[j].body) ELSE 0]
<1>0. Len(x.records) \in Nat /\ m + 1 \in Nat \ {0} /\ n + 1 \in Nat \ {0} /\ m + 1 \in 1 .. n + 1
  BY InputsAssumption
<1>1. ASSUME NEW j \in 1 .. n PROVE b[j] \in Nat
  <2>1. j \in 1 .. Len(x.records)
    BY <1>0
  <2>2. Holds(x, type, j) \in Nat
    BY <2>1, HoldsType
  <2> QED BY <2>2 DEF Holds
<1>2. \A j \in 1 .. m : a[j] = b[j]
  OBVIOUS
<1>3. HeldIn(x, type, m) = SumBefore(a, m + 1) /\ HeldIn(x, type, n) = SumBefore(b, n + 1)
  BY DEF HeldIn
<1> HIDE DEF a, b
<1>4. SumBefore(a, m + 1) = SumBefore(b, m + 1)
  <2>1. \A j \in 1 .. (m + 1) - 1 : a[j] = b[j]
    BY <1>2
  <2> QED BY <1>0, <2>1, SumSame
<1>5. SumBefore(b, m + 1) <= SumBefore(b, n + 1)
  <2>1. \A j \in 1 .. (n + 1) - 1 : b[j] \in Nat
    BY <1>1
  <2> QED BY <1>0, <2>1, SumGrows
<1> QED BY <1>3, <1>4, <1>5

\* The last record before the first that is damaged or was not read.
CleanTo(x, w) == IF x.damaged # 0 /\ x.damaged < w.next THEN x.damaged - 1 ELSE w.next - 1

\* The units before it.
Clean(x, w) == HeldIn(x, "data", CleanTo(x, w))

\* They are some of those that were read, and of the listed files.
LEMMA CleanType ==
    ASSUME LaidOut, NEW x \in Inputs, NEW w, WalkOf(x, w), ReadOf(x, w)
    PROVE  /\ CleanTo(x, w) \in 0 .. Len(x.records) /\ CleanTo(x, w) <= w.next - 1
           /\ Clean(x, w) \in Nat /\ Clean(x, w) <= UnitsOf(x, w) /\ UnitsOf(x, w) \in Nat
           /\ Clean(x, w) <= SizeOf(EntriesOf(w))
<1>0. w \in WalksOf(x) /\ EntriesOf(w) \in Seq(EntriesIn(x))
  BY EntriesType DEF WalkOf, WalksOf
<1>1. PICK n \in 0 .. Len(x.records) : n = w.next - 1
  BY <1>0, InputsAssumption DEF WalksOf
<1>2. CleanTo(x, w) \in 0 .. n
  <2>1. x.damaged = 0 \/ x.damaged \in 1 .. Len(x.records)
    BY InputsAssumption
  <2>2. n + 1 = w.next
    BY <1>0, <1>1 DEF WalksOf
  <2> QED BY <1>1, <2>1, <2>2 DEF CleanTo
<1>3. Clean(x, w) <= HeldIn(x, "data", n)
  BY <1>2, HeldGrows DEF Clean
<1>4. CleanTo(x, w) \in 0 .. Len(x.records) /\ CleanTo(x, w) <= w.next - 1
  <2>1. Len(x.records) \in Nat
    BY InputsAssumption
  <2> QED BY <1>1, <1>2, <2>1
<1>5. Clean(x, w) \in Nat /\ HeldIn(x, "data", n) \in Nat
  BY <1>4, HeldMore DEF Clean
<1>6. UnitsOf(x, w) = HeldIn(x, "data", n)
  BY <1>1 DEF ReadOf
<1>7. Clean(x, w) <= SizeOf(EntriesOf(w))
  <2>1. SizeOf(EntriesOf(w)) \in Nat
    BY <1>0, SizeOfType
  <2>2. CASE EntriesOf(w) = ListedIn(x, n)
    <3>1. HeldIn(x, "data", n) <= SizeOf(ListedIn(x, n))
      BY DEF LaidOut
    <3> QED BY <1>3, <1>5, <2>1, <2>2, <3>1
  <2>3. CASE UnitsOf(x, w) = 0
    BY <1>3, <1>5, <1>6, <2>1, <2>3
  <2> QED BY <1>1, <2>2, <2>3 DEF ReadOf
<1> QED BY <1>3, <1>4, <1>5, <1>6, <1>7

\* What a data record holds.
LEMMA BodyNumbered ==
    ASSUME LaidOut, NEW x \in Inputs, NEW j \in DataOf(x)
    PROVE  /\ x.records[j].body \in Seq(Int) /\ j - 1 \in 0 .. Len(x.records)
           /\ \A u \in 1 .. Len(x.records[j].body) : x.records[j].body[u] = HeldIn(x, "data", j - 1) + u
<1>1. j \in 1 .. Len(x.records) /\ x.records[j].type = "data" /\ Len(x.records) \in Nat
  BY InputsAssumption DEF DataOf
<1>2. x.records[j].body \in Seq(Int)
  BY <1>1, RecordFacts
<1>3. \A u \in DOMAIN x.records[j].body : x.records[j].body[u] = HeldIn(x, "data", j - 1) + u
  <2>1. j \in 0 .. Len(x.records) /\ j > 0
    BY <1>1
  <2> QED BY <1>1, <2>1 DEF LaidOut
<1>4. DOMAIN x.records[j].body = 1 .. Len(x.records[j].body)
  BY <1>2
<1> QED BY <1>1, <1>2, <1>3, <1>4

\* Of the data records the walk has, those before the damaged one hold what belongs there,
\* and it stands where the clean units end, as does the one the walk ended in.
LEMMA DataInPlace ==
    ASSUME LaidOut, NEW x \in Inputs, NEW w, WalkOf(x, w), ReadOf(x, w), PlaceOf(x, w),
           NEW k \in DOMAIN w.data
    PROVE  LET j == w.data[k]
           IN /\ j \in DataOf(x) /\ x.records[j].body \in Seq(Int)
              /\ \A u \in 1 .. Len(x.records[j].body) : x.records[j].body[u] = UnitsBefore(x, w, k) + u
              /\ j = x.damaged => UnitsBefore(x, w, k) = Clean(x, w)
<1>1. w.data \in Seq(DataOf(x))
  BY DEF WalkOf, WalksOf
<1>2. PICK j \in DataOf(x) : j = w.data[k] /\ j # 0
  <2>1. w.data[k] \in DataOf(x)
    BY <1>1
  <2> QED BY <2>1 DEF DataOf
<1>3. j < w.next /\ UnitsBefore(x, w, k) = HeldIn(x, "data", j - 1)
  BY <1>2 DEF PlaceOf
<1>4. j = x.damaged => UnitsBefore(x, w, k) = Clean(x, w)
  BY <1>2, <1>3 DEF Clean, CleanTo
<1>5. /\ x.records[j].body \in Seq(Int)
      /\ \A u \in 1 .. Len(x.records[j].body) : x.records[j].body[u] = HeldIn(x, "data", j - 1) + u
  BY BodyNumbered
<1> QED BY <1>2, <1>3, <1>4, <1>5

\* Of a stored archive at least the clean units are read, and are in place.
LEMMA StoredInPlace ==
    ASSUME LaidOut, NEW x \in Inputs, NEW w, WalkOf(x, w), ReadOf(x, w), PlaceOf(x, w),
           w.codec = "store"
    PROVE  LET us == StoredUnits(Records(x), w)
           IN us \in Seq(Int) /\ Len(us) >= Clean(x, w) /\ InPlace(us, Clean(x, w))
              /\ Len(WholeUnits(Records(x), w)) = UnitsOf(x, w)
<1> DEFINE a == [k \in DOMAIN w.data |-> Len(x.records[w.data[k]].body)]
           ss == [k \in DOMAIN w.data |-> Records(x)[w.data[k]].body]
<1>0. w \in WalksOf(x)
  BY DEF WalkOf
<1>1. PICK d \in Seq(DataOf(x)), n \in Nat : d = w.data /\ n = Len(d) /\ DOMAIN d = 1 .. n
  BY <1>0 DEF WalksOf
<1>2. UnitsOf(x, w) = SumBefore(a, n + 1) /\ \A k : UnitsBefore(x, w, k) = SumBefore(a, k)
  BY <1>1 DEF UnitsOf, UnitsBefore
<1>3. PICK c \in Nat : c = Clean(x, w) /\ c <= UnitsOf(x, w) /\ c <= SizeOf(EntriesOf(w))
  BY CleanType
<1>4. ASSUME NEW k \in 1 .. n
      PROVE  /\ ss[k] \in Seq(Int) /\ a[k] = Len(ss[k])
             /\ SumBefore(a, k) >= c \/ \A u \in 1 .. Len(ss[k]) : ss[k][u] = SumBefore(a, k) + u
  <2>1. d[k] \in DataOf(x) /\ ss[k] = Records(x)[d[k]].body /\ a[k] = Len(x.records[d[k]].body)
        /\ UnitsBefore(x, w, k) = SumBefore(a, k) /\ d[k] \in DOMAIN x.records
    BY <1>1, <1>2, InputsAssumption DEF DataOf
  <2> HIDE DEF ss, a
  <2>2. ss[k] \in Seq(Int) /\ a[k] = Len(ss[k])
    BY <2>1, BodyType
  <2>3. /\ \A u \in 1 .. Len(x.records[d[k]].body) :
               x.records[d[k]].body[u] = UnitsBefore(x, w, k) + u
        /\ d[k] = x.damaged => UnitsBefore(x, w, k) = Clean(x, w)
    BY <1>1, DataInPlace
  <2>4. CASE d[k] = x.damaged
    BY <1>3, <2>1, <2>2, <2>3, <2>4
  <2>5. CASE d[k] # x.damaged
    <3>1. Records(x)[d[k]] = x.records[d[k]]
      BY <2>1, <2>5 DEF Records
    <3> QED BY <2>1, <2>2, <2>3, <3>1
  <2> QED BY <2>4, <2>5
<1>5. Len(ss) = n /\ WholeUnits(Records(x), w) = Joined(ss)
  BY <1>1 DEF WholeUnits
<1>6. WholeUnits(Records(x), w) \in Seq(Int) /\ CutUnits(Records(x), w) \in Seq(Int)
  BY <1>0, StoredParts
<1> HIDE DEF ss, a
<1>7. InPlace(Joined(ss), c)
  <2>1. Len(ss) \in Nat /\ (\A i \in 1 .. Len(ss) : ss[i] \in Seq(Int))
        /\ (\A i \in 1 .. Len(ss) : a[i] = Len(ss[i]))
    BY <1>4, <1>5
  <2>2. \A i \in 1 .. Len(ss) : \/ SumBefore(a, i) >= c
                                \/ \A u \in 1 .. Len(ss[i]) : ss[i][u] = SumBefore(a, i) + u
    BY <1>4, <1>5
  <2> QED BY ONLY c \in Nat, <2>1, <2>2, JoinedInPlace
<1>8. Len(Joined(ss)) = SumBefore(a, n + 1)
  <2>1. Len(ss) \in Nat /\ (\A k \in 1 .. Len(ss) : ss[k] \in Seq(Int))
    BY <1>4, <1>5
  <2>2. \A k \in 1 .. Len(ss) : a[k] = Len(ss[k])
    BY <1>4, <1>5
  <2>3. Len(Joined(ss)) = SumBefore(a, Len(ss) + 1)
    BY ONLY <2>1, <2>2, JoinedLength
  <2> QED BY <1>5, <2>3
<1>9. PICK us \in Seq(Int), vs \in Seq(Int), t \in Nat :
        us = WholeUnits(Records(x), w) /\ vs = CutUnits(Records(x), w) /\ t = SizeOf(EntriesOf(w))
  <2>1. SizeOf(EntriesOf(w)) \in Nat
    <3>1. EntriesOf(w) \in Seq(EntriesIn(x))
      BY <1>0, EntriesType DEF WalksOf
    <3> QED BY <3>1, SizeOfType
  <2> QED BY <1>6, <2>1
<1>10. Len(us) >= c /\ InPlace(us, c) /\ Len(us) = UnitsOf(x, w)
  BY <1>2, <1>3, <1>5, <1>7, <1>8, <1>9
<1>11. InPlace(us \o vs, c) /\ Len(us \o vs) = Len(us) + Len(vs) /\ us \o vs \in Seq(Int)
  BY <1>10, InPlaceMore
<1> DEFINE m == Min({Len(us \o vs), t})
<1>12. /\ m \in {Len(us \o vs), t} /\ SubSeq(us \o vs, 1, m) \in Seq(Int)
       /\ Len(SubSeq(us \o vs, 1, m)) = m /\ InPlace(SubSeq(us \o vs, 1, m), c)
  BY <1>11, InPlaceCut
<1>13. StoredUnits(Records(x), w) = SubSeq(us \o vs, 1, m)
  BY <1>9 DEF StoredUnits
<1> HIDE DEF m
<1>14. m >= c
  BY <1>3, <1>9, <1>10, <1>11, <1>12
<1> QED BY <1>3, <1>9, <1>10, <1>12, <1>13, <1>14

\* The blocks are numbered on from each other, one that may not be decoded right stands
\* behind the clean units, and all of them give at least those.
LEMMA BlocksInPlace ==
    ASSUME LaidOut, NEW x \in Inputs, NEW w, WalkOf(x, w), ReadOf(x, w), PlaceOf(x, w),
           Known(w), w.codec # "store"
    PROVE  LET b == Blocks(x, w)
           IN /\ \A i \in 1 .. Len(b) :
                    /\ \A u \in 1 .. Len(b[i].units) : b[i].units[u] = GivenBefore(b, i) + u
                    /\ b[i].may = {"right"} \/ GivenBefore(b, i) >= Clean(x, w)
              /\ Given(b) >= Clean(x, w)
<1> DEFINE f(k) == [units |-> x.records[w.data[k]].body,
                    may |-> IF w.data[k] = x.damaged THEN {x.how} ELSE {"right"}]
           whole == [j \in DOMAIN w.data |-> f(j)]
           none == w.cut = NoCut \/ w.data = <<>> \/ StumpOutcomes(w) = {}
           stump == [units |-> x.records[w.cut.at].body, may |-> StumpOutcomes(w)]
           a == [k \in DOMAIN w.data |-> Len(x.records[w.data[k]].body)]
           b == Blocks(x, w)
           c == [k \in DOMAIN b |-> Len(b[k].units)]
<1>0. w \in WalksOf(x)
  BY DEF WalkOf
<1>1. PICK d \in Seq(DataOf(x)), n \in Nat : d = w.data /\ n = Len(d) /\ DOMAIN d = 1 .. n
  BY <1>0 DEF WalksOf
<1>2. UnitsOf(x, w) = SumBefore(a, n + 1) /\ \A k : UnitsBefore(x, w, k) = SumBefore(a, k)
  BY <1>1 DEF UnitsOf, UnitsBefore
<1>3. b = whole \o (IF none THEN <<>> ELSE <<stump>>)
  BY DEF Blocks
<1>4. /\ whole \in Seq({f(k) : k \in 1 .. n}) /\ Len(whole) = n
      /\ \A k \in 1 .. n : whole[k].units = x.records[d[k]].body /\ a[k] = Len(x.records[d[k]].body)
            /\ whole[k].may = IF d[k] = x.damaged THEN {x.how} ELSE {"right"}
  <2> DEFINE T == {f(k) : k \in 1 .. n}
  <2>1. whole = [k \in 1 .. n |-> f(k)] /\ \A k \in 1 .. n : f(k) \in T
    BY <1>1
  <2>2. \A k \in 1 .. n : whole[k].units = x.records[d[k]].body /\ a[k] = Len(x.records[d[k]].body)
            /\ whole[k].may = IF d[k] = x.damaged THEN {x.how} ELSE {"right"}
    BY <1>1
  <2> HIDE DEF whole, f, T
  <2>3. [k \in 1 .. n |-> f(k)] \in Seq(T) /\ Len([k \in 1 .. n |-> f(k)]) = n
    BY <2>1
  <2> QED BY <2>1, <2>2, <2>3 DEF T
<1>5. b \in BlocksType
  BY <1>0, BlocksAre
<1> HIDE DEF f
<1>6. /\ Len(b) \in {n, n + 1} /\ \A k \in 1 .. n : b[k] = whole[k]
      /\ Len(b) = n + 1 => w.cut # NoCut /\ b[n + 1].units = x.records[w.cut.at].body
  <2>1. CASE none
    <3> HIDE DEF whole, stump, none, b
    <3>1. b = whole \o <<>>
      BY <1>3, <2>1
    <3>2. whole \o <<>> = whole
      BY <1>4
    <3> QED BY <1>4, <3>1, <3>2
  <2>2. CASE ~none
    <3>0. stump.units = x.records[w.cut.at].body /\ w.cut # NoCut
      BY <2>2
    <3> HIDE DEF whole, stump, none, b
    <3>1. b = whole \o <<stump>>
      BY <1>3, <2>2
    <3>2. /\ Len(whole \o <<stump>>) = n + 1 /\ (whole \o <<stump>>)[n + 1] = stump
          /\ \A k \in 1 .. n : (whole \o <<stump>>)[k] = whole[k]
      BY <1>4
    <3> QED BY <3>0, <3>1, <3>2
  <2> QED BY <2>1, <2>2
<1>7. Len(b) \in Nat /\ DOMAIN b = 1 .. Len(b)
  BY <1>5 DEF BlocksType
<1>8. ASSUME NEW k \in 1 .. n PROVE c[k] = a[k]
  <2>0. PICK m \in Nat : m = Len(b) /\ m \in {n, n + 1}
    <3> HIDE DEF b
    <3> QED BY <1>6, <1>7
  <2>1. k \in DOMAIN b
    <3> HIDE DEF b
    <3>1. k \in 1 .. m
      BY <2>0
    <3> QED BY <1>7, <2>0, <3>1
  <2>2. c[k] = Len(b[k].units)
    <3> HIDE DEF b
    <3> QED BY <2>1
  <2>3. b[k] = whole[k] /\ whole[k].units = x.records[d[k]].body /\ a[k] = Len(x.records[d[k]].body)
    BY <1>4, <1>6
  <2> HIDE DEF a, b, c, whole
  <2> QED BY <2>2, <2>3
<1>9. \A i : GivenBefore(b, i) = SumBefore(c, i)
  BY DEF GivenBefore
<1> HIDE DEF a, b, c, whole, none, stump
<1>10. ASSUME NEW i \in 1 .. n + 1 PROVE GivenBefore(b, i) = SumBefore(a, i)
  <2>1. i \in Nat \ {0} /\ \A k \in 1 .. i - 1 : k \in 1 .. n
    OBVIOUS
  <2>2. \A k \in 1 .. i - 1 : c[k] = a[k]
    BY <1>8, <2>1
  <2> QED BY <1>9, <2>1, <2>2, SumSame
<1>11. PICK clean \in Nat : clean = Clean(x, w) /\ clean <= UnitsOf(x, w) /\ UnitsOf(x, w) \in Nat
  BY CleanType
<1>12. ASSUME NEW i \in 1 .. n
       PROVE  /\ \A u \in 1 .. Len(b[i].units) : b[i].units[u] = GivenBefore(b, i) + u
              /\ b[i].may = {"right"} \/ GivenBefore(b, i) >= clean
  <2>1. i \in DOMAIN w.data /\ GivenBefore(b, i) = UnitsBefore(x, w, i)
    BY <1>1, <1>2, <1>10
  <2>2. /\ \A u \in 1 .. Len(x.records[d[i]].body) :
               x.records[d[i]].body[u] = UnitsBefore(x, w, i) + u
        /\ d[i] = x.damaged => UnitsBefore(x, w, i) = Clean(x, w)
    BY <1>1, <2>1, DataInPlace
  <2>3. b[i].units = x.records[d[i]].body /\ b[i].may = IF d[i] = x.damaged THEN {x.how} ELSE {"right"}
    BY <1>4, <1>6
  <2>4. CASE d[i] = x.damaged
    BY <1>11, <2>1, <2>2, <2>3, <2>4
  <2>5. CASE d[i] # x.damaged
    BY <2>1, <2>2, <2>3, <2>5
  <2> QED BY <2>4, <2>5
<1>13. GivenBefore(b, n + 1) = UnitsOf(x, w)
  BY <1>2, <1>10
<1>14. ASSUME Len(b) = n + 1
       PROVE  \A u \in 1 .. Len(b[n + 1].units) : b[n + 1].units[u] = GivenBefore(b, n + 1) + u
  <2>1. w.cut.at = w.next /\ w.next \in DataOf(x) /\ UnitsOf(x, w) = HeldIn(x, "data", w.next - 1)
    BY <1>6, <1>14 DEF ReadOf
  <2>2. \A u \in 1 .. Len(x.records[w.next].body) :
             x.records[w.next].body[u] = HeldIn(x, "data", w.next - 1) + u
    BY <2>1, BodyNumbered
  <2> QED BY <1>6, <1>13, <1>14, <2>1, <2>2
<1>15. Given(b) >= clean
  <2>1. n + 1 \in 1 .. Len(b) + 1
    BY <1>6
  <2>2. GivenBefore(b, n + 1) <= Given(b) /\ Given(b) \in Nat
    BY <1>5, <2>1, GivenType
  <2> QED BY <1>11, <1>13, <2>2
<1>16. ASSUME NEW i \in 1 .. Len(b)
       PROVE  /\ \A u \in 1 .. Len(b[i].units) : b[i].units[u] = GivenBefore(b, i) + u
              /\ b[i].may = {"right"} \/ GivenBefore(b, i) >= clean
  <2>1. i \in 1 .. n \/ (i = n + 1 /\ Len(b) = n + 1)
    BY <1>6
  <2>2. CASE i \in 1 .. n
    BY <1>12, <2>2
  <2>3. CASE i = n + 1 /\ Len(b) = n + 1
    BY <1>11, <1>13, <1>14, <2>3
  <2> QED BY <2>1, <2>2, <2>3
<1> QED BY <1>11, <1>15, <1>16 DEF b

\* Once the output can be complete, every checksum has been read or nothing in it is damaged.
LEMMA AllSums ==
    ASSUME LaidOut, NEW x \in Inputs, NEW w, WalkOf(x, w), ReadOf(x, w), PlaceOf(x, w),
           ~More(x.records, Size(x), w), x.checks,
           SizeOf(EntriesOf(w)) > 0, SizeOf(EntriesOf(w)) <= Reach(x, w)
    PROVE  w.sums = Len(EntriesOf(w)) \/ SizeOf(EntriesOf(w)) <= Clean(x, w)
<1>0. w \in WalksOf(x) /\ EntriesOf(w) \in Seq(EntriesIn(x))
  BY EntriesType DEF WalkOf, WalksOf
<1>1. PICK n \in 0 .. Len(x.records) : n = w.next - 1
  BY <1>0, InputsAssumption DEF WalksOf
<1>2. /\ w.sums = HeldIn(x, "sums", n) /\ UnitsOf(x, w) = HeldIn(x, "data", n)
      /\ w.cut = NoCut \/ (w.cut.at = n + 1 /\ n + 1 \in DataOf(x) /\ ~w.open)
      /\ EntriesOf(w) = ListedIn(x, n) \/ (w.cut = NoCut /\ UnitsOf(x, w) = 0)
  <2>1. n + 1 = w.next
    BY <1>0, <1>1 DEF WalksOf
  <2> QED BY <1>1, <2>1 DEF ReadOf
<1>3. PICK total \in Nat : total = SizeOf(EntriesOf(w)) /\ total > 0
  BY <1>0, SizeOfType
<1>4. HeldIn(x, "data", n) \in Nat /\ HeldIn(x, "sums", n) \in Nat
  BY HeldMore
<1>5. ~Shortened(x) <=> (w.open /\ w.next = Len(x.records) + 1)
  BY WalkEnds
<1>6. x.damaged = 0 => Clean(x, w) = HeldIn(x, "data", n)
  BY <1>1 DEF Clean, CleanTo
<1>7. \A m \in 0 .. Len(x.records) : HeldIn(x, "data", m) <= SizeOf(ListedIn(x, m))
  BY DEF LaidOut
<1>8. CASE w.cut = NoCut
  <2>1. Reach(x, w) = HeldIn(x, "data", n)
    BY <1>2, <1>4, <1>8 DEF Reach
  <2>2. EntriesOf(w) = ListedIn(x, n)
    BY <1>2, <1>3, <1>4, <2>1
  <2>3. HeldIn(x, "data", n) = SizeOf(ListedIn(x, n)) /\ HeldIn(x, "data", n) = total
    BY <1>3, <1>4, <1>7, <2>1, <2>2
  <2>4. CASE x.damaged = 0 /\ Shortened(x)
    BY <1>3, <1>6, <2>3, <2>4
  <2>5. CASE x.damaged # 0 /\ Shortened(x)
    <3>1. SummedUp(x, n)
      BY <2>5 DEF LaidOut
    <3> QED BY <1>2, <1>3, <2>2, <2>3, <3>1 DEF SummedUp
  <2>6. CASE ~Shortened(x)
    <3>1. n = Len(x.records)
      BY <1>0, <1>1, <1>5, <2>6, InputsAssumption
    <3>2. SummedUp(x, n)
      BY <3>1 DEF LaidOut
    <3> QED BY <1>2, <1>3, <2>2, <2>3, <3>2 DEF SummedUp
  <2> QED BY <2>4, <2>5, <2>6
<1>9. CASE w.cut # NoCut
  <2>1. n + 1 \in DataOf(x) /\ w.cut.at = n + 1 /\ EntriesOf(w) = ListedIn(x, n) /\ Shortened(x)
    BY <1>2, <1>5, <1>9
  <2>2. /\ x.records[n + 1].type = "data" /\ n + 1 \in 0 .. Len(x.records) /\ n < Len(x.records)
        /\ n \in 0 .. Len(x.records) - 1 /\ n + 1 \in 1 .. Len(x.records)
    BY <2>1, InputsAssumption DEF DataOf
  <2>3. ListedIn(x, n + 1) = ListedIn(x, n)
    <3>1. ListedIn(x, n + 1) = ListedIn(x, n) \o <<>>
      BY <2>2, ListedMore
    <3>2. PICK l \in Seq(EntriesIn(x)) : l = ListedIn(x, n)
      BY <1>0, <2>1
    <3>3. l \o <<>> = l
      OBVIOUS
    <3> QED BY <3>1, <3>2, <3>3
  <2>4. HeldIn(x, "data", n + 1) = HeldIn(x, "data", n) + Len(x.records[n + 1].body)
        /\ HeldIn(x, "sums", n + 1) = HeldIn(x, "sums", n) + 0
    BY <2>2, HeldMore DEF Holds
  <2>5. Reach(x, w) = HeldIn(x, "data", n + 1)
    BY <1>2, <1>9, <2>1, <2>4 DEF Reach
  <2>6. HeldIn(x, "data", n + 1) \in Nat
    BY <2>2, HeldMore
  <2>7. HeldIn(x, "data", n + 1) = SizeOf(ListedIn(x, n + 1)) /\ HeldIn(x, "data", n + 1) = total
    BY <1>3, <1>7, <2>1, <2>2, <2>3, <2>5, <2>6
  <2>8. ASSUME SummedUp(x, n + 1) PROVE w.sums = Len(EntriesOf(w))
    BY <1>2, <1>3, <1>4, <2>1, <2>3, <2>4, <2>7, <2>8 DEF SummedUp
  <2>9. CASE x.damaged # 0
    <3>1. SummedUp(x, n + 1)
      BY <2>1, <2>2, <2>9 DEF LaidOut
    <3> QED BY <2>8, <3>1
  <2>10. CASE x.records[n + 1].body # <<>>
    <3>1. SummedUp(x, n + 1)
      <4>1. n + 1 > 0
        OBVIOUS
      <4> QED BY <2>2, <2>10, <4>1 DEF LaidOut
    <3> QED BY <2>8, <3>1
  <2>11. CASE x.damaged = 0 /\ x.records[n + 1].body = <<>>
    <3>1. Len(x.records[n + 1].body) = 0
      BY <2>11
    <3> QED BY <1>3, <1>4, <1>6, <2>4, <2>7, <2>11, <3>1
  <2> QED BY <2>9, <2>10, <2>11
<1> QED BY <1>8, <1>9

\* The numbers up to one.
LEMMA CountOfFirst == ASSUME NEW n \in Nat PROVE Cardinality(1 .. n) = n
<1>1. 1 \in Int /\ n \in Int
  OBVIOUS
<1>2. Cardinality(1 .. n) = IF 1 > n THEN 0 ELSE n - 1 + 1
  BY <1>1, FS_Interval
<1> QED BY <1>2

\* The clean units are those of the data records that are neither damaged nor cut, nor
\* behind one that is.
LEMMA GoodAreClean ==
    ASSUME LaidOut, in \in Inputs, WalkOf(in, walk), PlaceOf(in, walk), ReadOf(in, walk),
           ~More(in.records, Size(in), walk)
    PROVE  GoodUnits = Clean(in, walk)
<1> DEFINE data == {j \in DOMAIN in.records : in.records[j].type = "data"}
           good == {j \in data : \A m \in data : m <= j =>
                       m # in.damaged /\ At(in.records, m + 1) <= Size(in)}
           e == CleanTo(in, walk)
           bodies == {ToSet(in.records[j].body) : j \in good}
<1>0. Len(in.records) \in Nat /\ DOMAIN in.records = 1 .. Len(in.records)
      /\ (in.damaged = 0 \/ in.damaged \in data)
  BY InputsAssumption
<1>1. e \in 0 .. Len(in.records) /\ e <= walk.next - 1 /\ walk.next \in 1 .. Len(in.records) + 1
  BY CleanType DEF WalkOf, WalksOf
<1>2. \A m \in DOMAIN in.records : m < walk.next <=> At(in.records, m + 1) <= Size(in)
  BY WalkEnds
<1>3. \A m \in data : m \in Nat \ {0} /\ m \in DOMAIN in.records
  BY <1>0
<1>4. e = IF in.damaged # 0 /\ in.damaged < walk.next THEN in.damaged - 1 ELSE walk.next - 1
  BY DEF CleanTo
<1> HIDE DEF e, data
<1>5. good = {j \in data : j <= e}
  <2>1. ASSUME NEW j \in data, j <= e
        PROVE  \A m \in data : m <= j => m # in.damaged /\ At(in.records, m + 1) <= Size(in)
    <3>1. ASSUME NEW m \in data, m <= j PROVE m # in.damaged /\ m < walk.next
      <4>1. m <= e /\ m \in Nat \ {0} /\ e \in Nat
        BY <1>0, <1>1, <1>3, <2>1, <3>1
      <4>2. m < walk.next
        BY <1>1, <4>1
      <4>3. m # in.damaged
        BY <1>4, <4>1, <4>2
      <4> QED BY <4>2, <4>3
    <3> QED BY <1>2, <1>3, <3>1
  <2>2. ASSUME NEW j \in data, j > e
        PROVE  \E m \in data : m <= j /\ (m = in.damaged \/ ~(At(in.records, m + 1) <= Size(in)))
    <3>1. CASE in.damaged # 0 /\ in.damaged < walk.next
      <4>1. in.damaged \in data /\ in.damaged <= j
        BY <1>0, <1>3, <1>4, <2>2, <3>1
      <4> QED BY <4>1
    <3>2. CASE ~ (in.damaged # 0 /\ in.damaged < walk.next)
      <4>1. ~ (j < walk.next) /\ j <= j
        BY <1>1, <1>3, <1>4, <2>2, <3>2
      <4> QED BY <1>2, <1>3, <4>1
    <3> QED BY <3>1, <3>2
  <2>3. \A j \in data : j <= e \/ j > e
    BY <1>1, <1>3
  <2> QED BY <2>1, <2>2, <2>3
<1>6. \A j \in good : j \in DataOf(in) /\ j \in 1 .. e
  BY <1>0, <1>1, <1>3, <1>5 DEF data, DataOf
<1>7. \A j \in DataOf(in) : j <= e => j \in good
  BY <1>0, <1>5 DEF data, DataOf
<1> HIDE DEF good
<1> DEFINE upTo(n) == {u \in Nat : \E j \in DataOf(in) : j <= n /\ u \in ToSet(in.records[j].body)}
           S == {n \in Nat : n <= e => upTo(n) = 1 .. HeldIn(in, "data", n)}
<1>8. \A j \in DataOf(in) :
         ToSet(in.records[j].body) =
           HeldIn(in, "data", j - 1) + 1 .. HeldIn(in, "data", j - 1) + Len(in.records[j].body)
  <2>1. SUFFICES ASSUME NEW j \in DataOf(in)
                 PROVE  ToSet(in.records[j].body) =
                          HeldIn(in, "data", j - 1) + 1 .. HeldIn(in, "data", j - 1) + Len(in.records[j].body)
    OBVIOUS
  <2>2. PICK s \in Seq(Int), m \in Nat : s = in.records[j].body /\ m = Len(s) /\ DOMAIN s = 1 .. m
    BY BodyNumbered
  <2>3. PICK h \in Nat : h = HeldIn(in, "data", j - 1)
    BY BodyNumbered, HeldMore
  <2>4. \A u \in 1 .. m : s[u] = h + u
    BY <2>2, <2>3, BodyNumbered
  <2>5. ToSet(s) = {s[u] : u \in 1 .. m}
    BY <2>2 DEF ToSet
  <2>6. {s[u] : u \in 1 .. m} = h + 1 .. h + m
    <3>1. ASSUME NEW v \in h + 1 .. h + m PROVE \E u \in 1 .. m : v = s[u]
      <4>1. v - h \in 1 .. m /\ v = h + (v - h)
        OBVIOUS
      <4> QED BY <2>4, <4>1
    <3>2. ASSUME NEW u \in 1 .. m PROVE s[u] \in h + 1 .. h + m
      <4>1. s[u] = h + u /\ h + u \in h + 1 .. h + m
        BY <2>4
      <4> QED BY <4>1
    <3> QED BY <3>1, <3>2
  <2> QED BY <2>2, <2>3, <2>5, <2>6
<1>9. 0 \in S
  <2>1. HeldIn(in, "data", 0) = 0
    BY <1>0, HeldMore
  <2>2. upTo(0) = {}
    BY <1>0 DEF DataOf
  <2> QED BY <2>1, <2>2
<1>10. ASSUME NEW n \in Nat, n \in S PROVE n + 1 \in S
  <2>1. SUFFICES ASSUME n + 1 <= e PROVE upTo(n + 1) = 1 .. HeldIn(in, "data", n + 1)
    OBVIOUS
  <2>2. n \in 0 .. Len(in.records) /\ n < Len(in.records) /\ n + 1 \in 1 .. Len(in.records) /\ n <= e
    BY <1>0, <1>1, <2>1
  <2>3. PICK h \in Nat : h = HeldIn(in, "data", n) /\ upTo(n) = 1 .. h
    BY <1>10, <2>2, HeldMore
  <2>4. HeldIn(in, "data", n + 1) = h + Holds(in, "data", n + 1)
    BY <2>2, <2>3, HeldMore
  <2>5. CASE n + 1 \in DataOf(in)
    <3>1. PICK m \in Nat : m = Len(in.records[n + 1].body) /\ HeldIn(in, "data", n + 1) = h + m
      <4>1. Holds(in, "data", n + 1) \in Nat
        BY <2>2, HoldsType
      <4> QED BY <2>4, <2>5, <4>1 DEF Holds, DataOf
    <3>2. ToSet(in.records[n + 1].body) = h + 1 .. h + m
      <4>1. (n + 1) - 1 = n
        OBVIOUS
      <4> QED BY <1>8, <2>3, <2>5, <3>1, <4>1
    <3>3. \A j \in DataOf(in) : j <= n + 1 <=> (j <= n \/ j = n + 1)
      BY <1>0 DEF DataOf
    <3>4. upTo(n + 1) = upTo(n) \cup {u \in Nat : u \in ToSet(in.records[n + 1].body)}
      BY <2>5, <3>3
    <3>5. {u \in Nat : u \in ToSet(in.records[n + 1].body)} = h + 1 .. h + m
      BY <3>2
    <3>6. 1 .. h \cup (h + 1 .. h + m) = 1 .. h + m
      OBVIOUS
    <3> HIDE DEF upTo
    <3> QED BY <2>3, <3>1, <3>4, <3>5, <3>6
  <2>6. CASE n + 1 \notin DataOf(in)
    <3>1. \A j \in DataOf(in) : j <= n + 1 <=> j <= n
      BY <1>0, <2>6 DEF DataOf
    <3>2. upTo(n + 1) = upTo(n)
      BY <3>1
    <3>3. Holds(in, "data", n + 1) = 0
      BY <1>0, <2>2, <2>6 DEF Holds, DataOf
    <3> HIDE DEF upTo
    <3> QED BY <2>3, <2>4, <3>2, <3>3
  <2> QED BY <2>5, <2>6
<1>11. e \in S
  <2> HIDE DEF S
  <2>1. Nat \subseteq S
    BY <1>9, <1>10, InductionOverNat
  <2> QED BY <1>0, <1>1, <2>1
<1>12. PICK c \in Nat : c = HeldIn(in, "data", e) /\ upTo(e) = 1 .. c
  BY <1>1, <1>11, HeldMore
<1>13. UNION bodies = upTo(e)
  <2>1. ASSUME NEW j \in good, NEW u \in ToSet(in.records[j].body) PROVE u \in Nat
    <3>1. j \in DataOf(in) /\ j - 1 \in 0 .. Len(in.records)
      BY <1>6, BodyNumbered
    <3>2. HeldIn(in, "data", j - 1) \in Nat
      BY <3>1, HeldMore
    <3>3. Len(in.records[j].body) \in Nat
      <4>1. in.records[j].body \in Seq(Int)
        BY <3>1, BodyNumbered
      <4> QED BY <4>1
    <3>4. PICK h \in Nat, m \in Nat : u \in h + 1 .. h + m
      BY <1>8, <2>1, <3>1, <3>2, <3>3
    <3> QED BY <3>4
  <2>2. \A j \in good : j <= e
    BY <1>0, <1>1, <1>6
  <2> QED BY <1>6, <1>7, <2>1, <2>2
<1>14. GoodUnits = Cardinality(UNION bodies)
  BY DEF GoodUnits, good, data
<1> HIDE DEF upTo, bodies
<1> QED BY <1>12, <1>13, <1>14, CountOfFirst DEF Clean, e
-----------------------------------------------------------------------------
(* What the decoders make of the clean units *)

\* The walk is over before anything is handed over, an archive that is refused is not
\* one to accept, and the payload of one that is taken is found or looked for.
HandedOn ==
    /\ pc # "parse" => ~More(in.records, Size(in), walk)
    /\ pc # "done" => said = "nothing"
    /\ pc = "done" /\ said = "refused" => ~Accepted(in.records, Size(in), walk)
    /\ pc # "parse" /\ said # "refused" =>
          \E found \in BOOLEAN : /\ found \/ Probes(walk)
                                 /\ ctx = Context(in, walk, found)
                                 /\ Accepted(in.records, Size(in), walk)
    /\ pc \in {"open", "block", "ended"} => ctx.codec # "store" /\ ctx.total > 0
    /\ pc = "block" => ctx.blocks # <<>>

\* The archive's decoder is still to come.
Ahead ==
    \/ engine = ctx.codec
    \/ engine = "lzhd" /\ ctx.codec \in {"optimum", "cm"}
    \/ engine = "optimum" /\ ctx.codec = "cm"

\* No decode was written: not one unit is clean, or the payload was not found.
NothingDecoded ==
    ctx.codec # "store" /\ ctx.total > 0 /\ (Clean(in, walk) = 0 \/ ctx.blocks = <<>>)

\* The output is in place as far as the archive is clean, and it goes as far when its
\* decoder is through.
Progress ==
    /\ InPlace(out, Clean(in, walk))
    /\ pc = "open" => \/ Len(out) >= Clean(in, walk)
                      \/ out = <<>> /\ (ctx.blocks = <<>> \/ Ahead)
    /\ pc = "block" => \/ Len(out) >= Clean(in, walk)
                       \/ Len(out) = GivenBefore(ctx.blocks, blockAt)
    /\ pc \in {"ended", "copy", "ask"} => Len(out) >= Clean(in, walk)
    /\ pc = "done" /\ said # "refused" => NothingDecoded \/ cursor = Len(ctx.entries) + 1

ContentInv == ReadOf(in, walk) /\ PlaceOf(in, walk) /\ HandedOn /\ Progress

\* What a driver that took the archive has to work on.
Work(c) ==
    /\ c.codec = walk.codec
    /\ c.entries = EntriesOf(walk) /\ c.total = SizeOf(c.entries) /\ c.total \in Nat
    /\ Clean(in, walk) \in Nat /\ Clean(in, walk) <= c.total
    /\ c.blocks \in BlocksType
    /\ c.blocks = <<>> \/ Given(c.blocks) >= Clean(in, walk)
    /\ \A i \in 1 .. Len(c.blocks) :
         /\ \A u \in 1 .. Len(c.blocks[i].units) :
               c.blocks[i].units[u] = GivenBefore(c.blocks, i) + u
         /\ c.blocks[i].may = {"right"} \/ GivenBefore(c.blocks, i) >= Clean(in, walk)

\* What is known of an archive that is taken.
LEMMA TakenFacts ==
    ASSUME LaidOut, Inv, ReadOf(in, walk), PlaceOf(in, walk), NEW found \in BOOLEAN, NEW c,
           c = Context(in, walk, found), Accepted(in.records, Size(in), walk)
    PROVE  Known(walk) /\ Work(c)
<1>1. in \in Inputs /\ WalkOf(in, walk) /\ Known(walk)
  BY AcceptedKnown DEF Inv
<1>2. /\ c.entries = EntriesOf(walk) /\ c.total = SizeOf(c.entries) /\ c.total \in Nat
      /\ c.codec = walk.codec /\ c.blocks \in BlocksType
  BY <1>1, ContextIs
<1>3. Clean(in, walk) \in Nat /\ Clean(in, walk) <= c.total
  BY <1>1, <1>2, CleanType
<1>4. c.blocks = IF found /\ walk.codec # "store" THEN Blocks(in, walk) ELSE <<>>
  BY DEF Context
<1>5. CASE found /\ walk.codec # "store"
  <2>1. c.blocks = Blocks(in, walk)
    BY <1>4, <1>5
  <2>2. LET b == Blocks(in, walk)
        IN /\ \A i \in 1 .. Len(b) :
                 /\ \A u \in 1 .. Len(b[i].units) : b[i].units[u] = GivenBefore(b, i) + u
                 /\ b[i].may = {"right"} \/ GivenBefore(b, i) >= Clean(in, walk)
           /\ Given(b) >= Clean(in, walk)
    BY <1>1, <1>5, BlocksInPlace
  <2>3. Given(c.blocks) >= Clean(in, walk)
    BY <2>1, <2>2
  <2>4. \A i \in 1 .. Len(c.blocks) :
           /\ \A u \in 1 .. Len(c.blocks[i].units) :
                 c.blocks[i].units[u] = GivenBefore(c.blocks, i) + u
           /\ c.blocks[i].may = {"right"} \/ GivenBefore(c.blocks, i) >= Clean(in, walk)
    BY <2>1, <2>2
  <2> QED BY <1>1, <1>2, <1>3, <2>3, <2>4 DEF Work
<1>6. CASE ~ (found /\ walk.codec # "store")
  <2>1. c.blocks = <<>>
    BY <1>4, <1>6
  <2>2. \A i \in 1 .. Len(c.blocks) : FALSE
    BY <2>1
  <2> QED BY <1>1, <1>2, <1>3, <2>1, <2>2 DEF Work
<1> QED BY <1>5, <1>6

\* The payload of one that is found gives at least the clean units.
LEMMA FoundFacts ==
    ASSUME LaidOut, Inv, ReadOf(in, walk), PlaceOf(in, walk), NEW c, c = Context(in, walk, TRUE),
           Accepted(in.records, Size(in), walk), c.codec # "store"
    PROVE  Given(c.blocks) >= Clean(in, walk)
<1>1. in \in Inputs /\ WalkOf(in, walk) /\ Known(walk)
  BY AcceptedKnown DEF Inv
<1>2. walk.codec # "store" /\ c.blocks = Blocks(in, walk)
  BY DEF Context
<1>3. LET b == Blocks(in, walk) IN Given(b) >= Clean(in, walk)
  BY <1>1, <1>2, BlocksInPlace
<1> QED BY <1>2, <1>3

\* Before the first record.
LEMMA InitContent == ASSUME Init PROVE ContentInv
<1>1. in \in Inputs /\ walk = StartOfWalk /\ pc = "parse" /\ out = <<>> /\ said = "nothing"
  BY DEF Init
<1>2. ReadOf(in, walk) /\ PlaceOf(in, walk)
  BY <1>1, ReadStarts, PlaceStarts
<1>3. InPlace(out, Clean(in, walk))
  <2>1. Len(out) = 0
    BY <1>1
  <2> QED BY <2>1 DEF InPlace
<1> QED BY <1>1, <1>2, <1>3 DEF ContentInv, HandedOn, Progress

\* Reading a record keeps it.
LEMMA ReadContent == ASSUME LaidOut, Inv, ContentInv, ReadRecord PROVE ContentInv'
<1>1. PICK x \in Inputs : x = in /\ WalkOf(x, walk) /\ ReadOf(x, walk) /\ PlaceOf(x, walk)
  BY DEF Inv, ContentInv
<1>2. /\ UNCHANGED <<in, ctx, pc, out, said>> /\ pc = "parse"
      /\ walk' = WalkRecord(in.records, Size(in), walk) /\ More(in.records, Size(in), walk)
  BY DEF ReadRecord, Reading
<1>3. ReadOf(in', walk') /\ PlaceOf(in', walk')
  <2>1. /\ ReadOf(x, WalkRecord(x.records, Size(x), walk))
        /\ PlaceOf(x, WalkRecord(x.records, Size(x), walk))
    BY <1>1, <1>2, ReadGoesOn, PlaceGoesOn
  <2> QED BY <1>1, <1>2, <2>1
<1>4. InPlace(out', Clean(in', walk'))
  <2>1. Len(out') = 0
    BY <1>2 DEF Inv, Fresh
  <2> QED BY <2>1 DEF InPlace
<1>5. said' = "nothing"
  BY <1>2 DEF ContentInv, HandedOn
<1> QED BY <1>2, <1>3, <1>4, <1>5 DEF ContentInv, HandedOn, Progress

\* The end of the walk.
LEMMA ParseContent ==
    ASSUME LaidOut, Inv, ContentInv,
           Refuse \/ ParseStore \/ \E found \in BOOLEAN : ParsePacked(found)
    PROVE  ContentInv'
<1>1. /\ UNCHANGED <<in, walk>> /\ pc = "parse" /\ ~More(in.records, Size(in), walk)
      /\ said = "nothing" /\ out = <<>>
  BY DEF Refuse, ParseStore, ParsePacked, Parsed, Reading, ContentInv, HandedOn, Inv, Fresh
<1>2. ReadOf(in, walk)' /\ PlaceOf(in, walk)'
  BY <1>1 DEF ContentInv
<1>3. InPlace(out, Clean(in, walk))
  <2>1. Len(out) = 0
    BY <1>1
  <2> QED BY <2>1 DEF InPlace
<1>4. CASE Refuse
  <2>1. pc' = "done" /\ said' = "refused" /\ out' = out /\ ~Accepted(in.records, Size(in), walk)
    BY <1>4 DEF Refuse
  <2>2. HandedOn' /\ Progress'
    BY <1>1, <1>3, <2>1 DEF HandedOn, Progress
  <2> QED BY <1>2, <2>2 DEF ContentInv
<1>5. CASE ParseStore
  <2>1. /\ pc' = "copy" /\ said' = said /\ Accepted(in.records, Size(in), walk)
        /\ ctx' = Context(in, walk, TRUE)
        /\ out' = IF ctx'.codec = "store" THEN StoredUnits(Records(in), walk) ELSE <<>>
        /\ ctx'.codec = "store" \/ ctx'.total = 0
    BY <1>5 DEF ParseStore
  <2>2. /\ ctx'.codec = walk.codec /\ Clean(in, walk) \in Nat /\ Clean(in, walk) <= ctx'.total
    BY <2>1, TakenFacts DEF ContentInv, Work
  <2>3. InPlace(out', Clean(in, walk)) /\ Len(out') >= Clean(in, walk)
    <3>1. CASE ctx'.codec = "store"
      <4>1. LET us == StoredUnits(Records(in), walk)
            IN Len(us) >= Clean(in, walk) /\ InPlace(us, Clean(in, walk))
        BY <2>2, <3>1, StoredInPlace DEF Inv, ContentInv
      <4> QED BY <2>1, <3>1, <4>1
    <3>2. CASE ctx'.codec # "store"
      <4>0. ctx'.total = 0
        BY <2>1, <3>2
      <4>1. PICK c \in Nat : c = Clean(in, walk) /\ c <= 0
        BY <2>2, <4>0
      <4>2. Len(out') = 0 /\ c = 0
        BY <2>1, <3>2, <4>1
      <4> QED BY <4>1, <4>2 DEF InPlace
    <3> QED BY <3>1, <3>2
  <2>4. HandedOn'
    BY <1>1, <2>1 DEF HandedOn
  <2>5. Progress'
    BY <1>1, <2>1, <2>3 DEF Progress
  <2> QED BY <1>2, <2>4, <2>5 DEF ContentInv
<1>6. CASE \E found \in BOOLEAN : ParsePacked(found)
  <2>1. PICK found \in BOOLEAN :
          /\ pc' = "open" /\ said' = said /\ out' = out /\ Accepted(in.records, Size(in), walk)
          /\ ctx' = Context(in, walk, found) /\ (found \/ Probes(walk))
          /\ ctx'.codec # "store" /\ ctx'.total > 0
          /\ engine' = IF ctx'.codec = "lzpf" THEN "lzpf" ELSE "lzhd"
    BY <1>6 DEF ParsePacked
  <2>2. ctx'.codec = walk.codec /\ walk.codec \in Families
    <3>1. ctx'.codec = walk.codec /\ Known(walk) /\ walk \in WalksOf(in) /\ in \in Inputs
      BY <2>1, TakenFacts DEF ContentInv, Inv, WalkOf, Work
    <3>2. walk.codec = in.records[1].body
      BY <3>1 DEF Known, WalksOf
    <3>3. 1 \in DOMAIN in.records /\ in.records[1].type = "codec" /\ IsRecord(in.records[1])
      BY <3>1, InputsAssumption
    <3> QED BY <3>1, <3>2, <3>3 DEF IsRecord
  <2>3. Ahead'
    BY <2>1, <2>2 DEF Ahead, Families
  <2>4. HandedOn'
    BY <1>1, <2>1 DEF HandedOn
  <2>5. Progress'
    BY <1>1, <1>3, <2>1, <2>3 DEF Progress
  <2> QED BY <1>2, <2>4, <2>5 DEF ContentInv
<1> QED BY <1>4, <1>5, <1>6

\* Steps behind the walk that do not end the run.
LEMMA ContentStays ==
    ASSUME ContentInv, UNCHANGED <<in, walk, ctx, said>>, pc \notin {"parse", "done"},
           pc' \notin {"parse", "done"},
           pc' \in {"open", "block", "ended"} => pc \in {"open", "block", "ended"},
           pc' = "block" => pc = "block" \/ ctx.blocks # <<>>,
           Progress'
    PROVE  ContentInv'
<1>1. ReadOf(in, walk)' /\ PlaceOf(in, walk)'
  BY DEF ContentInv
<1>2. HandedOn'
  BY DEF ContentInv, HandedOn
<1> QED BY <1>1, <1>2 DEF ContentInv

\* What the decoders work on.
LEMMA WorkFacts ==
    ASSUME LaidOut, Inv, ContentInv, pc \notin {"parse", "done"}
    PROVE  Work(ctx)
<1>1. PICK found \in BOOLEAN : ctx = Context(in, walk, found) /\ Accepted(in.records, Size(in), walk)
  BY DEF ContentInv, HandedOn
<1>2. ReadOf(in, walk) /\ PlaceOf(in, walk)
  BY DEF ContentInv
<1>3. PICK c : c = ctx
  OBVIOUS
<1>4. c = Context(in, walk, found)
  BY <1>1, <1>3
<1>5. Work(c)
  BY <1>1, <1>2, <1>4, TakenFacts
<1> QED BY <1>3, <1>5

\* A record decoded.
LEMMA DecodeContent ==
    ASSUME LaidOut, Inv, ContentInv, NEW o \in Outcomes, DecodeRecord(o)
    PROVE  ContentInv'
<1> DEFINE us == ctx.blocks[blockAt].units
           got == CASE o = "right" -> us
                    [] o = "wrong" -> AllWrong(us)
                    [] o = "short" -> SubSeq(us, 1, Len(us) - 1)
<1>1. /\ UNCHANGED <<in, walk, ctx, pc, said>> /\ blockAt' = blockAt + 1
      /\ blockAt <= Len(ctx.blocks) /\ o \notin {"fail", "fatal"} /\ pc = "block"
      /\ o \in ctx.blocks[blockAt].may
      /\ out' = SubSeq(out \o got, 1, Min({Len(out \o got), ctx.total}))
  BY DEF DecodeRecord, Decoding
<1>2. PICK c \in Nat, t \in Nat : c = Clean(in, walk) /\ t = ctx.total /\ c <= t
  BY <1>1, WorkFacts DEF Work
<1>3. ctx.blocks \in BlocksType /\ out \in Seq(Int) /\ blockAt \in 1 .. Len(ctx.blocks)
      /\ blockAt \in 1 .. Len(ctx.blocks) + 1
  BY <1>1 DEF Inv, Handed, DecoderTypes, BlocksType
<1>4. PICK b \in Seq(Int) : b = us
  <2> DEFINE B == [units : Seq(Int), may : SUBSET Outcomes]
  <2>1. ctx.blocks \in Seq(B)
    BY <1>3 DEF BlocksType
  <2> HIDE DEF B
  <2>2. ctx.blocks[blockAt] \in B
    BY <1>3, <2>1
  <2> QED BY <2>2 DEF B
<1>5. PICK g \in Seq(Int) : g = got /\ (o = "right" => g = b)
  <2>1. AllWrong(b) \in Seq(Int)
    BY DEF AllWrong, BadUnit
  <2>2. SubSeq(b, 1, Len(b) - 1) \in Seq(Int)
    <3>1. CASE Len(b) = 0
      BY <3>1
    <3>2. CASE Len(b) # 0
      BY <3>2
    <3> QED BY <3>1, <3>2
  <2>3. o \in {"right", "wrong", "short"}
    BY <1>1 DEF Outcomes
  <2> HIDE DEF us
  <2> QED BY <1>4, <2>1, <2>2, <2>3
<1>6. /\ \A u \in 1 .. Len(b) : b[u] = GivenBefore(ctx.blocks, blockAt) + u
      /\ ctx.blocks[blockAt].may = {"right"} \/ GivenBefore(ctx.blocks, blockAt) >= c
  BY <1>1, <1>2, <1>3, <1>4, WorkFacts DEF Work
<1> HIDE DEF got
<1>7. PICK h \in Nat : h = GivenBefore(ctx.blocks, blockAt)
                       /\ GivenBefore(ctx.blocks, blockAt + 1) = h + Len(b)
  BY <1>1, <1>3, <1>4, GivenType
<1> HIDE DEF us
<1>8. InPlace(out, c) /\ (Len(out) >= c \/ Len(out) = h)
  BY <1>1, <1>2, <1>7 DEF ContentInv, Progress
<1>9. Len(out) >= c \/ (o = "right" /\ Len(out) = h)
  <2>1. CASE ctx.blocks[blockAt].may = {"right"}
    BY <1>1, <1>8, <2>1
  <2>2. CASE h >= c
    BY <1>3, <1>8, <2>2
  <2> QED BY <1>6, <1>7, <2>1, <2>2
<1>10. Len(out) >= c \/ (g = b /\ Len(out) = h /\ \A u \in 1 .. Len(g) : g[u] = Len(out) + u)
  BY <1>5, <1>6, <1>7, <1>9
<1>11. InPlace(out \o g, c) /\ Len(out \o g) = Len(out) + Len(g) /\ out \o g \in Seq(Int)
  BY <1>3, <1>8, <1>10, InPlaceMore
<1> DEFINE m == Min({Len(out \o g), t})
<1>12. /\ m \in Nat /\ m <= Len(out \o g) /\ m \in {Len(out \o g), t}
       /\ Len(SubSeq(out \o g, 1, m)) = m /\ InPlace(SubSeq(out \o g, 1, m), c)
  BY <1>11, InPlaceCut
<1>13. out' = SubSeq(out \o g, 1, m)
  BY <1>1, <1>2, <1>5
<1> HIDE DEF m
<1>14. m >= c \/ m = h + Len(b)
  <2>1. PICK i \in Nat, j \in Nat : i = Len(out) /\ j = Len(g)
    BY <1>3
  <2> QED BY <1>2, <1>10, <1>11, <1>12, <2>1
<1>15. Progress'
  <2>1. InPlace(out', c) /\ (Len(out') >= c \/ Len(out') = GivenBefore(ctx.blocks, blockAt'))
    BY <1>1, <1>7, <1>12, <1>13, <1>14
  <2> QED BY <1>1, <1>2, <2>1 DEF Progress
<1> QED BY <1>1, <1>15, ContentStays

\* The decoders' other steps.
LEMMA DecoderContent ==
    ASSUME LaidOut, Inv, ContentInv,
           \/ Decline \/ Start \/ EndOfRecords \/ HandBack \/ Ended \/ Partial
           \/ \E o \in Outcomes : DecodeRecord(o) \/ FailRecord(o)
    PROVE  ContentInv'
<1>0. /\ UNCHANGED <<in, walk, ctx, said>> /\ pc \in {"open", "block", "ended"}
      /\ pc' \notin {"parse", "done"}
  BY DEF Decline, Start, EndOfRecords, HandBack, Ended, Partial, Adopt, DecodeRecord, FailRecord, Decoding
<1>1. PICK c \in Nat : c = Clean(in, walk) /\ c <= ctx.total
  BY <1>0, WorkFacts DEF Work
<1>2. ctx.blocks \in BlocksType /\ out \in Seq(Int) /\ blockAt \in 1 .. Len(ctx.blocks) + 1
      /\ ctx.total \in Nat /\ Len(ctx.blocks) \in Nat
  BY DEF Inv, Handed, DecoderTypes, BlocksType
<1>3. InPlace(out, c)
  BY <1>1 DEF ContentInv, Progress
<1>4. /\ pc = "open" => Len(out) >= c \/ (out = <<>> /\ (ctx.blocks = <<>> \/ Ahead))
      /\ pc = "block" => Len(out) >= c \/ Len(out) = GivenBefore(ctx.blocks, blockAt)
      /\ pc = "ended" => Len(out) >= c
  BY <1>1 DEF ContentInv, Progress
<1>5. CASE Decline
  <2>1. /\ pc = "open" /\ pc' = "open" /\ engine # "none" /\ ~Owns /\ engine' = NextEngine[engine]
        /\ out' = out
    BY <1>5 DEF Decline
  <2>2. Ahead /\ ctx.blocks # <<>> => Ahead'
    BY <1>0, <2>1 DEF Ahead, Owns, NextEngine
  <2>3. Progress'
    BY <1>0, <1>1, <1>3, <1>4, <2>1, <2>2 DEF Progress
  <2> QED BY <1>0, <2>1, <2>3, ContentStays
<1>6. CASE Start
  <2>1. pc' = "block" /\ out' = <<>> /\ blockAt' = 1 /\ ctx.blocks # <<>>
    BY <1>6 DEF Start, Owns
  <2>2. Len(out') = GivenBefore(ctx.blocks, blockAt') /\ InPlace(out', c)
    <3>1. 1 \in 1 .. Len(ctx.blocks) + 1
      BY <1>2
    <3>2. GivenBefore(ctx.blocks, 1) = 0
      BY <1>2, <3>1, GivenType
    <3>3. Len(out') = 0
      BY <2>1
    <3> QED BY <2>1, <3>2, <3>3 DEF InPlace
  <2>3. Progress'
    BY <1>0, <1>1, <2>1, <2>2 DEF Progress
  <2> QED BY <1>0, <2>1, <2>3, ContentStays
<1>7. CASE EndOfRecords
  <2>1. pc = "block" /\ pc' = "ended" /\ out' = out
        /\ (blockAt > Len(ctx.blocks) \/ Len(out) >= ctx.total)
    <3>1. pc = "block" /\ pc' = "ended" /\ out' = out /\ ~ (blockAt <= Len(ctx.blocks) /\ Len(out) < ctx.total)
      BY <1>7 DEF EndOfRecords, Decoding
    <3> QED BY <1>2, <3>1
  <2>2. Len(out) >= c
    <3>1. CASE Len(out) >= ctx.total
      BY <1>1, <1>2, <3>1
    <3>2. CASE blockAt > Len(ctx.blocks)
      <4>1. GivenBefore(ctx.blocks, blockAt) = Given(ctx.blocks)
        <5>1. blockAt = Len(ctx.blocks) + 1
          BY <1>2, <3>2
        <5> QED BY <5>1 DEF Given
      <4>2. ctx.blocks # <<>> => Given(ctx.blocks) >= c
        BY <1>0, <1>1, WorkFacts DEF Work
      <4>3. ctx.blocks # <<>>
        BY <2>1 DEF ContentInv, HandedOn
      <4> QED BY <1>4, <2>1, <4>1, <4>2, <4>3
    <3> QED BY <2>1, <3>1, <3>2
  <2>3. Progress'
    BY <1>0, <1>1, <1>3, <2>1, <2>2 DEF Progress
  <2> QED BY <1>0, <2>1, <2>3, ContentStays
<1>8. CASE HandBack
  <2>1. pc = "ended" /\ pc' = "open" /\ out' = out
    BY <1>8 DEF HandBack
  <2>2. Progress'
    BY <1>0, <1>1, <1>3, <1>4, <2>1 DEF Progress
  <2> QED BY <1>0, <2>1, <2>2, ContentStays
<1>9. CASE Ended \/ Partial
  <2>1. pc' = "copy" /\ out' = out /\ (pc = "ended" \/ (pc = "open" /\ out # <<>>))
    BY <1>9 DEF Ended, Partial, Adopt
  <2>2. Len(out) >= c
    BY <1>4, <2>1
  <2>3. Progress'
    BY <1>0, <1>1, <1>3, <2>1, <2>2 DEF Progress
  <2> QED BY <1>0, <2>1, <2>3, ContentStays
<1>10. ASSUME NEW o \in Outcomes, DecodeRecord(o) PROVE ContentInv'
  BY <1>10, DecodeContent
<1>11. ASSUME NEW o \in Outcomes, FailRecord(o) PROVE ContentInv'
  <2>1. /\ pc = "block" /\ pc' = "ended" /\ out' = out /\ blockAt \in 1 .. Len(ctx.blocks)
        /\ o \in ctx.blocks[blockAt].may /\ o \in {"fail", "fatal"}
    BY <1>2, <1>11 DEF FailRecord, Decoding
  <2>2. ctx.blocks[blockAt].may = {"right"} \/ GivenBefore(ctx.blocks, blockAt) >= c
    BY <1>0, <1>1, <2>1, WorkFacts DEF Work
  <2>3. Len(out) >= c
    BY <1>4, <2>1, <2>2
  <2>4. Progress'
    BY <1>0, <1>1, <1>3, <2>1, <2>3 DEF Progress
  <2> QED BY <1>0, <2>1, <2>4, ContentStays
<1> QED BY <1>5, <1>6, <1>7, <1>8, <1>9, <1>10, <1>11

\* The loop over the files leaves the output alone.
LEMMA LoopContent ==
    ASSUME ContentInv,
           Skip \/ Test \/ Unsafe \/ Ask \/ Write \/ AnswerYes \/ AnswerAlways \/ AnswerNo
    PROVE  ContentInv'
<1>1. /\ UNCHANGED <<in, walk, ctx, said, out>> /\ pc \in {"copy", "ask"} /\ pc' \in {"copy", "ask"}
  BY DEF Skip, Test, Unsafe, Ask, Write, Writes, Goes, Copying, AnswerYes, AnswerAlways, AnswerNo,
         WriteEntry, Rest
<1>2. Progress'
  BY <1>1 DEF ContentInv, Progress
<1> QED BY <1>1, <1>2, ContentStays

\* The ends of a run that took the archive.
LEMMA EndContent == ASSUME LaidOut, Inv, ContentInv, Nothing \/ Finish PROVE ContentInv'
<1>1. /\ UNCHANGED <<in, walk, ctx, out, cursor>> /\ pc \notin {"parse", "done"} /\ pc' = "done"
      /\ said' # "refused"
  BY DEF Nothing, Finish, Corrupt
<1>2. ReadOf(in, walk)' /\ PlaceOf(in, walk)'
  BY <1>1 DEF ContentInv
<1>3. HandedOn'
  <2>1. said # "refused"
    BY <1>1 DEF ContentInv, HandedOn
  <2> QED BY <1>1, <2>1 DEF ContentInv, HandedOn
<1>4. NothingDecoded' \/ cursor' = Len(ctx'.entries) + 1
  <2>1. CASE Nothing
    <3>1. pc = "open" /\ engine = "none" /\ out = <<>>
      BY <2>1 DEF Nothing
    <3>2. ctx.codec # "store" /\ ctx.total > 0
      BY <3>1 DEF ContentInv, HandedOn
    <3>3. Clean(in, walk) \in Nat
      BY <1>1, WorkFacts DEF Work
    <3>4. ctx.codec # "none"
      <4>1. PICK found \in BOOLEAN : ctx = Context(in, walk, found) /\ Accepted(in.records, Size(in), walk)
        BY <1>1 DEF ContentInv, HandedOn
      <4>2. Known(walk) /\ ctx.codec = walk.codec
        BY <4>1, AcceptedKnown DEF Context
      <4> QED BY <4>2 DEF Known
    <3>5. ~Ahead
      BY <3>1, <3>4 DEF Ahead
    <3>6. Len(out) >= Clean(in, walk) \/ ctx.blocks = <<>>
      BY <3>1, <3>5 DEF ContentInv, Progress
    <3>7. Len(out) = 0
      BY <3>1
    <3> QED BY <1>1, <3>2, <3>3, <3>6, <3>7 DEF NothingDecoded
  <2>2. CASE Finish
    <3>1. cursor > Len(ctx.entries)
      BY <2>2 DEF Finish
    <3>2. PICK n \in Nat : n = Len(ctx.entries) /\ cursor \in 1 .. n + 1
      BY DEF Inv, Handed, FileTypes
    <3> QED BY <1>1, <3>1, <3>2
  <2> QED BY <2>1, <2>2
<1>5. Progress'
  BY <1>1, <1>4 DEF ContentInv, Progress
<1> QED BY <1>2, <1>3, <1>5 DEF ContentInv

\* Every step keeps it.
LEMMA ContentKept == ASSUME LaidOut, Inv, ContentInv, [Next \/ Done]_vars PROVE ContentInv'
<1>1. CASE UNCHANGED vars
  <2>1. UNCHANGED <<in, walk, ctx, pc, engine, blockAt, out, cursor, said>>
    BY <1>1 DEF vars
  <2>2. ReadOf(in, walk)' /\ PlaceOf(in, walk)' /\ HandedOn'
    BY <2>1 DEF ContentInv, HandedOn
  <2>3. Progress'
    BY <2>1 DEF ContentInv, Progress, Ahead, NothingDecoded
  <2> QED BY <2>2, <2>3 DEF ContentInv
<1>2. CASE ReadRecord
  BY <1>2, ReadContent
<1>3. CASE Refuse \/ ParseStore \/ \E found \in BOOLEAN : ParsePacked(found)
  BY <1>3, ParseContent
<1>4. CASE \/ Decline \/ Start \/ EndOfRecords \/ HandBack \/ Ended \/ Partial
           \/ \E o \in Outcomes : DecodeRecord(o) \/ FailRecord(o)
  BY <1>4, DecoderContent
<1>5. CASE Skip \/ Test \/ Unsafe \/ Ask \/ Write \/ AnswerYes \/ AnswerAlways \/ AnswerNo
  BY <1>5, LoopContent
<1>6. CASE Nothing \/ Finish
  BY <1>6, EndContent
<1> QED BY <1>1, <1>2, <1>3, <1>4, <1>5, <1>6 DEF Next, Done

\* As far as an archive is clean, its output is what was archived.
LEMMA ContentHolds == ASSUME LaidOut PROVE Spec => []ContentInv
<1>1. Init => ContentInv
  BY InitContent
<1>2. Inv /\ ContentInv /\ [Next \/ Done]_vars => ContentInv'
  BY ContentKept
<1> QED BY <1>1, <1>2, Invariance, PTL DEF Spec
-----------------------------------------------------------------------------
(* The entries of an output *)

\* An entry ends before the next one starts, and no later than the output.
LEMMA EntryFits ==
    ASSUME NEW x \in Inputs, NEW es \in Seq(EntriesIn(x)), NEW j \in 1 .. Len(es)
    PROVE  /\ es[j].size \in Nat /\ StartOf(es, j) \in Nat /\ SizeOf(es) \in Nat
           /\ StartOf(es, j) + es[j].size <= SizeOf(es)
           /\ \A k \in j + 1 .. Len(es) : StartOf(es, j) + es[j].size <= StartOf(es, k)
<1> DEFINE sizes == [k \in DOMAIN es |-> es[k].size]
<1>1. PICK n \in Nat : n = Len(es) /\ DOMAIN es = 1 .. n
  OBVIOUS
<1>2. \A k \in 1 .. n : sizes[k] \in Nat /\ sizes[k] = es[k].size
  <2>1. \A k \in 1 .. n : es[k] \in EntriesIn(x)
    BY <1>1
  <2>2. \A e \in EntriesIn(x) : e.size \in Nat
    BY DEF EntriesIn, Listing
  <2> QED BY <1>1, <2>1, <2>2
<1>3. (\A k : StartOf(es, k) = SumBefore(sizes, k)) /\ SizeOf(es) = SumBefore(sizes, n + 1)
  BY <1>1 DEF StartOf, SizeOf
<1> HIDE DEF sizes
<1>4. j \in Nat \ {0} /\ j \in 1 .. n
  BY <1>1
<1>5. SumBefore(sizes, j) \in Nat /\ SumBefore(sizes, n + 1) \in Nat
  <2>1. (\A k \in 1 .. j - 1 : sizes[k] \in Nat) /\ \A k \in 1 .. (n + 1) - 1 : sizes[k] \in Nat
    <3>1. \A k \in 1 .. n : sizes[k] \in Nat
      BY <1>2
    <3>2. (\A k \in 1 .. j - 1 : k \in 1 .. n) /\ \A k \in 1 .. (n + 1) - 1 : k \in 1 .. n
      BY ONLY n \in Nat, <1>4
    <3> QED BY ONLY <3>1, <3>2
  <2>2. n + 1 \in Nat \ {0}
    OBVIOUS
  <2> QED BY <1>4, <2>1, <2>2, SumType
<1>6. SumBefore(sizes, j + 1) = SumBefore(sizes, j) + sizes[j]
  BY <1>4, SumStep
<1>7. ASSUME NEW k \in j + 1 .. n + 1 PROVE SumBefore(sizes, j + 1) <= SumBefore(sizes, k)
  <2>1. k \in Nat \ {0} /\ j + 1 \in 1 .. k /\ \A i \in 1 .. k - 1 : i \in 1 .. n
    BY <1>4
  <2>2. \A i \in 1 .. k - 1 : sizes[i] \in Nat
    BY <1>2, <2>1
  <2> QED BY <2>1, <2>2, SumGrows
<1>8. es[j].size \in Nat /\ sizes[j] = es[j].size
  BY <1>2, <1>4
<1>9. n + 1 \in j + 1 .. n + 1 /\ \A k \in j + 1 .. n : k \in j + 1 .. n + 1
  BY <1>4
<1> QED BY <1>1, <1>3, <1>5, <1>6, <1>7, <1>8, <1>9

\* Of an output that reaches its end an entry has its length, and it is what was archived
\* if it is in place.
LEMMA RangeInPlace ==
    ASSUME NEW x \in Inputs, NEW es \in Seq(EntriesIn(x)), NEW us \in Seq(Int), NEW j \in 1 .. Len(es),
           StartOf(es, j) + es[j].size <= Len(us), NEW c \in Nat, InPlace(us, c)
    PROVE  /\ Len(RangeOf(es, us, j)) = es[j].size
           /\ es[j].size = 0 \/ StartOf(es, j) + es[j].size <= c =>
                RangeOf(es, us, j) = TrueContent(es, j)
<1>1. PICK a \in Nat, s \in Nat : a = StartOf(es, j) /\ s = es[j].size
  BY EntryFits
<1>2. PICK l \in Nat : l = Len(us) /\ a + s <= l
  BY <1>1
<1>3. RangeOf(es, us, j) = SubSeq(us, a + 1, a + s)
  <2>1. l \in Int /\ a + s \in Int
    OBVIOUS
  <2>2. Min({l, a + s}) = a + s
    BY <1>2, <2>1, MinOfTwo
  <2> QED BY <1>1, <1>2, <2>2 DEF RangeOf
<1>4. PICK r \in Seq(Int) : r = SubSeq(us, a + 1, a + s) /\ Len(r) = s
                            /\ \A n \in 1 .. s : r[n] = us[a + n]
  <2>1. a + s <= Len(us)
    BY <1>2
  <2>2. SubSeq(us, a + 1, a + s) \in Seq(Int)
    BY <2>1
  <2>3. Len(SubSeq(us, a + 1, a + s)) = s
    BY ONLY us \in Seq(Int), a \in Nat, s \in Nat, <2>1
  <2>4. ASSUME NEW n \in 1 .. s PROVE SubSeq(us, a + 1, a + s)[n] = us[a + n]
    <3>1. n \in 1 .. Len(SubSeq(us, a + 1, a + s)) /\ (a + 1) + n - 1 = a + n
      BY <2>3
    <3> QED BY ONLY us \in Seq(Int), a \in Nat, s \in Nat, n \in 1 .. s, <2>1, <3>1
  <2> QED BY <2>2, <2>3, <2>4
<1>5. ASSUME s = 0 \/ a + s <= c PROVE RangeOf(es, us, j) = TrueContent(es, j)
  <2>1. ASSUME NEW n \in 1 .. s PROVE r[n] = a + n
    <3>1. a + n \in 1 .. l /\ a + n <= c
      BY <1>2, <1>5
    <3> QED BY <1>2, <1>4, <3>1 DEF InPlace
  <2>2. r = [n \in 1 .. s |-> r[n]]
    <3>1. \A q \in Seq(Int) : q = [n \in 1 .. Len(q) |-> q[n]]
      OBVIOUS
    <3> QED BY <1>4, <3>1
  <2>3. r = [n \in 1 .. s |-> a + n]
    BY <2>1, <2>2
  <2>4. TrueContent(es, j) = [n \in 1 .. s |-> a + n]
    BY <1>1 DEF TrueContent
  <2> QED BY <1>3, <1>4, <2>3, <2>4
<1> QED BY <1>1, <1>3, <1>4, <1>5

\* Of a complete output every entry has its length.
LEMMA WholeRange ==
    ASSUME NEW x \in Inputs, NEW es \in Seq(EntriesIn(x)), NEW us \in Seq(Int),
           Len(us) = SizeOf(es), NEW j \in 1 .. Len(es)
    PROVE  /\ Len(RangeOf(es, us, j)) = es[j].size
           /\ es[j].size \in Nat /\ es[j].size <= SizeOf(es)
           /\ es[j].size = 0 => RangeOf(es, us, j) = TrueContent(es, j)
<1>1. /\ es[j].size \in Nat /\ StartOf(es, j) \in Nat /\ SizeOf(es) \in Nat
      /\ StartOf(es, j) + es[j].size <= SizeOf(es)
  BY EntryFits
<1>2. InPlace(us, 0)
  BY DEF InPlace
<1>3. StartOf(es, j) + es[j].size <= Len(us)
  BY <1>1
<1> QED BY <1>1, <1>2, <1>3, RangeInPlace

\* A file that holds what an entry the driver was handed says is right.
LEMMA EntryRight ==
    ASSUME Inv, NEW j \in DOMAIN ctx.entries, NEW f, ctx.entries[j].file = f,
           disk[f] = [new |-> TRUE, there |-> TRUE, data |-> TrueContent(ctx.entries, j)]
    PROVE  Right(f)
<1>1. PICK x \in Inputs : x = in
  BY DEF Inv
<1>2. PICK all \in Seq(EntriesIn(x)) : all = AllEntries
  <2>1. Len(x.records) \in 0 .. Len(x.records)
    BY InputsAssumption
  <2> QED BY <1>1, <2>1, TablesType DEF AllEntries
<1>3. PICK es \in Seq(EntriesIn(x)) : es = ctx.entries /\ Begins(es, all)
  BY <1>1, <1>2 DEF Inv, Handed, AllEntries
<1>4. j \in DOMAIN all /\ j \in 1 .. Len(es) /\ all[j] = es[j]
  BY <1>3 DEF Begins
<1>5. TrueContent(es, j) = TrueContent(all, j)
  <2>1. StartOf(es, j) = StartOf(all, j)
    BY <1>3, <1>4, StartSame
  <2> QED BY <1>4, <2>1 DEF TrueContent
<1> QED BY <1>2, <1>3, <1>4, <1>5 DEF Right
-----------------------------------------------------------------------------
(* What status 0 rests on *)

\* Every entry has a checksum that can be told.
Told == ctx.sums = Len(ctx.entries) /\ ctx.verifies

\* Nothing wrong can come out unnoticed.
Certain == Told \/ ctx.total <= Clean(in, walk)

\* No entry has been gone through.
Untouched == cursor = 1 /\ \A f \in FilesOf(in) : ~disk[f].new

\* The files are gone through, or were with nothing to report.
Written == pc \in {"copy", "ask"} \/ (pc = "done" /\ rc = 0)

Sized == ctx.total = SizeOf(ctx.entries)

\* While the decoders are tried nothing is written, the output is made of the blocks that
\* were decoded, and blocks that can make it complete tell every checksum or are clean.
Decoded ==
    pc \in {"open", "block", "ended"} =>
        /\ Untouched /\ Len(out) <= GivenBefore(ctx.blocks, blockAt)
        /\ in.checks /\ ctx.total > 0 /\ ctx.total <= Given(ctx.blocks) => Certain
        /\ pc = "open" => out = <<>> \/ err # "none"
        /\ pc = "ended" /\ err = "none" => Len(out) = ctx.total

\* An output that ended well is complete.
Complete ==
    Written /\ end = "ok" => Len(out) = ctx.total /\ (in.checks /\ ctx.total > 0 => Certain)

Succeeded == pc = "done" /\ rc = 0 => end = "ok" /\ failed = 0 /\ cursor = Len(ctx.entries) + 1

\* What is written for one of the entries the loop is past.
WrittenFor(f) ==
    \E j \in 1 .. cursor - 1 :
        /\ ctx.entries[j].file = f
        /\ disk[f] = [new |-> TRUE, there |-> TRUE, data |-> RangeOf(ctx.entries, out, j)]

\* Entry j is to be written.
Due(j) == ~in.test /\ ctx.entries[j].file \in in.selected \ refused

\* As long as nothing was counted as failed, the entries the loop is past are right, they
\* are what was written, and those that were to be written are.
Compared ==
    Written /\ end = "ok" /\ failed = 0 =>
        /\ in.checks => \A j \in 1 .. cursor - 1 :
                            RangeOf(ctx.entries, out, j) = TrueContent(ctx.entries, j)
        /\ \A f \in FilesOf(in) : disk[f].new => WrittenFor(f)
        /\ \A j \in 1 .. cursor - 1 : Due(j) => disk[ctx.entries[j].file].new

StatusInv == Sized /\ Decoded /\ Complete /\ Succeeded /\ Compared

\* It holds before the first record.
LEMMA InitStatus == ASSUME Init PROVE StatusInv
<1>1. in \in Inputs /\ walk = StartOfWalk /\ pc = "parse" /\ ctx.total = 0 /\ ctx.entries = <<>>
  BY DEF Init, NoEntries
<1>2. Sized
  BY <1>1, SizeOfNone DEF Sized
<1> QED BY <1>1, <1>2 DEF StatusInv, Decoded, Complete, Succeeded, Compared, Written

\* Reading a record keeps it.
LEMMA ReadStatus == ASSUME StatusInv, ReadRecord PROVE StatusInv'
<1>1. UNCHANGED <<in, ctx, pc>> /\ pc = "parse"
  BY DEF ReadRecord, Reading
<1>2. Sized'
  BY <1>1 DEF Sized, StatusInv
<1> QED BY <1>1, <1>2 DEF StatusInv, Decoded, Complete, Succeeded, Compared, Written

\* What the walk hands over: if the records it read can make the output complete, every
\* checksum is among them, or they are clean.
LEMMA HandStatus ==
    ASSUME LaidOut, Inv, ContentInv, NEW found \in BOOLEAN, UNCHANGED <<in, walk>>,
           ~More(in.records, Size(in), walk),
           Accepted(in.records, Size(in), walk), ctx' = Context(in, walk, found)
    PROVE  /\ Sized' /\ ctx'.total \in Nat
           /\ in.checks /\ ctx'.total > 0 /\ ctx'.total <= Reach(in, walk) => Certain'
<1>1. PICK x \in Inputs : x = in /\ WalkOf(x, walk) /\ ReadOf(x, walk) /\ PlaceOf(x, walk)
  BY DEF Inv, ContentInv
<1>2. ctx' = Context(x, walk, found) /\ Known(walk)
  BY <1>1, AcceptedKnown
<1>3. ctx'.entries = EntriesOf(walk) /\ ctx'.total = SizeOf(EntriesOf(walk)) /\ ctx'.total \in Nat
  BY <1>1, <1>2, ContextIs
<1>4. ASSUME in.checks, ctx'.total > 0, ctx'.total <= Reach(in, walk) PROVE Certain'
  <2>1. walk.sums = Len(EntriesOf(walk)) \/ SizeOf(EntriesOf(walk)) <= Clean(x, walk)
    BY <1>1, <1>3, <1>4, AllSums
  <2>2. CASE walk.sums = Len(EntriesOf(walk))
    <3>1. LET c == Context(x, walk, found) IN c.sums = Len(c.entries) /\ c.verifies
      BY <1>1, <1>3, <1>4, <2>2, AllTold
    <3> QED BY <1>2, <3>1 DEF Certain, Told
  <2>3. CASE SizeOf(EntriesOf(walk)) <= Clean(x, walk)
    BY <1>1, <1>3, <2>3 DEF Certain
  <2> QED BY <2>1, <2>2, <2>3
<1> QED BY <1>3, <1>4 DEF Sized

\* A stored archive, and one that needs no output, is handed over with what there is.
LEMMA ParseStoreStatus ==
    ASSUME LaidOut, Inv, ContentInv, StatusInv, ParseStore PROVE StatusInv'
<1> DEFINE units == IF ctx'.codec = "store" THEN StoredUnits(Records(in), walk) ELSE <<>>
<1>1. /\ UNCHANGED <<in, walk, cursor, failed, disk>> /\ pc = "parse" /\ pc' = "copy"
      /\ Accepted(in.records, Size(in), walk) /\ ctx' = Context(in, walk, TRUE) /\ out' = units
      /\ end' = IF Len(units) = ctx'.total THEN "ok" ELSE "eof"
      /\ ~More(in.records, Size(in), walk)
  BY DEF ParseStore, Parsed, Reading
<1>2. /\ Sized' /\ ctx'.total \in Nat
      /\ in.checks /\ ctx'.total > 0 /\ ctx'.total <= Reach(in, walk) => Certain'
  BY <1>1, HandStatus
<1>3. ASSUME end' = "ok" PROVE Len(out') = ctx'.total
  BY <1>1, <1>3
<1>4. ASSUME end' = "ok", in.checks, ctx'.total > 0 PROVE Certain'
  <2>1. CASE ctx'.codec = "store"
    <3>1. PICK x \in Inputs : x = in /\ walk \in WalksOf(x) /\ ReadOf(x, walk)
      BY DEF Inv, WalkOf, ContentInv
    <3>2. walk.codec = "store"
      BY <1>1, <2>1 DEF Context
    <3>3. Len(StoredUnits(Records(x), walk)) <= Reach(x, walk)
      BY <3>1, <3>2, StoredReach
    <3>4. ctx'.total <= Reach(in, walk)
      BY <1>1, <1>3, <1>4, <2>1, <3>1, <3>3
    <3> QED BY <1>2, <1>4, <3>4
  <2>2. CASE ctx'.codec # "store"
    <3>1. Len(out') = 0
      BY <1>1, <2>2
    <3> QED BY <1>3, <1>4, <3>1
  <2> QED BY <2>1, <2>2
<1> HIDE DEF units
<1>6. Decoded' /\ Succeeded'
  BY <1>1 DEF Decoded, Succeeded
<1>7. Complete'
  BY <1>1, <1>3, <1>4 DEF Complete
<1>8. Compared'
  <2>1. cursor' = 1 /\ \A f \in FilesOf(in') : ~disk'[f].new
    BY <1>1 DEF Inv, Fresh
  <2> QED BY <2>1 DEF Compared
<1> QED BY <1>2, <1>6, <1>7, <1>8 DEF StatusInv

\* The others are handed over with what the decoders are to decode.
LEMMA ParsePackedStatus ==
    ASSUME LaidOut, Inv, ContentInv, StatusInv, NEW found \in BOOLEAN, ParsePacked(found)
    PROVE  StatusInv'
<1>1. /\ UNCHANGED <<in, walk, blockAt, out, cursor, disk>> /\ pc = "parse" /\ pc' = "open"
      /\ Accepted(in.records, Size(in), walk) /\ ctx' = Context(in, walk, found)
      /\ ctx'.codec # "store" /\ ~More(in.records, Size(in), walk)
  BY DEF ParsePacked, Parsed, Reading
<1>2. /\ Sized' /\ ctx'.total \in Nat
      /\ in.checks /\ ctx'.total > 0 /\ ctx'.total <= Reach(in, walk) => Certain'
  BY <1>1, HandStatus
<1>3. PICK x \in Inputs : x = in /\ WalkOf(x, walk) /\ walk \in WalksOf(x) /\ ReadOf(x, walk)
  BY DEF Inv, WalkOf, ContentInv
<1>4. ctx'.blocks \in BlocksType
  BY <1>1, <1>3, AcceptedKnown, ContextIs
<1>5. Given(ctx'.blocks) <= Reach(x, walk) /\ Reach(x, walk) \in Nat /\ Given(ctx'.blocks) \in Nat
      /\ GivenBefore(ctx'.blocks, 1) = 0
  <2>1. ctx'.blocks = <<>> \/ ctx'.blocks = Blocks(x, walk)
    BY <1>1, <1>3 DEF Context
  <2>2. Reach(x, walk) \in Nat /\ Given(Blocks(x, walk)) <= Reach(x, walk)
    BY <1>3, ReachType, BlocksReach
  <2>3. 1 \in 1 .. Len(ctx'.blocks) + 1
    BY <1>4 DEF BlocksType
  <2>4. Given(ctx'.blocks) \in Nat /\ GivenBefore(ctx'.blocks, 1) = 0
    BY <1>4, <2>3, GivenType
  <2>5. Given(<<>>) = 0
    <3>1. Len(<<>>) + 1 = 1
      OBVIOUS
    <3> QED BY <3>1, SumNone DEF Given, GivenBefore
  <2> QED BY <2>1, <2>2, <2>4, <2>5
<1>6. out' = <<>> /\ blockAt' = 1 /\ Untouched'
  BY <1>1 DEF Inv, Fresh, Untouched
<1>7. Decoded'
  <2>1. Len(out') <= GivenBefore(ctx'.blocks, blockAt')
    BY <1>5, <1>6
  <2>2. in'.checks /\ ctx'.total > 0 /\ ctx'.total <= Given(ctx'.blocks) => Certain'
    BY <1>1, <1>2, <1>3, <1>5
  <2> QED BY <1>1, <1>6, <2>1, <2>2 DEF Decoded
<1>9. Complete' /\ Succeeded' /\ Compared'
  BY <1>1 DEF Complete, Succeeded, Compared, Written
<1> QED BY <1>2, <1>7, <1>9 DEF StatusInv

\* An archive that is not taken, or that no decoder was for, gives another status.
LEMMA RefusedStatus == ASSUME StatusInv, Refuse \/ Nothing PROVE StatusInv'
<1>1. UNCHANGED <<in, walk, ctx>> /\ pc' = "done" /\ rc' # 0
  BY DEF Refuse, Nothing, Corrupt
<1>2. Sized'
  BY <1>1 DEF StatusInv, Sized
<1> QED BY <1>1, <1>2 DEF StatusInv, Decoded, Complete, Succeeded, Compared, Written

\* A decoder's step that leaves the archive, the entries and the files alone.
LEMMA DecodingStatus ==
    ASSUME StatusInv, UNCHANGED <<in, walk, ctx, cursor, disk>>, pc \in {"open", "block", "ended"},
           pc' \in {"open", "block", "ended"}, Len(out') <= GivenBefore(ctx.blocks, blockAt'),
           pc' = "open" => out' = <<>> \/ err' # "none",
           pc' = "ended" /\ err' = "none" => Len(out') = ctx.total
    PROVE  StatusInv'
<1>1. Untouched' /\ (in'.checks /\ ctx'.total > 0 /\ ctx'.total <= Given(ctx'.blocks) => Certain')
  BY DEF StatusInv, Decoded, Untouched, Certain, Told
<1>2. Decoded'
  BY <1>1 DEF Decoded
<1>3. Sized'
  BY DEF StatusInv, Sized
<1> QED BY <1>2, <1>3 DEF StatusInv, Complete, Succeeded, Compared, Written

\* A record decoded adds no more than its block gives.
LEMMA DecodeStatus == ASSUME Inv, StatusInv, NEW o \in Outcomes, DecodeRecord(o) PROVE StatusInv'
<1> DEFINE us == ctx.blocks[blockAt].units
           got == CASE o = "right" -> us
                    [] o = "wrong" -> AllWrong(us)
                    [] o = "short" -> SubSeq(us, 1, Len(us) - 1)
<1>1. /\ UNCHANGED <<in, walk, ctx, cursor, disk, pc>> /\ blockAt' = blockAt + 1
      /\ blockAt <= Len(ctx.blocks) /\ o \notin {"fail", "fatal"} /\ pc = "block"
      /\ out' = SubSeq(out \o got, 1, Min({Len(out \o got), ctx.total}))
  BY DEF DecodeRecord, Decoding
<1>2. ctx.blocks \in BlocksType /\ ctx.total \in Nat /\ out \in Seq(Int)
      /\ blockAt \in 1 .. Len(ctx.blocks)
  BY <1>1 DEF Inv, Handed, DecoderTypes, BlocksType
<1>3. PICK b \in Seq(Int) : b = us
  <2> DEFINE B == [units : Seq(Int), may : SUBSET Outcomes]
  <2>1. ctx.blocks \in Seq(B)
    BY <1>2 DEF BlocksType
  <2> HIDE DEF B
  <2>2. ctx.blocks[blockAt] \in B
    BY <1>2, <2>1
  <2> QED BY <2>2 DEF B
<1>4. got \in Seq(Int) /\ Len(got) <= Len(b)
  <2>1. AllWrong(b) \in Seq(Int) /\ Len(AllWrong(b)) = Len(b)
    BY DEF AllWrong, BadUnit
  <2>2. SubSeq(b, 1, Len(b) - 1) \in Seq(Int) /\ Len(SubSeq(b, 1, Len(b) - 1)) <= Len(b)
    <3>1. CASE Len(b) = 0
      BY <3>1
    <3>2. CASE Len(b) # 0
      BY <3>2
    <3> QED BY <3>1, <3>2
  <2>3. o \in {"right", "wrong", "short"}
    BY <1>1 DEF Outcomes
  <2> HIDE DEF us
  <2> QED BY <1>3, <2>1, <2>2, <2>3
<1>5. Len(out') <= Len(out) + Len(b)
  <2> HIDE DEF got, us
  <2>1. PICK a \in Seq(Int), g \in Seq(Int), t \in Nat : a = out /\ g = got /\ t = ctx.total
    BY <1>2, <1>4
  <2>2. PICK c \in Seq(Int) : c = a \o g /\ Len(c) = Len(a) + Len(g)
    <3>1. a \o g \in Seq(Int) /\ Len(a \o g) = Len(a) + Len(g)
      OBVIOUS
    <3> QED BY <3>1
  <2>3. PICK m \in Nat : m = Min({Len(c), t}) /\ m <= Len(c)
    <3>1. Len(c) \in Int /\ t \in Int
      OBVIOUS
    <3>2. Min({Len(c), t}) = IF Len(c) <= t THEN Len(c) ELSE t
      BY <3>1, MinOfTwo
    <3> QED BY <3>2
  <2>4. Len(SubSeq(c, 1, m)) = m
    <3>1. m <= Len(c)
      BY <2>3
    <3> QED BY ONLY c \in Seq(Int), m \in Nat, <3>1
  <2>5. out' = SubSeq(c, 1, m)
    BY <1>1, <2>1, <2>2, <2>3
  <2> QED BY <1>4, <2>1, <2>2, <2>3, <2>4, <2>5
<1> HIDE DEF got, us
<1>6. blockAt \in 1 .. Len(ctx.blocks) + 1
  BY <1>2 DEF BlocksType
<1>7. GivenBefore(ctx.blocks, blockAt + 1) = GivenBefore(ctx.blocks, blockAt) + Len(b)
      /\ GivenBefore(ctx.blocks, blockAt) \in Nat
  BY <1>1, <1>2, <1>3, <1>6, GivenType DEF us
<1>8. Len(out) <= GivenBefore(ctx.blocks, blockAt)
  BY <1>1 DEF StatusInv, Decoded
<1>9. Len(out') <= GivenBefore(ctx.blocks, blockAt')
  <2>1. Len(out) \in Nat /\ Len(b) \in Nat /\ Len(out') \in Int
    <3>1. Len(out') \in Int
      <4>1. out' \in Seq(Int)
        BY DecodeTypes DEF DecoderTypes
      <4> QED BY <4>1
    <3> QED BY <1>2, <3>1
  <2>2. PICK g \in Nat : g = GivenBefore(ctx.blocks, blockAt) /\ g + Len(b) = GivenBefore(ctx.blocks, blockAt + 1)
    BY <1>7
  <2>3. Len(out') <= g + Len(b)
    BY ONLY g \in Nat, <1>5, <1>8, <2>1, <2>2
  <2>4. blockAt' = blockAt + 1
    BY <1>1
  <2> QED BY <2>2, <2>3, <2>4
<1> QED BY <1>1, <1>9, DecodingStatus

\* The decoders keep it.
LEMMA DecoderStatus ==
    ASSUME Inv, StatusInv,
           \/ Decline \/ Start \/ EndOfRecords \/ HandBack
           \/ \E o \in Outcomes : DecodeRecord(o) \/ FailRecord(o)
    PROVE  StatusInv'
<1>1. pc \in {"open", "block", "ended"} => Len(out) <= GivenBefore(ctx.blocks, blockAt)
  BY DEF StatusInv, Decoded
<1>2. CASE Decline
  <2>1. /\ UNCHANGED <<in, walk, ctx, cursor, disk, blockAt, out, err>> /\ pc = "open" /\ pc' = "open"
    BY <1>2 DEF Decline
  <2>2. out = <<>> \/ err # "none"
    BY <2>1 DEF StatusInv, Decoded
  <2> QED BY <1>1, <2>1, <2>2, DecodingStatus
<1>3. CASE Start
  <2>1. /\ UNCHANGED <<in, walk, ctx, cursor, disk>> /\ pc = "open" /\ pc' = "block"
        /\ blockAt' = 1 /\ out' = <<>>
    BY <1>3 DEF Start
  <2>2. Len(out') <= GivenBefore(ctx.blocks, blockAt')
    <3>1. ctx.blocks \in BlocksType
      BY DEF Inv, Handed
    <3>2. 1 \in 1 .. Len(ctx.blocks) + 1
      BY <3>1 DEF BlocksType
    <3>3. GivenBefore(ctx.blocks, 1) = 0
      BY <3>1, <3>2, GivenType
    <3> QED BY <2>1, <3>3
  <2> QED BY <2>1, <2>2, DecodingStatus
<1>4. CASE EndOfRecords
  <2>1. /\ UNCHANGED <<in, walk, ctx, cursor, disk, blockAt, out>> /\ pc = "block" /\ pc' = "ended"
        /\ err' = "none" => Len(out) = ctx.total
    BY <1>4 DEF EndOfRecords
  <2> QED BY <1>1, <2>1, DecodingStatus
<1>5. CASE HandBack
  <2>1. /\ UNCHANGED <<in, walk, ctx, cursor, disk, blockAt, out, err>> /\ pc = "ended" /\ pc' = "open"
        /\ err # "none"
    BY <1>5 DEF HandBack
  <2> QED BY <1>1, <2>1, DecodingStatus
<1>6. ASSUME NEW o \in Outcomes, DecodeRecord(o) PROVE StatusInv'
  BY <1>6, DecodeStatus
<1>7. ASSUME NEW o \in Outcomes, FailRecord(o) PROVE StatusInv'
  <2>1. /\ UNCHANGED <<in, walk, ctx, cursor, disk, blockAt, out>> /\ pc = "block" /\ pc' = "ended"
        /\ err' # "none"
    BY <1>7 DEF FailRecord, Decoding
  <2> QED BY <1>1, <2>1, DecodingStatus
<1> QED BY <1>2, <1>3, <1>4, <1>5, <1>6, <1>7

\* A decode that is adopted without an error is complete, so its blocks could make it so.
LEMMA AdoptedStatus == ASSUME Inv, StatusInv, Ended \/ Partial PROVE StatusInv'
<1>1. /\ UNCHANGED <<in, walk, ctx, cursor, disk, out, failed>> /\ pc' = "copy"
      /\ end' = IF err = "none" THEN "ok" ELSE err
      /\ pc = "ended" \/ (pc = "open" /\ out # <<>>)
  BY DEF Ended, Partial, Adopt
<1>2. /\ Untouched /\ Len(out) <= GivenBefore(ctx.blocks, blockAt)
      /\ in.checks /\ ctx.total > 0 /\ ctx.total <= Given(ctx.blocks) => Certain
      /\ pc = "open" => err # "none"
      /\ pc = "ended" /\ err = "none" => Len(out) = ctx.total
  BY <1>1 DEF StatusInv, Decoded
<1>3. end' = "ok" => err = "none"
  BY <1>1 DEF Inv, DecoderTypes
<1>4. /\ GivenBefore(ctx.blocks, blockAt) <= Given(ctx.blocks)
      /\ GivenBefore(ctx.blocks, blockAt) \in Nat /\ Given(ctx.blocks) \in Nat
  BY GivenType DEF Inv, Handed, DecoderTypes
<1>5. Complete'
  <2>1. SUFFICES ASSUME end' = "ok"
                 PROVE  Len(out) = ctx.total /\ (in.checks /\ ctx.total > 0 => Certain)
    BY <1>1 DEF Complete, Certain, Told
  <2>2. Len(out) = ctx.total
    BY <1>1, <1>2, <1>3, <2>1
  <2>3. ctx.total <= Given(ctx.blocks)
    <3>1. ctx.total \in Nat
      BY DEF Inv, Handed
    <3> QED BY <1>2, <1>4, <2>2, <3>1
  <2> QED BY <1>2, <2>2, <2>3
<1>6. Compared'
  <2>1. cursor' = 1 /\ \A f \in FilesOf(in') : ~disk'[f].new
    BY <1>1, <1>2 DEF Untouched
  <2> QED BY <2>1 DEF Compared
<1>7. Sized' /\ Decoded' /\ Succeeded'
  BY <1>1 DEF StatusInv, Sized, Decoded, Succeeded
<1> QED BY <1>5, <1>6, <1>7 DEF StatusInv

\* The steps that are past an entry: if the decode ended well and nothing is counted, the
\* entry is whole, it is not a mismatch, and it is right if it could be told.
LEMMA EntryPassed ==
    ASSUME LaidOut, Inv, ContentInv, StatusInv, pc \in {"copy", "ask"},
           cursor <= Len(ctx.entries), end = "ok", Next1, failed' \in {failed + Bad, failed + (Bad + 1)}, failed' = 0
    PROVE  /\ failed = 0 /\ failed' = failed + Bad
           /\ cursor' = cursor + 1 /\ cursor \in 1 .. Len(ctx.entries)
           /\ ~LastPartial /\ ~Mismatch
           /\ in.checks => Content = TrueContent(ctx.entries, cursor)
<1>1. PICK x \in Inputs : x = in
  BY DEF Inv
<1>2. PICK es \in Seq(EntriesIn(x)) : es = ctx.entries
  BY <1>1 DEF Inv, Handed
<1>3. PICK us \in Seq(Int) : us = out
  BY DEF Inv, DecoderTypes
<1>4. PICK j \in 1 .. Len(es) : j = cursor
  BY <1>2 DEF Inv, FileTypes
<1>5. /\ Len(us) = ctx.total /\ ctx.total = SizeOf(es)
      /\ in.checks /\ ctx.total > 0 => Certain
  BY <1>2, <1>3 DEF StatusInv, Complete, Written, Sized
<1>6. /\ Len(RangeOf(es, us, j)) = es[j].size
      /\ es[j].size \in Nat /\ es[j].size <= SizeOf(es)
      /\ es[j].size = 0 => RangeOf(es, us, j) = TrueContent(es, j)
  BY <1>5, WholeRange
<1>7. Content = RangeOf(es, us, j) /\ Entry = es[j]
  BY <1>2, <1>3, <1>4 DEF Content, Entry
<1>8. ~LastPartial
  BY <1>6, <1>7 DEF LastPartial
<1>9. failed = 0 /\ Bad = 0 /\ failed' = failed + Bad
  <2>1. failed \in Nat
    BY DEF Inv, FileTypes
  <2> QED BY <2>1, BadType
<1>a. ~Mismatch
  BY <1>9 DEF Bad
<1>b. cursor' = cursor + 1
  BY <1>8 DEF Next1
<1>c. ASSUME in.checks PROVE Content = TrueContent(ctx.entries, cursor)
  <2>1. CASE es[j].size = 0
    BY <1>2, <1>4, <1>6, <1>7, <2>1
  <2>2. CASE es[j].size > 0
    <3>1. SizeOf(es) \in Nat
      BY SizeOfType
    <3>2. Certain
      BY <1>5, <1>6, <1>c, <2>2, <3>1
    <3>3. CASE Told
      <4>1. cursor <= ctx.sums /\ ctx.verifies
        BY <1>2, <1>4, <3>3 DEF Told
      <4>2. Judged
        BY <1>7, <1>8, <1>c, <2>2, <4>1 DEF Judged
      <4> QED BY <1>a, <4>2 DEF Mismatch
    <3>4. CASE ctx.total <= Clean(in, walk)
      <4>1. PICK c \in Nat : c = Clean(in, walk) /\ SizeOf(es) <= c
        BY <1>5, <3>4, WorkFacts DEF Work
      <4>2. InPlace(us, c)
        BY <1>3, <4>1 DEF ContentInv, Progress
      <4>3. /\ StartOf(es, j) \in Nat /\ StartOf(es, j) + es[j].size <= SizeOf(es)
        BY EntryFits
      <4>4. StartOf(es, j) + es[j].size <= Len(us) /\ StartOf(es, j) + es[j].size <= c
        BY <1>5, <1>6, <3>1, <4>1, <4>3
      <4>5. RangeOf(es, us, j) = TrueContent(es, j)
        BY <4>2, <4>4, RangeInPlace
      <4> QED BY <1>2, <1>4, <1>7, <4>5
    <3> QED BY <3>2, <3>3, <3>4 DEF Certain
  <2> QED BY <1>6, <2>1, <2>2
<1> QED BY <1>2, <1>4, <1>8, <1>9, <1>a, <1>b, <1>c

\* What every step of the loop over the files keeps.
LEMMA LoopStatus ==
    ASSUME StatusInv, UNCHANGED <<in, walk, ctx, out, end>>, pc \in {"copy", "ask"},
           pc' \in {"copy", "ask"}, Compared'
    PROVE  StatusInv'
<1>1. Sized' /\ Decoded' /\ Succeeded'
  BY DEF StatusInv, Sized, Decoded, Succeeded
<1>2. Complete'
  BY DEF StatusInv, Complete, Written, Certain, Told
<1> QED BY <1>1, <1>2 DEF StatusInv

\* An entry that is not written.
LEMMA PassedStatus ==
    ASSUME LaidOut, Inv, ContentInv, StatusInv, Skip \/ Test \/ Unsafe \/ AnswerNo
    PROVE  StatusInv'
<1> DEFINE StillDue(j) == ~in.test /\ ctx.entries[j].file \in in.selected \ refused'
<1>1. /\ UNCHANGED <<in, walk, ctx, out, end, disk>> /\ Next1
      /\ pc \in {"copy", "ask"} /\ pc' = "copy" /\ refused \subseteq refused'
  BY DEF Skip, Test, Unsafe, Goes, Copying, AnswerNo, Rest
<1>2. failed' \in {failed + Bad, failed + (Bad + 1)}
  BY DEF Skip, Test, Unsafe, AnswerNo, Count
<1>3. cursor <= Len(ctx.entries)
  BY DEF Skip, Test, Unsafe, Goes, Copying, AnswerNo, Inv, Asked
<1>4. Compared'
  <2>1. SUFFICES ASSUME end = "ok", failed' = 0
                 PROVE  /\ in.checks => \A j \in 1 .. cursor' - 1 :
                              RangeOf(ctx.entries, out, j) = TrueContent(ctx.entries, j)
                        /\ \A f \in FilesOf(in) : disk[f].new => WrittenFor(f)'
                        /\ \A j \in 1 .. cursor' - 1 :
                              StillDue(j) => disk[ctx.entries[j].file].new
    BY <1>1 DEF Compared, Due
  <2>2. /\ failed = 0 /\ failed' = failed + Bad /\ ~LastPartial /\ ~Mismatch
        /\ cursor' = cursor + 1 /\ cursor \in 1 .. Len(ctx.entries)
        /\ in.checks => RangeOf(ctx.entries, out, cursor) = TrueContent(ctx.entries, cursor)
    BY <1>1, <1>2, <1>3, <2>1, EntryPassed DEF Content
  <2>3. /\ in.checks => \A j \in 1 .. cursor - 1 :
                            RangeOf(ctx.entries, out, j) = TrueContent(ctx.entries, j)
        /\ \A f \in FilesOf(in) : disk[f].new => WrittenFor(f)
        /\ \A j \in 1 .. cursor - 1 : Due(j) => disk[ctx.entries[j].file].new
    BY <1>1, <2>1, <2>2 DEF StatusInv, Compared, Written
  <2>4. \A j \in 1 .. cursor' - 1 : j \in 1 .. cursor - 1 \/ j = cursor
    BY <2>2
  <2>5. ASSUME NEW f \in FilesOf(in), disk[f].new PROVE WrittenFor(f)'
    <3>1. PICK j \in 1 .. cursor - 1 :
            /\ ctx.entries[j].file = f
            /\ disk[f] = [new |-> TRUE, there |-> TRUE, data |-> RangeOf(ctx.entries, out, j)]
      BY <2>3, <2>5 DEF WrittenFor
    <3>2. j \in 1 .. cursor' - 1
      BY <2>2
    <3> QED BY <1>1, <3>1, <3>2 DEF WrittenFor
  <2>6. ~StillDue(cursor)
    <3>1. CASE Skip
      BY <1>1, <2>2, <3>1 DEF Skip, SafeStop, Selected, Entry
    <3>2. CASE Test
      BY <1>1, <3>2 DEF Test
    <3>3. CASE Unsafe
      <4>1. failed' = failed + (Bad + 1)
        BY <3>3 DEF Unsafe, Count
      <4> QED BY <2>2, <4>1, BadType
    <3>4. CASE AnswerNo
      BY <1>1, <3>4 DEF AnswerNo, Entry
    <3> QED BY <3>1, <3>2, <3>3, <3>4
  <2>7. ASSUME NEW j \in 1 .. cursor' - 1, StillDue(j) PROVE disk[ctx.entries[j].file].new
    <3>1. j \in 1 .. cursor - 1
      BY <2>4, <2>6, <2>7
    <3>2. Due(j)
      BY <1>1, <2>7 DEF Due
    <3> QED BY <2>3, <3>1, <3>2
  <2> QED BY <2>2, <2>3, <2>4, <2>5, <2>7
<1> QED BY <1>1, <1>4, LoopStatus

\* An entry that is written.
LEMMA WriteStatus ==
    ASSUME LaidOut, Inv, ContentInv, StatusInv, NEW always, WriteEntry(always),
           pc \in {"copy", "ask"}, cursor <= Len(ctx.entries)
    PROVE  StatusInv'
<1> DEFINE g == Entry.file
           locked == IF g \in in.locked THEN 1 ELSE 0
           written == [new |-> TRUE, there |-> TRUE, data |-> IF g \in in.locked THEN <<>> ELSE Content]
<1>1. /\ UNCHANGED <<in, walk, ctx, out, end, refused>> /\ Next1 /\ pc' = "copy"
      /\ disk' = [disk EXCEPT ![g] = written] /\ failed' = failed + (Bad + locked)
  BY DEF WriteEntry, Rest, Count
<1>2. failed' \in {failed + Bad, failed + (Bad + 1)}
  <2>1. failed \in Nat
    BY DEF Inv, FileTypes
  <2> QED BY <1>1, <2>1, BadType
<1>3. disk \in [FilesOf(in) -> [new : BOOLEAN, there : BOOLEAN, data : Seq(Int)]]
  BY DEF Inv, FileTypes
<1>4. g \in FilesOf(in)
  BY EntryFacts
<1>5. Compared'
  <2>1. SUFFICES ASSUME end = "ok", failed' = 0
                 PROVE  /\ in.checks => \A j \in 1 .. cursor' - 1 :
                              RangeOf(ctx.entries, out, j) = TrueContent(ctx.entries, j)
                        /\ \A f \in FilesOf(in) : disk'[f].new => WrittenFor(f)'
                        /\ \A j \in 1 .. cursor' - 1 :
                              Due(j) => disk'[ctx.entries[j].file].new
    BY <1>1 DEF Compared, Due
  <2>2. /\ failed = 0 /\ failed' = failed + Bad
        /\ cursor' = cursor + 1 /\ cursor \in 1 .. Len(ctx.entries)
        /\ in.checks => RangeOf(ctx.entries, out, cursor) = TrueContent(ctx.entries, cursor)
    BY <1>1, <1>2, <2>1, EntryPassed DEF Content
  <2>3. g \notin in.locked
    BY <1>1, <2>2, BadType
  <2>4. /\ in.checks => \A j \in 1 .. cursor - 1 :
                            RangeOf(ctx.entries, out, j) = TrueContent(ctx.entries, j)
        /\ \A f \in FilesOf(in) : disk[f].new => WrittenFor(f)
        /\ \A j \in 1 .. cursor - 1 : Due(j) => disk[ctx.entries[j].file].new
    BY <2>1, <2>2 DEF StatusInv, Compared, Written
  <2>5. \A j \in 1 .. cursor' - 1 : j \in 1 .. cursor - 1 \/ j = cursor
    BY <2>2
  <2>6. ASSUME NEW f \in FilesOf(in), disk'[f].new PROVE WrittenFor(f)'
    <3>1. CASE f = g
      <4>1. disk'[f] = [new |-> TRUE, there |-> TRUE, data |-> RangeOf(ctx.entries, out, cursor)]
        BY <1>1, <1>3, <1>4, <2>3, <3>1 DEF Content
      <4>2. cursor \in 1 .. cursor' - 1 /\ ctx.entries[cursor].file = f
        BY <2>2, <3>1 DEF Entry
      <4> HIDE DEF g, written
      <4> QED BY <1>1, <4>1, <4>2 DEF WrittenFor
    <3>2. CASE f # g
      <4> HIDE DEF g, written
      <4>1. disk'[f] = disk[f]
        BY <1>1, <1>3, <3>2
      <4>2. PICK j \in 1 .. cursor - 1 :
              /\ ctx.entries[j].file = f
              /\ disk[f] = [new |-> TRUE, there |-> TRUE, data |-> RangeOf(ctx.entries, out, j)]
        BY <2>4, <2>6, <4>1 DEF WrittenFor
      <4>3. j \in 1 .. cursor' - 1
        BY <2>2
      <4> QED BY <1>1, <4>1, <4>2, <4>3 DEF WrittenFor
    <3> QED BY <3>1, <3>2
  <2>7. ASSUME NEW j \in 1 .. cursor' - 1, Due(j) PROVE disk'[ctx.entries[j].file].new
    <3> HIDE DEF g, written
    <3>1. disk'[g].new
      BY <1>1, <1>3, <1>4 DEF written
    <3>2. CASE ctx.entries[j].file = g
      BY <3>1, <3>2
    <3>3. CASE ctx.entries[j].file # g
      <4>1. j \in 1 .. cursor - 1
        BY <2>5, <3>3 DEF g, Entry
      <4>2. ctx.entries[j].file \in FilesOf(in)
        <5>1. PICK es \in Seq(EntriesIn(in)) : es = ctx.entries
          BY DEF Inv, Handed
        <5>2. es[j] \in EntriesIn(in)
          BY <2>2, <4>1, <5>1
        <5> QED BY <5>1, <5>2 DEF EntriesIn
      <4>3. disk'[ctx.entries[j].file] = disk[ctx.entries[j].file]
        BY <1>1, <1>3, <3>3, <4>2
      <4> QED BY <2>4, <2>7, <4>1, <4>3
    <3> QED BY <3>2, <3>3
  <2> QED BY <2>2, <2>4, <2>5, <2>6, <2>7
<1> QED BY <1>1, <1>5, LoopStatus

\* A question.
LEMMA AskStatus == ASSUME Inv, StatusInv, Ask PROVE StatusInv'
<1>1. /\ UNCHANGED <<in, walk, ctx, out, end, cursor, failed, refused, disk>>
      /\ pc = "copy" /\ pc' = "ask"
  BY DEF Ask, Writes, Goes, Copying, Rest
<1>2. Compared'
  BY <1>1 DEF StatusInv, Compared, Written, WrittenFor, Due
<1> QED BY <1>1, <1>2, LoopStatus

\* The end, which gives status 0 to nothing but a decode that ended well and files none
\* of which failed.
LEMMA FinishStatus == ASSUME Inv, StatusInv, Finish PROVE StatusInv'
<1>1. /\ UNCHANGED <<in, walk, ctx, out, end, cursor, failed, refused, disk>>
      /\ pc = "copy" /\ pc' = "done" /\ cursor > Len(ctx.entries)
      /\ rc' = 0 => end = "ok" /\ failed = 0
  BY DEF Finish, Corrupt
<1>2. Succeeded'
  <2>1. PICK n \in Nat : n = Len(ctx.entries) /\ cursor \in 1 .. n + 1
    BY DEF Inv, Handed, FileTypes
  <2>2. cursor = n + 1
    BY <1>1, <2>1
  <2> QED BY <1>1, <2>1, <2>2 DEF Succeeded
<1>3. Compared' /\ Complete'
  BY <1>1 DEF StatusInv, Compared, Complete, Written, WrittenFor, Due, Certain, Told
<1>4. Sized' /\ Decoded'
  BY <1>1 DEF StatusInv, Sized, Decoded
<1> QED BY <1>2, <1>3, <1>4 DEF StatusInv

\* Every step keeps it.
LEMMA StatusKept ==
    ASSUME LaidOut, Inv, ContentInv, StatusInv, [Next \/ Done]_vars PROVE StatusInv'
<1>1. CASE ReadRecord
  BY <1>1, ReadStatus
<1>2. CASE Refuse \/ Nothing
  BY <1>2, RefusedStatus
<1>3. CASE ParseStore
  BY <1>3, ParseStoreStatus
<1>4. CASE \E found \in BOOLEAN : ParsePacked(found)
  BY <1>4, ParsePackedStatus
<1>5. CASE \/ Decline \/ Start \/ EndOfRecords \/ HandBack
           \/ \E o \in Outcomes : DecodeRecord(o) \/ FailRecord(o)
  BY <1>5, DecoderStatus
<1>6. CASE Ended \/ Partial
  BY <1>6, AdoptedStatus
<1>7. CASE Skip \/ Test \/ Unsafe \/ AnswerNo
  BY <1>7, PassedStatus
<1>8. CASE Ask
  BY <1>8, AskStatus
<1>9. CASE Write \/ AnswerYes \/ AnswerAlways
  <2>1. pc \in {"copy", "ask"} /\ (WriteEntry(yesToAll) \/ WriteEntry(TRUE))
        /\ (pc = "copy" => cursor <= Len(ctx.entries))
    BY <1>9 DEF Write, Writes, Goes, Copying, AnswerYes, AnswerAlways
  <2>2. cursor <= Len(ctx.entries)
    BY <2>1 DEF Inv, Asked
  <2> QED BY <2>1, <2>2, WriteStatus
<1>a. CASE Finish
  BY <1>a, FinishStatus
<1>b. CASE UNCHANGED vars
  <2>1. UNCHANGED <<in, walk, ctx, pc, blockAt, out, err, cursor, end, failed, refused, disk, rc>>
    BY <1>b DEF vars
  <2>2. Sized' /\ Decoded' /\ Complete' /\ Succeeded'
    BY <2>1 DEF StatusInv, Sized, Decoded, Complete, Succeeded, Untouched, Written, Certain, Told
  <2>3. Compared'
    BY <2>1 DEF StatusInv, Compared, Written, WrittenFor, Due
  <2> QED BY <2>2, <2>3 DEF StatusInv
<1> QED BY <1>1, <1>2, <1>3, <1>4, <1>5, <1>6, <1>7, <1>8, <1>9, <1>a, <1>b DEF Next, Done
-----------------------------------------------------------------------------
(* Which archives are taken *)

\* The data of a stored archive are among its bytes.
LEMMA StoredBytes ==
    ASSUME NEW x \in Inputs, x.records[1].body = "store"
    PROVE  HeldIn(x, "data", Len(x.records)) <= Bytes(x.records)
<1>0. PICK all \in Nat : all = Len(x.records) /\ DOMAIN x.records = 1 .. all /\ all >= 1
  BY InputsAssumption
<1> DEFINE S == {n \in Nat : n <= all => HeldIn(x, "data", n) <= At(x.records, n + 1)}
<1>1. 0 \in S
  <2>1. 1 \in 1 .. Len(x.records)
    BY <1>0
  <2>2. At(x.records, 1) = 0 /\ HeldIn(x, "data", 0) = 0
    <3>1. 0 \in 0 .. Len(x.records)
      BY <1>0
    <3> QED BY <2>1, <3>1, AtMore, HeldMore
  <2> QED BY <2>2
<1>2. ASSUME NEW n \in Nat, n \in S PROVE n + 1 \in S
  <2>1. SUFFICES ASSUME n + 1 <= all
                 PROVE  HeldIn(x, "data", n + 1) <= At(x.records, (n + 1) + 1)
    OBVIOUS
  <2>2. n \in 0 .. Len(x.records) /\ n < Len(x.records) /\ n + 1 \in 1 .. Len(x.records)
    BY <1>0, <2>1
  <2>3. /\ HeldIn(x, "data", n) \in Nat
        /\ HeldIn(x, "data", n + 1) = HeldIn(x, "data", n) + Holds(x, "data", n + 1)
    BY <2>2, HeldMore
  <2>4. /\ At(x.records, n + 1) \in Nat /\ Length(x.records[n + 1]) \in Nat
        /\ At(x.records, (n + 1) + 1) = At(x.records, n + 1) + (TagBytes + Length(x.records[n + 1]))
    BY <2>2, AtMore
  <2>5. Holds(x, "data", n + 1) \in Nat /\ Holds(x, "data", n + 1) <= Length(x.records[n + 1])
    <3>1. Holds(x, "data", n + 1) \in Nat
      BY <2>2, HoldsType
    <3>2. CASE x.records[n + 1].type = "data"
      <4>1. n + 1 \in DOMAIN x.records
        BY <1>0, <2>2
      <4>2. x.records[n + 1].packed = Len(x.records[n + 1].body)
        BY <3>2, <4>1, InputsAssumption
      <4>3. Length(x.records[n + 1]) = x.records[n + 1].packed
        BY <3>2 DEF Length
      <4> QED BY <3>1, <3>2, <4>2, <4>3 DEF Holds
    <3>3. CASE x.records[n + 1].type # "data"
      BY <2>4, <3>1, <3>3 DEF Holds
    <3> QED BY <3>2, <3>3
  <2>6. HeldIn(x, "data", n) <= At(x.records, n + 1)
    BY <1>2, <2>1
  <2> QED BY <2>3, <2>4, <2>5, <2>6, RecordWalkAssumption
<1> HIDE DEF S
<1>3. all \in S
  BY <1>1, <1>2, InductionOverNat
<1> QED BY <1>0, <1>3 DEF S, Bytes

\* Whole tables end with an entry.
LEMMA WholeTablesGood ==
    ASSUME NEW x \in Inputs, NEW w \in WalksOf(x), EntriesOf(w) # <<>>,
           \A k \in DOMAIN w.tables : w.tables[k].bytes = EntryBytes * Len(w.tables[k].names)
    PROVE  TablesGood(w) /\ w.tables # <<>>
<1>1. ASSUME NEW k \in DOMAIN w.tables PROVE w.tables[k].bytes % EntryBytes # 1
  <2>1. w.tables[k] \in TablesIn(x)
    BY DEF WalksOf
  <2>2. PICK n \in Nat : n = Len(w.tables[k].names)
    BY <2>1 DEF TablesIn
  <2>3. (3 * n) % 3 = 0
    OBVIOUS
  <2> QED BY <2>2, <2>3 DEF EntryBytes
<1>2. w.tables # <<>>
  <2>1. SUFFICES ASSUME w.tables = <<>> PROVE FALSE
    OBVIOUS
  <2>2. Len(NamesOf(w)) = 0
    BY <2>1 DEF NamesOf
  <2>3. EntriesOf(w) = Joined(NamesOf(w))
    BY DEF EntriesOf, NamesOf
  <2> QED BY <2>2, <2>3, JoinedNone
<1> QED BY <1>1, <1>2 DEF TablesGood

\* An archive that is not cut is read to its end.
LEMMA WholeWalk ==
    ASSUME LaidOut, Finished, NEW x \in Inputs, NEW w, WalkOf(x, w), ReadOf(x, w), PlaceOf(x, w),
           ~More(x.records, Size(x), w), ~Shortened(x)
    PROVE  /\ w.open /\ w.cut = NoCut /\ Known(w)
           /\ EntriesOf(w) = ListedIn(x, Len(x.records))
           /\ UnitsOf(x, w) = SizeOf(EntriesOf(w))
           /\ w.sums \in {0, Len(EntriesOf(w))}
           /\ x.damaged = 0 => Clean(x, w) = SizeOf(EntriesOf(w))
<1>1. w.open /\ w.next = Len(x.records) + 1
  BY WalkEnds
<1>2. PICK n \in Nat : n = Len(x.records) /\ n >= 1 /\ w.next - 1 = n
  BY <1>1, InputsAssumption
<1>3. w.cut = NoCut /\ EntriesOf(w) = ListedIn(x, n)
      /\ w.sums = HeldIn(x, "sums", n) /\ UnitsOf(x, w) = HeldIn(x, "data", n)
  BY <1>1, <1>2 DEF ReadOf
<1>4. Known(w)
  BY <1>1, <1>2 DEF WalkOf
<1>5. HeldIn(x, "data", n) = SizeOf(ListedIn(x, n)) /\ HeldIn(x, "sums", n) \in {0, Len(ListedIn(x, n))}
  BY <1>2 DEF Finished
<1>6. x.damaged = 0 => Clean(x, w) = HeldIn(x, "data", n)
  BY <1>2 DEF Clean, CleanTo
<1> QED BY <1>1, <1>2, <1>3, <1>4, <1>5, <1>6

\* The whole data records of an archive joined.
LEMMA WholeLength ==
    ASSUME NEW x \in Inputs, NEW w \in WalksOf(x)
    PROVE  Len(WholeUnits(x.records, w)) = UnitsOf(x, w)
<1> DEFINE ss == [k \in DOMAIN w.data |-> x.records[w.data[k]].body]
           a == [k \in DOMAIN w.data |-> Len(x.records[w.data[k]].body)]
<1>1. PICK d \in Seq(DataOf(x)), n \in Nat : d = w.data /\ n = Len(d) /\ DOMAIN d = 1 .. n
  BY DEF WalksOf
<1>2. Len(ss) = n /\ WholeUnits(x.records, w) = Joined(ss) /\ UnitsOf(x, w) = SumBefore(a, n + 1)
  BY <1>1 DEF WholeUnits, UnitsOf
<1>3. ASSUME NEW k \in 1 .. n PROVE ss[k] \in Seq(Int) /\ a[k] = Len(ss[k])
  <2>1. d[k] \in DataOf(x) /\ ss[k] = x.records[d[k]].body /\ a[k] = Len(x.records[d[k]].body)
    BY <1>1
  <2>2. d[k] \in DOMAIN x.records /\ x.records[d[k]].type = "data"
    BY <2>1, InputsAssumption DEF DataOf
  <2>3. x.records[d[k]].body \in Seq(Int)
    BY <2>2, InputsAssumption DEF IsRecord
  <2> QED BY <2>1, <2>3
<1> HIDE DEF ss, a
<1>4. Len(ss) \in Nat /\ (\A k \in 1 .. Len(ss) : ss[k] \in Seq(Int))
      /\ \A k \in 1 .. Len(ss) : a[k] = Len(ss[k])
  BY <1>2, <1>3
<1>5. Len(Joined(ss)) = SumBefore(a, Len(ss) + 1)
  BY ONLY <1>4, JoinedLength
<1> QED BY <1>2, <1>5

\* It is taken.
LEMMA WholeTaken ==
    ASSUME LaidOut, Finished, NEW x \in Inputs, NEW w, WalkOf(x, w), ReadOf(x, w), PlaceOf(x, w),
           ~More(x.records, Size(x), w), ~Shortened(x)
    PROVE  Accepted(x.records, Size(x), w)
<1>1. /\ w.open /\ w.cut = NoCut /\ Known(w)
      /\ EntriesOf(w) = ListedIn(x, Len(x.records))
      /\ UnitsOf(x, w) = SizeOf(EntriesOf(w))
  BY WholeWalk
<1>2. /\ w \in WalksOf(x) /\ ~w.truncated
      /\ \A k \in DOMAIN w.tables : w.tables[k].bytes = EntryBytes * Len(w.tables[k].names)
      /\ w.tables # <<>> \/ w.sawData =>
            \E j \in DOMAIN x.records : x.records[j].type \in {"table", "data"}
  BY <1>1 DEF PlaceOf, WalkOf
<1>3. CASE EntriesOf(w) = <<>>
  <2>1. \A j \in DOMAIN x.records : x.records[j].type \notin {"table", "data"}
    BY <1>1, <1>3 DEF Finished
  <2> QED BY <1>1, <1>2, <2>1 DEF Accepted, NoFiles
<1>4. CASE EntriesOf(w) # <<>>
  <2>1. TablesGood(w) /\ w.tables # <<>>
    BY <1>2, <1>4, WholeTablesGood
  <2>2. ASSUME w.codec = "store"
        PROVE  SizeOf(EntriesOf(w)) <= Size(x) /\ Len(WholeUnits(x.records, w)) = SizeOf(EntriesOf(w))
    <3>1. x.records[1].body = "store"
      BY <1>1, <1>2, <2>2 DEF Known, WalksOf
    <3>2. HeldIn(x, "data", Len(x.records)) <= Bytes(x.records)
      BY <3>1, StoredBytes
    <3>3. HeldIn(x, "data", Len(x.records)) = SizeOf(EntriesOf(w))
      BY <1>1 DEF Finished
    <3>4. PICK bytes \in Nat : bytes = Bytes(x.records)
      <4>1. Len(x.records) \in 1 .. Len(x.records)
        BY InputsAssumption
      <4> QED BY <4>1, AtMore DEF Bytes
    <3>5. PICK size \in Nat : size = Size(x) /\ size >= bytes
      <4>1. Size(x) \in Nat
        BY SizeType
      <4> QED BY <3>4, <4>1 DEF Shortened
    <3>6. SizeOf(EntriesOf(w)) \in Nat
      <4>1. EntriesOf(w) \in Seq(EntriesIn(x))
        BY <1>2, EntriesType DEF WalksOf
      <4> QED BY <4>1, SizeOfType
    <3>7. Len(WholeUnits(x.records, w)) = UnitsOf(x, w)
      BY <1>2, WholeLength
    <3> QED BY <1>1, <3>2, <3>3, <3>4, <3>5, <3>6, <3>7
  <2>3. SizesGood(w, Size(x))
    BY <1>1, <2>2 DEF SizesGood
  <2>4. w.codec = "store" => StoreFits(x.records, w)
    BY <1>1, <2>2 DEF StoreFits
  <2> QED BY <1>1, <1>2, <2>1, <2>3, <2>4 DEF Accepted
<1> QED BY <1>3, <1>4

\* One with a clean unit is taken, unless it is a stored one that ends with a record.
LEMMA CleanTaken ==
    ASSUME LaidOut, Finished, NEW x \in Inputs, NEW w, WalkOf(x, w), ReadOf(x, w), PlaceOf(x, w),
           ~More(x.records, Size(x), w), Clean(x, w) # 0, ~Accepted(x.records, Size(x), w)
    PROVE  /\ x.records[1].body = "store" /\ Shortened(x)
           /\ \E j \in DOMAIN x.records : At(x.records, j) = Size(x)
<1>1. PICK c \in Nat : c = Clean(x, w) /\ c > 0 /\ c <= UnitsOf(x, w) /\ c <= SizeOf(EntriesOf(w))
                       /\ UnitsOf(x, w) \in Nat
  BY CleanType
<1>2. w \in WalksOf(x)
  BY DEF WalkOf
<1>3. EntriesOf(w) # <<>>
  BY <1>1, SizeOfNone
<1>4. TablesGood(w) /\ w.tables # <<>>
  <2>1. \A k \in DOMAIN w.tables : w.tables[k].bytes = EntryBytes * Len(w.tables[k].names)
    BY <1>1 DEF PlaceOf
  <2> QED BY <1>2, <1>3, <2>1, WholeTablesGood
<1>5. w.data # <<>>
  <2>1. SUFFICES ASSUME w.data = <<>> PROVE FALSE
    OBVIOUS
  <2>2. Len(w.data) + 1 = 1
    BY <2>1
  <2>3. UnitsOf(x, w) = 0
    BY <2>2, SumNone DEF UnitsOf
  <2> QED BY <1>1, <2>3
<1>6. Known(w)
  <2>1. w.data \in Seq(DataOf(x)) /\ 1 \in DOMAIN w.data
    BY <1>2, <1>5 DEF WalksOf
  <2>2. w.data[1] < w.next /\ w.data[1] \in Nat /\ w.data[1] >= 1
    BY <2>1 DEF PlaceOf, DataOf
  <2>3. w.next > 1
    BY <1>2, <2>2 DEF WalksOf
  <2> QED BY <2>3 DEF PlaceOf
<1>7. w.codec = "store" /\ ~StoreCut(w)
  BY <1>4, <1>6 DEF Accepted, SizesGood, StoreFits, StoreCut
<1>8. w.open
  BY <1>2, <1>5, <1>7 DEF StoreCut, PlaceOf, WalksOf
<1>9. Shortened(x)
  BY WholeTaken
<1>10. x.records[1].body = "store"
  BY <1>2, <1>7 DEF WalksOf
<1> QED BY <1>8, <1>9, <1>10, WalkEnds
-----------------------------------------------------------------------------
(* What is kept of an archive that was cut or damaged *)

\* Every byte of entry j is clean.
CleanEntry(j) == StartOf(ctx.entries, j) + ctx.entries[j].size <= Clean(in, walk)

\* Entry j is on disk if it is clean and wanted.
Stands(j) ==
    LET f == ctx.entries[j].file
    IN CleanEntry(j) /\ Wanted(f) /\ ~(in.safe /\ f \in in.badSums) =>
          disk[f] = [new |-> TRUE, there |-> TRUE, data |-> TrueContent(ctx.entries, j)]

\* The loop starts at the first entry, those it is past are on disk, and at the end all are.
PrefixInv ==
    /\ pc \in {"parse", "open", "block", "ended"} => cursor = 1
    /\ pc \in {"copy", "ask"} => \A j \in DOMAIN ctx.entries : j < cursor => Stands(j)
    /\ pc = "done" /\ said # "refused" => NothingDecoded \/ \A j \in DOMAIN ctx.entries : Stands(j)

\* The entries are of different files.
LEMMA EntriesDiffer ==
    ASSUME Finished, Inv, NEW i \in DOMAIN ctx.entries, NEW j \in DOMAIN ctx.entries,
           ctx.entries[i].file = ctx.entries[j].file
    PROVE  i = j
<1>1. PICK x \in Inputs : x = in
  BY DEF Inv
<1>2. PICK all : all = ListedIn(x, Len(x.records)) /\ all \in Seq(EntriesIn(x))
  <2>1. Len(x.records) \in 0 .. Len(x.records)
    BY InputsAssumption
  <2> QED BY <2>1, TablesType
<1>3. PICK es \in Seq(EntriesIn(x)) : es = ctx.entries /\ Begins(es, all)
  BY <1>1, <1>2 DEF Inv, Handed
<1>4. i \in DOMAIN all /\ j \in DOMAIN all /\ es[i] = all[i] /\ es[j] = all[j]
  BY <1>2, <1>3 DEF Begins
<1>5. all[i].file = all[j].file => i = j
  BY <1>2, <1>4 DEF Finished
<1> QED BY <1>3, <1>4, <1>5

\* The entry the loop is at, if it is clean, is whole and right, and only a wrong checksum
\* makes it a mismatch; if it is not whole, it is not clean, nor is one behind it.
LEMMA AtEntry ==
    ASSUME LaidOut, Inv, ContentInv, pc \in {"copy", "ask"}, cursor <= Len(ctx.entries)
    PROVE  /\ CleanEntry(cursor) =>
                /\ ~LastPartial /\ Content = TrueContent(ctx.entries, cursor)
                /\ Mismatch => Entry.file \in in.badSums
           /\ LastPartial => \A j \in DOMAIN ctx.entries : j >= cursor => ~CleanEntry(j)
<1>1. PICK x \in Inputs : x = in
  BY DEF Inv
<1>2. PICK es \in Seq(EntriesIn(x)) : es = ctx.entries
  BY <1>1 DEF Inv, Handed
<1>3. PICK us \in Seq(Int) : us = out
  BY DEF Inv, DecoderTypes
<1>4. PICK k \in 1 .. Len(es) : k = cursor
  BY <1>2 DEF Inv, FileTypes
<1>5. PICK c \in Nat : c = Clean(in, walk) /\ Len(us) >= c /\ InPlace(us, c)
  BY <1>3, WorkFacts DEF ContentInv, Progress, Work
<1>6. /\ es[k].size \in Nat /\ StartOf(es, k) \in Nat
      /\ \A j \in k + 1 .. Len(es) : StartOf(es, k) + es[k].size <= StartOf(es, j)
  BY EntryFits
<1>7. Content = RangeOf(es, us, k) /\ Entry = es[k]
  BY <1>2, <1>3, <1>4 DEF Content, Entry
<1>8. ASSUME LastPartial PROVE StartOf(es, k) + es[k].size > c
  <2>1. SUFFICES ASSUME StartOf(es, k) + es[k].size <= c PROVE FALSE
    BY <1>6
  <2>2. StartOf(es, k) + es[k].size <= Len(us)
    BY <1>5, <1>6, <2>1
  <2>3. Len(RangeOf(es, us, k)) = es[k].size
    BY <1>5, <2>2, RangeInPlace
  <2> QED BY <1>6, <1>7, <1>8, <2>3 DEF LastPartial
<1>9. ASSUME CleanEntry(cursor)
      PROVE  /\ ~LastPartial /\ Content = TrueContent(ctx.entries, cursor)
             /\ Mismatch => Entry.file \in in.badSums
  <2>1. StartOf(es, k) + es[k].size <= c
    BY <1>2, <1>4, <1>5, <1>9 DEF CleanEntry
  <2>2. StartOf(es, k) + es[k].size <= Len(us)
    BY <1>5, <1>6, <2>1
  <2>3. RangeOf(es, us, k) = TrueContent(es, k)
    BY <1>5, <2>1, <2>2, RangeInPlace
  <2>4. ~LastPartial
    BY <1>5, <1>6, <1>8, <2>1
  <2> QED BY <1>2, <1>4, <1>7, <2>3, <2>4 DEF Mismatch
<1>10. ASSUME LastPartial, NEW j \in DOMAIN ctx.entries, j >= cursor PROVE ~CleanEntry(j)
  <2>1. StartOf(es, k) + es[k].size > c
    BY <1>8, <1>10
  <2>2. j \in 1 .. Len(es) /\ (j = k \/ j \in k + 1 .. Len(es))
    <3>1. PICK l \in Nat : l = Len(es) /\ DOMAIN es = 1 .. l
      OBVIOUS
    <3>2. j \in 1 .. l /\ k \in 1 .. l /\ j >= k
      BY <1>2, <1>4, <1>10, <3>1
    <3> QED BY <3>1, <3>2
  <2>3. es[j].size \in Nat /\ StartOf(es, j) \in Nat
    BY <2>2, EntryFits
  <2>4. StartOf(es, j) + es[j].size > c
    <3>1. CASE j = k
      BY <2>1, <3>1
    <3>2. CASE j # k
      <4>1. StartOf(es, k) + es[k].size <= StartOf(es, j)
        BY <1>6, <2>2, <3>2
      <4>2. PICK a \in Nat, b \in Nat, m \in Nat :
               a = StartOf(es, k) + es[k].size /\ b = StartOf(es, j) /\ m = es[j].size
        <5>1. StartOf(es, k) + es[k].size \in Nat
          BY <1>6
        <5> QED BY ONLY <2>3, <5>1
      <4>3. a <= b /\ a > c
        BY ONLY <2>1, <4>1, <4>2
      <4>4. b + m > c
        BY <4>3
      <4> QED BY ONLY <4>2, <4>4
    <3> QED BY <3>1, <3>2
  <2> QED BY <1>2, <1>5, <2>3, <2>4 DEF CleanEntry
<1> QED BY <1>9, <1>10

\* A step past an entry that leaves it as it should be.
LEMMA PastEntry ==
    ASSUME LaidOut, Finished, Inv, ContentInv, PrefixInv, pc \in {"copy", "ask"},
           cursor <= Len(ctx.entries), UNCHANGED <<in, walk, ctx, out>>, Next1, pc' = "copy",
           refused \subseteq refused', \A f \in FilesOf(in) \ {Entry.file} : disk'[f] = disk[f],
           NEW k \in DOMAIN ctx.entries, k = cursor, Stands(k)'
    PROVE  PrefixInv'
<1>1. PICK es : es = ctx.entries /\ DOMAIN es = 1 .. Len(es) /\ Len(es) \in Nat
                /\ cursor \in 1 .. Len(es)
  BY DEF Inv, Handed, FileTypes
<1>2. ASSUME NEW j \in DOMAIN es, j < cursor PROVE Stands(j)'
  <2>1. Stands(j)
    BY <1>1, <1>2 DEF PrefixInv
  <2>2. es[j].file # Entry.file
    BY <1>1, <1>2, EntriesDiffer DEF Entry
  <2>3. es[j].file \in FilesOf(in)
    <3>1. es \in Seq(EntriesIn(in))
      BY <1>1 DEF Inv, Handed
    <3>2. es[j] \in EntriesIn(in)
      BY <1>1, <3>1
    <3> QED BY <3>2 DEF EntriesIn
  <2>4. disk'[es[j].file] = disk[es[j].file]
    BY <2>2, <2>3
  <2> QED BY <1>1, <2>1, <2>4 DEF Stands, CleanEntry, Wanted
<1>3. ASSUME NEW j \in DOMAIN es, j > cursor, j < cursor' PROVE Stands(j)'
  <2>1. LastPartial
    BY <1>1, <1>3 DEF Next1
  <2>2. ~CleanEntry(j)
    BY <1>1, <1>3, <2>1, AtEntry
  <2> QED BY <2>2 DEF Stands, CleanEntry
<1>4. ASSUME NEW j \in DOMAIN es, j < cursor' PROVE Stands(j)'
  <2>1. j < cursor \/ j > cursor \/ j = cursor
    BY <1>1
  <2>2. CASE j = cursor
    <3>1. j = k
      BY <2>2
    <3> QED BY <3>1
  <2> QED BY <1>2, <1>3, <1>4, <2>1, <2>2
<1> QED BY <1>1, <1>4 DEF PrefixInv

\* The entries that are not written are not clean, or not wanted.
LEMMA PassedPrefix ==
    ASSUME LaidOut, Finished, Inv, ContentInv, PrefixInv, Skip \/ Test \/ Unsafe \/ AnswerNo
    PROVE  PrefixInv'
<1>1. /\ UNCHANGED <<in, walk, ctx, out, disk>> /\ Next1 /\ pc \in {"copy", "ask"} /\ pc' = "copy"
      /\ refused \subseteq refused'
  BY DEF Skip, Test, Unsafe, Goes, Copying, AnswerNo, Rest
<1>2. cursor <= Len(ctx.entries)
  BY DEF Skip, Test, Unsafe, Goes, Copying, AnswerNo, Inv, Asked
<1>3. PICK k \in DOMAIN ctx.entries : k = cursor
  BY <1>2, EntryFacts DEF Inv, Handed
<1>4. Stands(k)'
  <2>0. PICK f : f = Entry.file
    OBVIOUS
  <2>1. SUFFICES ASSUME CleanEntry(k), Wanted(f)', ~(in.safe /\ f \in in.badSums)
                 PROVE  FALSE
    BY <1>1, <1>3, <2>0 DEF Stands, CleanEntry, Entry
  <2>2. ~LastPartial /\ (Mismatch => Entry.file \in in.badSums)
    BY <1>1, <1>2, <1>3, <2>1, AtEntry
  <2>3. ~in.test /\ Entry.file \in in.selected /\ Entry.file \notin in.unsafe /\ Entry.file \notin refused'
    BY <1>1, <2>0, <2>1 DEF Wanted
  <2>4. CASE Skip
    BY <2>0, <2>1, <2>2, <2>3, <2>4 DEF Skip, SafeStop, Selected
  <2>5. CASE Test
    BY <2>3, <2>5 DEF Test
  <2>6. CASE Unsafe
    BY <2>3, <2>6 DEF Unsafe
  <2>7. CASE AnswerNo
    BY <2>3, <2>7 DEF AnswerNo
  <2> QED BY <2>4, <2>5, <2>6, <2>7
<1> QED BY <1>1, <1>2, <1>3, <1>4, PastEntry

\* An entry that is written gets what was archived if it is clean.
LEMMA WritePrefix ==
    ASSUME LaidOut, Finished, Inv, ContentInv, PrefixInv, NEW always, WriteEntry(always),
           pc \in {"copy", "ask"}, cursor <= Len(ctx.entries)
    PROVE  PrefixInv'
<1>1. /\ UNCHANGED <<in, walk, ctx, out, refused>> /\ Next1 /\ pc' = "copy"
      /\ disk' = [disk EXCEPT ![Entry.file] = [new |-> TRUE, there |-> TRUE,
                     data |-> IF Entry.file \in in.locked THEN <<>> ELSE Content]]
  BY DEF WriteEntry, Rest
<1>2. disk \in [FilesOf(in) -> [new : BOOLEAN, there : BOOLEAN, data : Seq(Int)]]
  BY DEF Inv, FileTypes
<1>3. Entry.file \in FilesOf(in)
  BY EntryFacts
<1>4. PICK k \in DOMAIN ctx.entries : k = cursor
  BY EntryFacts DEF Inv, Handed
<1>5. \A f \in FilesOf(in) \ {Entry.file} : disk'[f] = disk[f]
  BY <1>1, <1>2
<1>6. Stands(k)'
  <2>0. PICK f : f = Entry.file
    OBVIOUS
  <2>1. SUFFICES ASSUME CleanEntry(k), Wanted(f)'
                 PROVE  disk'[f] = [new |-> TRUE, there |-> TRUE, data |-> TrueContent(ctx.entries, k)]
    BY <1>1, <1>4, <2>0 DEF Stands, CleanEntry, Entry
  <2>2. Content = TrueContent(ctx.entries, k)
    BY <1>4, <2>1, AtEntry
  <2>3. Entry.file \notin in.locked
    BY <1>1, <2>0, <2>1 DEF Wanted
  <2> QED BY <1>1, <1>2, <1>3, <2>0, <2>2, <2>3
<1> QED BY <1>1, <1>4, <1>5, <1>6, PastEntry

\* Steps before the loop over the files.
LEMMA EarlyPrefix ==
    ASSUME Inv, PrefixInv,
           \/ ReadRecord \/ ParseStore \/ \E found \in BOOLEAN : ParsePacked(found)
           \/ Decline \/ Start \/ EndOfRecords \/ HandBack \/ Ended \/ Partial
           \/ \E o \in Outcomes : DecodeRecord(o) \/ FailRecord(o)
    PROVE  PrefixInv'
<1>1. UNCHANGED cursor /\ pc \in {"parse", "open", "block", "ended"}
      /\ pc' \in {"parse", "open", "block", "ended", "copy"}
  BY DEF ReadRecord, Reading, ParseStore, ParsePacked, Parsed, Decline, Start, EndOfRecords, HandBack,
         Ended, Partial, Adopt, DecodeRecord, FailRecord, Decoding
<1>2. cursor' = 1
  BY <1>1 DEF PrefixInv
<1>3. \A j \in DOMAIN ctx'.entries : ~(j < 1)
  <2>1. Inv'
    BY NextInv DEF Next
  <2>2. DOMAIN ctx'.entries = 1 .. Len(ctx'.entries)
    BY <2>1 DEF Inv, Handed
  <2> QED BY <2>2
<1> QED BY <1>1, <1>2, <1>3 DEF PrefixInv

\* The ends.
LEMMA EndPrefix ==
    ASSUME LaidOut, Inv, ContentInv, PrefixInv, Refuse \/ Nothing \/ Finish PROVE PrefixInv'
<1>1. UNCHANGED <<in, walk, ctx, refused, disk, cursor>> /\ pc' = "done" /\ pc # "done"
  BY DEF Refuse, Nothing, Finish, Parsed
<1>2. CASE Refuse
  BY <1>1, <1>2 DEF PrefixInv, Refuse
<1>3. CASE Nothing \/ Finish
  <2>1. NothingDecoded' \/ cursor = Len(ctx.entries) + 1
    <3>1. ContentInv' /\ said' # "refused"
      BY <1>3, EndContent DEF Nothing, Finish, Corrupt
    <3> QED BY <1>1, <3>1 DEF ContentInv, Progress
  <2>2. ASSUME cursor = Len(ctx.entries) + 1, NEW j \in DOMAIN ctx.entries PROVE Stands(j)
    <3>1. j \in 1 .. Len(ctx.entries) /\ Len(ctx.entries) \in Nat
      BY DEF Inv, Handed
    <3>2. j < cursor /\ cursor # 1
      BY <2>2, <3>1
    <3>3. pc \in {"copy", "ask"}
      BY <1>1, <3>2 DEF PrefixInv, Inv, EndTypes
    <3> QED BY <3>2, <3>3 DEF PrefixInv
  <2>3. \A j : Stands(j)' <=> Stands(j)
    BY <1>1 DEF Stands, CleanEntry, Wanted
  <2> QED BY <1>1, <2>1, <2>2, <2>3 DEF PrefixInv
<1> QED BY <1>2, <1>3

\* Every step keeps it.
LEMMA PrefixStep ==
    ASSUME LaidOut, Finished, Inv, ContentInv, PrefixInv, [Next \/ Done]_vars PROVE PrefixInv'
<1>1. CASE \/ ReadRecord \/ ParseStore \/ \E found \in BOOLEAN : ParsePacked(found)
           \/ Decline \/ Start \/ EndOfRecords \/ HandBack \/ Ended \/ Partial
           \/ \E o \in Outcomes : DecodeRecord(o) \/ FailRecord(o)
  BY <1>1, EarlyPrefix
<1>2. CASE Skip \/ Test \/ Unsafe \/ AnswerNo
  BY <1>2, PassedPrefix
<1>3. CASE Write \/ AnswerYes \/ AnswerAlways
  <2>1. pc \in {"copy", "ask"} /\ (WriteEntry(yesToAll) \/ WriteEntry(TRUE))
        /\ (pc = "copy" => cursor <= Len(ctx.entries))
    BY <1>3 DEF Write, Writes, Goes, Copying, AnswerYes, AnswerAlways
  <2>2. cursor <= Len(ctx.entries)
    BY <2>1 DEF Inv, Asked
  <2> QED BY <2>1, <2>2, WritePrefix
<1>4. CASE Refuse \/ Nothing \/ Finish
  BY <1>4, EndPrefix
<1>5. CASE Ask \/ UNCHANGED vars
  <2>1. UNCHANGED <<in, walk, ctx, out, cursor, refused, disk>>
        /\ \/ UNCHANGED <<pc, said>>
           \/ pc = "copy" /\ pc' = "ask"
    BY <1>5 DEF vars, Ask, Writes, Goes, Copying, Rest
  <2>2. \A j : Stands(j)' <=> Stands(j)
    BY <2>1 DEF Stands, CleanEntry, Wanted
  <2>3. NothingDecoded' <=> NothingDecoded
    BY <2>1 DEF NothingDecoded
  <2> QED BY <2>1, <2>2, <2>3 DEF PrefixInv
<1> QED BY <1>1, <1>2, <1>3, <1>4, <1>5 DEF Next, Done

\* As far as an archive is clean, the files in it come out.
LEMMA AllStand ==
    ASSUME LaidOut, Inv, ContentInv, PrefixInv, pc = "done", said # "refused",
           Probes(walk) => ctx.blocks # <<>>,
           Clean(in, walk) = 0 => ctx.codec = "store" \/ ctx.total = 0
    PROVE  \A j \in DOMAIN ctx.entries : Stands(j)
<1>0. PICK found \in BOOLEAN :
        /\ found \/ Probes(walk)
        /\ ctx = Context(in, walk, found) /\ Accepted(in.records, Size(in), walk)
  BY DEF ContentInv, HandedOn
<1>1. PICK c : c = ctx /\ c = Context(in, walk, found) /\ Accepted(in.records, Size(in), walk)
               /\ (found \/ Probes(walk))
  BY <1>0
<1>2. ReadOf(in, walk) /\ PlaceOf(in, walk)
  BY DEF ContentInv
<1>3. Clean(in, walk) \in Nat
  BY <1>1, <1>2, TakenFacts DEF Work
<1>4. Given(<<>>) = 0
  <2>1. Len(<<>>) + 1 = 1
    OBVIOUS
  <2> QED BY <2>1, SumNone DEF Given, GivenBefore
<1>5. ~NothingDecoded
  <2>1. SUFFICES ASSUME NothingDecoded PROVE FALSE
    OBVIOUS
  <2>2. c.codec # "store" /\ c.total > 0 /\ (Clean(in, walk) = 0 \/ c.blocks = <<>>)
    BY <1>1, <2>1 DEF NothingDecoded
  <2>3. Clean(in, walk) # 0 /\ c.blocks = <<>>
    BY <1>1, <1>3, <2>2
  <2>4. found = TRUE
    BY <1>1, <2>3
  <2>5. Given(c.blocks) >= Clean(in, walk)
    BY <1>1, <1>2, <2>2, <2>4, FoundFacts
  <2> QED BY <1>3, <1>4, <2>3, <2>5
<1> QED BY <1>5 DEF PrefixInv

\* Whatever was cut off or damaged: what is clean comes out right, and an archive with a
\* clean unit is refused only if it is a stored one that ends with a record.
LEMMA PrefixHolds ==
    ASSUME LaidOut, Finished, Inv, ContentInv, PrefixInv PROVE PrefixKept
<1>1. SUFFICES ASSUME pc = "done" PROVE PrefixKept
  BY DEF PrefixKept
<1>2. in \in Inputs /\ WalkOf(in, walk) /\ ReadOf(in, walk) /\ PlaceOf(in, walk)
      /\ ~More(in.records, Size(in), walk)
  BY <1>1 DEF Inv, ContentInv, HandedOn
<1>3. GoodUnits = Clean(in, walk)
  BY <1>2, GoodAreClean
<1>4. CASE said = "refused"
  <2>1. ~Accepted(in.records, Size(in), walk)
    BY <1>1, <1>4 DEF ContentInv, HandedOn
  <2>2. GoodUnits # 0 =>
          /\ in.records[1].body = "store" /\ Shortened(in)
          /\ \E j \in DOMAIN in.records : At(in.records, j) = Size(in)
    BY <1>2, <1>3, <2>1, CleanTaken
  <2> QED BY <1>4, <2>2 DEF PrefixKept, EndsWithRecord, Cut
<1>5. CASE said # "refused"
  <2>1. SUFFICES ASSUME Probes(walk) => ctx.blocks # <<>>,
                        GoodUnits = 0 => ctx.codec = "store" \/ ctx.total = 0,
                        NEW f \in FilesOf(in), Wanted(f), InGoodUnits(f),
                        ~(in.safe /\ f \in in.badSums)
                 PROVE  Right(f)
    BY <1>5 DEF PrefixKept
  <2>2. PICK j \in DOMAIN ctx.entries : ctx.entries[j].file = f /\ CleanEntry(j)
    BY <1>3, <2>1 DEF InGoodUnits, CleanEntry
  <2>3. Stands(j)
    BY <1>1, <1>3, <1>5, <2>1, AllStand
  <2>4. disk[f] = [new |-> TRUE, there |-> TRUE, data |-> TrueContent(ctx.entries, j)]
    BY <2>1, <2>2, <2>3 DEF Stands
  <2> QED BY <2>2, <2>4, EntryRight
<1> QED BY <1>4, <1>5
-----------------------------------------------------------------------------
(* An archive nothing happened to *)

\* Every file is listed.
LEMMA FilesListed ==
    ASSUME NEW x \in Inputs, NEW f \in FilesOf(x)
    PROVE  \E j \in DOMAIN ListedIn(x, Len(x.records)) : ListedIn(x, Len(x.records))[j].file = f
<1>1. PICK n \in Nat : n = Len(x.records) /\ DOMAIN x.records = 1 .. n
  BY InputsAssumption
<1>2. PICK m \in 1 .. n : /\ x.records[m].type = "table"
                          /\ \E i \in DOMAIN x.records[m].body : x.records[m].body[i].file = f
  <2>1. PICK r \in ToSet(x.records) : r.type = "table" /\ f \in {r.body[j].file : j \in DOMAIN r.body}
    BY DEF FilesOf
  <2>2. PICK k \in DOMAIN x.records : r = x.records[k]
    BY <2>1 DEF ToSet
  <2> QED BY <1>1, <2>1, <2>2
<1>3. PICK i \in DOMAIN x.records[m].body : x.records[m].body[i].file = f
  BY <1>2
<1>4. x.records[m].body \in Seq(Listing)
  <2>1. m \in DOMAIN x.records
    BY <1>1
  <2> QED BY <1>2, <2>1, InputsAssumption DEF IsRecord
<1>5. PICK before \in Seq(EntriesIn(x)), upTo \in Seq(EntriesIn(x)), all \in Seq(EntriesIn(x)) :
        /\ before = ListedIn(x, m - 1) /\ upTo = ListedIn(x, m) /\ all = ListedIn(x, n)
        /\ upTo = before \o x.records[m].body /\ Begins(upTo, all)
  <2>1. m - 1 \in 0 .. Len(x.records) - 1 /\ m \in 0 .. Len(x.records) /\ n \in 0 .. Len(x.records)
        /\ m - 1 \in 0 .. Len(x.records) /\ (m - 1) + 1 = m
    BY <1>1
  <2>2. ListedIn(x, m) = ListedIn(x, m - 1) \o x.records[m].body
    BY <1>2, <2>1, ListedMore
  <2>3. Begins(ListedIn(x, m), ListedIn(x, n))
    BY <1>1, <2>1, ListedBegins
  <2> QED BY <2>1, <2>2, <2>3, TablesType
<1>6. PICK j \in Nat : j = Len(before) + i /\ j \in 1 .. Len(upTo) /\ upTo[j] = x.records[m].body[i]
  <2>1. PICK b \in Seq(Listing) : b = x.records[m].body /\ i \in 1 .. Len(b)
    BY <1>4
  <2>2. upTo = before \o b
    BY <1>5, <2>1
  <2>3. Len(upTo) = Len(before) + Len(b)
    BY <2>2
  <2>4. upTo[Len(before) + i] = b[i]
    BY <2>1, <2>2
  <2> QED BY <2>1, <2>3, <2>4
<1>7. j \in DOMAIN all /\ all[j] = upTo[j]
  <2>1. Len(upTo) <= Len(all) /\ \A k \in 1 .. Len(upTo) : upTo[k] = all[k]
    BY <1>5 DEF Begins
  <2>2. j <= Len(all) /\ all[j] = upTo[j]
    BY <1>6, <2>1
  <2> QED BY <1>6, <2>2
<1> QED BY <1>1, <1>3, <1>5, <1>6, <1>7

\* Nothing happened to the archive.
Whole == ~Cut /\ in.damaged = 0 /\ in.badSums = {}

\* It is taken, all of it is clean, and the payload is where it is looked for.
LEMMA WholeFacts ==
    ASSUME LaidOut, Finished, Inv, ContentInv, Whole, ~More(in.records, Size(in), walk)
    PROVE  /\ Accepted(in.records, Size(in), walk) /\ ~Probes(walk) /\ walk.codec # "none"
           /\ EntriesOf(walk) = AllEntries
           /\ Clean(in, walk) = SizeOf(EntriesOf(walk))
<1>1. PICK x \in Inputs : x = in /\ WalkOf(x, walk) /\ ReadOf(x, walk) /\ PlaceOf(x, walk)
  BY DEF Inv, ContentInv
<1>2. ~Shortened(x) /\ x.damaged = 0
  BY <1>1 DEF Whole, Cut
<1>3. /\ walk.open /\ walk.cut = NoCut /\ Known(walk)
      /\ EntriesOf(walk) = ListedIn(x, Len(x.records))
      /\ UnitsOf(x, walk) = SizeOf(EntriesOf(walk))
      /\ walk.sums \in {0, Len(EntriesOf(walk))}
      /\ x.damaged = 0 => Clean(x, walk) = SizeOf(EntriesOf(walk))
  BY <1>1, <1>2, WholeWalk
<1>4. Accepted(x.records, Size(x), walk)
  BY <1>1, <1>2, WholeTaken
<1>5. ~Probes(walk)
  BY <1>3 DEF Probes, AttributesRead
<1> QED BY <1>1, <1>2, <1>3, <1>4, <1>5 DEF AllEntries, Known

\* A file that makes the status 2.
Failing(f) == ~in.test /\ f \in in.selected \ refused /\ f \in in.unsafe \cup in.locked

\* The archive's decoder is reached, it ends well, and so does the decode that is written.
WellDecoded ==
    /\ pc = "open" => out = <<>> /\ ctx.blocks # <<>> /\ Ahead
    /\ pc = "ended" => err = "none"
    /\ pc \in {"copy", "ask"} => end = "ok"

\* What is counted are the files that cannot be written; the questions were about entries
\* the loop is past.
Counted ==
    /\ pc \in {"parse", "open", "block", "ended"} => failed = 0 /\ refused = {}
    /\ pc \in {"copy", "ask"} =>
        /\ failed # 0 <=> \E j \in DOMAIN ctx.entries : j < cursor /\ Failing(ctx.entries[j].file)
        /\ \A f \in refused : \E j \in DOMAIN ctx.entries : j < cursor /\ ctx.entries[j].file = f
    /\ pc = "ask" => Selected /\ Entry.file \notin in.unsafe
    /\ pc = "done" =>
        said = "footer" /\ rc = IF \E f \in in.selected : Failing(f) THEN 2 ELSE 0

IntactInv == Whole => WellDecoded /\ Counted

\* What the driver has of it.
LEMMA WholeTotal ==
    ASSUME LaidOut, Finished, Inv, ContentInv, Whole, pc # "parse", said # "refused"
    PROVE  /\ ctx.total \in Nat /\ Clean(in, walk) = ctx.total
           /\ ctx.entries = AllEntries /\ ctx.total = SizeOf(ctx.entries)
           /\ ctx.codec # "none" /\ ~Probes(walk)
<1>0. PICK found \in BOOLEAN : ctx = Context(in, walk, found) /\ Accepted(in.records, Size(in), walk)
  BY DEF ContentInv, HandedOn
<1>1. PICK c : c = ctx /\ c = Context(in, walk, found) /\ Accepted(in.records, Size(in), walk)
  BY <1>0
<1>2. ReadOf(in, walk) /\ PlaceOf(in, walk) /\ ~More(in.records, Size(in), walk)
  BY DEF ContentInv, HandedOn
<1>3. c.codec = walk.codec /\ c.entries = EntriesOf(walk) /\ c.total = SizeOf(c.entries) /\ c.total \in Nat
  BY <1>1, <1>2, TakenFacts DEF Work
<1> QED BY <1>1, <1>2, <1>3, WholeFacts

\* All its entries are clean, so that none is partial or a mismatch.
LEMMA WholeEntry ==
    ASSUME LaidOut, Finished, Inv, ContentInv, Whole, pc \in {"copy", "ask"}, cursor <= Len(ctx.entries)
    PROVE  /\ ~LastPartial /\ ~Mismatch /\ Bad = 0
           /\ cursor \in DOMAIN ctx.entries
<1>1. PICK es \in Seq(EntriesIn(in)) : es = ctx.entries
  BY DEF Inv, Handed
<1>2. PICK k \in 1 .. Len(es) : k = cursor
  BY <1>1 DEF Inv, FileTypes
<1>3. said # "refused"
  BY DEF ContentInv, HandedOn
<1>4. Clean(in, walk) = SizeOf(es)
  BY <1>1, <1>3, WholeTotal
<1>5. StartOf(es, k) + es[k].size <= SizeOf(es)
  BY EntryFits DEF Inv
<1>6. CleanEntry(cursor)
  BY <1>1, <1>2, <1>4, <1>5 DEF CleanEntry
<1>7. ~LastPartial /\ (Mismatch => Entry.file \in in.badSums)
  BY <1>6, AtEntry
<1> QED BY <1>1, <1>2, <1>7 DEF Whole, Bad

\* How it is handed over: a stored archive comes out whole, the others have something to
\* decode.
LEMMA ParseIntact ==
    ASSUME LaidOut, Finished, Inv, ContentInv, IntactInv, Whole,
           Refuse \/ ParseStore \/ \E found \in BOOLEAN : ParsePacked(found)
    PROVE  WellDecoded' /\ Counted'
<1>1. pc = "parse" /\ ~More(in.records, Size(in), walk) /\ UNCHANGED <<in, walk, failed, refused, cursor>>
  BY DEF Refuse, ParseStore, ParsePacked, Parsed, Reading
<1>2. Accepted(in.records, Size(in), walk) /\ ~Probes(walk)
  BY <1>1, WholeFacts
<1>3. failed = 0 /\ refused = {} /\ cursor = 1 /\ out = <<>>
  BY <1>1 DEF IntactInv, Counted, Inv, Fresh
<1>4. Inv' /\ ContentInv' /\ Whole'
  BY <1>1, NextInv, ContentKept DEF Next, Whole, Cut
<1>5. CASE Refuse
  BY <1>2, <1>5 DEF Refuse
<1>6. CASE ParseStore
  <2>1. /\ pc' = "copy" /\ said' = said /\ ctx' = Context(in, walk, TRUE)
        /\ end' = IF Len(out') = ctx'.total THEN "ok" ELSE "eof"
    BY <1>6 DEF ParseStore
  <2>2. PICK n \in Nat : n = ctx'.total /\ Clean(in, walk) = n
    <3>1. PICK c : c = ctx' /\ c = Context(in, walk, TRUE)
      BY <2>1
    <3>2. c.entries = EntriesOf(walk) /\ c.total = SizeOf(c.entries) /\ c.total \in Nat
      BY <1>2, <3>1, TakenFacts DEF ContentInv, Work
    <3> QED BY <1>1, <3>1, <3>2, WholeFacts
  <2>3. Len(out') >= n /\ Len(out') <= n /\ Len(out') \in Nat
    <3>1. Clean(in, walk)' = Clean(in, walk)
      BY <1>1
    <3>2. Len(out') >= Clean(in, walk)'
      BY <1>4, <2>1 DEF ContentInv, Progress
    <3>3. out' \in Seq(Int) /\ Len(out') <= ctx'.total
      BY <1>4 DEF Inv, DecoderTypes
    <3> QED BY <2>2, <3>1, <3>2, <3>3
  <2>4. end' = "ok"
    <3>1. PICK l \in Nat : l = Len(out') /\ l >= n /\ l <= n
      BY <2>3
    <3>2. l = n
      BY <3>1
    <3> QED BY <2>1, <2>2, <3>1, <3>2
  <2>5. \A j \in DOMAIN ctx'.entries : ~(j < 1)
    BY <1>4 DEF Inv, Handed
  <2> QED BY <1>1, <1>3, <2>1, <2>4, <2>5 DEF WellDecoded, Counted
<1>7. CASE \E found \in BOOLEAN : ParsePacked(found)
  <2>1. /\ pc' = "open" /\ out' = out /\ said' = said /\ ctx' = Context(in, walk, TRUE) /\ ctx'.codec # "store"
        /\ ctx'.total > 0
        /\ engine' = IF ctx'.codec = "lzpf" THEN "lzpf" ELSE "lzhd"
    BY <1>2, <1>7 DEF ParsePacked
  <2>2. Ahead'
    <3>1. PICK c : c = ctx' /\ c = Context(in, walk, TRUE)
      BY <2>1
    <3>2. c.codec = walk.codec /\ Known(walk)
      BY <1>2, <3>1, TakenFacts DEF ContentInv, Work
    <3>3. walk \in WalksOf(in) /\ in \in Inputs
      BY DEF Inv, WalkOf
    <3>4. walk.codec = in.records[1].body
      BY <3>2, <3>3 DEF Known, WalksOf
    <3>5. 1 \in DOMAIN in.records /\ in.records[1].type = "codec" /\ IsRecord(in.records[1])
      BY <3>3, InputsAssumption
    <3>6. c.codec \in Families
      BY <3>2, <3>4, <3>5 DEF IsRecord
    <3> QED BY <2>1, <3>1, <3>6 DEF Ahead, Families
  <2>3. ctx'.blocks # <<>>
    <3>1. PICK c : c = ctx' /\ c = Context(in, walk, TRUE)
      BY <2>1
    <3>2. /\ c.entries = EntriesOf(walk) /\ c.total = SizeOf(c.entries) /\ c.total \in Nat
          /\ Given(c.blocks) >= Clean(in, walk)
      BY <1>2, <2>1, <3>1, TakenFacts, FoundFacts DEF ContentInv, Work
    <3>3. Clean(in, walk) = c.total
      BY <1>1, <3>2, WholeFacts
    <3>4. Given(<<>>) = 0
      <4>1. Len(<<>>) + 1 = 1
        OBVIOUS
      <4> QED BY <4>1, SumNone DEF Given, GivenBefore
    <3>5. PICK n \in Nat : n = c.total /\ n > 0
      BY <2>1, <3>1, <3>2
    <3>6. SUFFICES ASSUME ctx'.blocks = <<>> PROVE FALSE
      OBVIOUS
    <3>7. Given(c.blocks) = 0
      BY <3>1, <3>4, <3>6
    <3> QED BY <3>2, <3>3, <3>5, <3>7
  <2> QED BY <1>1, <1>3, <2>1, <2>2, <2>3 DEF WellDecoded, Counted
<1> QED BY <1>5, <1>6, <1>7

\* The decoders: none fails, and none but the archive's is tried to the end.
LEMMA DecoderIntact ==
    ASSUME LaidOut, Finished, Inv, ContentInv, PrefixInv, IntactInv, Whole,
           \/ Decline \/ Start \/ EndOfRecords \/ HandBack \/ Ended \/ Partial \/ Nothing
           \/ \E o \in Outcomes : DecodeRecord(o) \/ FailRecord(o)
    PROVE  WellDecoded' /\ Counted'
<1>1. pc \in {"open", "block", "ended"} /\ UNCHANGED <<in, walk, ctx, failed, refused, cursor>>
  BY DEF Decline, Start, EndOfRecords, HandBack, Ended, Partial, Adopt, Nothing, DecodeRecord, FailRecord, Decoding
<1>2. said # "refused"
  BY <1>1 DEF ContentInv, HandedOn
<1>3. ctx.total \in Nat /\ Clean(in, walk) = ctx.total /\ ctx.codec # "none"
  BY <1>1, <1>2, WholeTotal
<1>4. /\ failed = 0 /\ refused = {} /\ (pc = "ended" => err = "none")
      /\ pc = "open" => out = <<>> /\ ctx.blocks # <<>> /\ Ahead
  BY <1>1 DEF IntactInv, WellDecoded, Counted
<1>5. cursor = 1 /\ \A j \in DOMAIN ctx.entries : ~(j < cursor)
  <2>1. cursor = 1
    BY <1>1 DEF PrefixInv
  <2> QED BY <2>1 DEF Inv, Handed
<1>6. CASE Decline
  <2>1. /\ pc = "open" /\ pc' = "open" /\ engine # "none" /\ ~Owns /\ engine' = NextEngine[engine]
        /\ out' = out
    BY <1>6 DEF Decline
  <2>2. Ahead'
    BY <1>1, <1>4, <2>1 DEF Ahead, Owns, NextEngine
  <2> QED BY <1>1, <1>4, <2>1, <2>2 DEF WellDecoded, Counted
<1>7. CASE Start \/ \E o \in Outcomes : DecodeRecord(o)
  <2>1. pc' = "block"
    BY <1>7 DEF Start, DecodeRecord, Decoding
  <2> QED BY <1>1, <1>4, <2>1 DEF WellDecoded, Counted
<1>8. CASE EndOfRecords
  <2>1. pc' = "ended" /\ out' = out /\ (Len(out) = ctx.total => err' = "none")
    BY <1>8 DEF EndOfRecords
  <2>2. Inv' /\ ContentInv'
    BY <1>8, NextInv, ContentKept DEF Next
  <2>3. Len(out) >= Clean(in, walk) /\ Len(out) <= ctx.total /\ Len(out) \in Nat
    BY <1>1, <2>1, <2>2 DEF ContentInv, Progress, Inv, DecoderTypes
  <2>4. Len(out) = ctx.total
    BY <1>3, <2>3
  <2> QED BY <1>1, <1>4, <2>1, <2>4 DEF WellDecoded, Counted
<1>9. CASE Ended
  <2>1. pc = "ended" /\ pc' = "copy" /\ end' = IF err = "none" THEN "ok" ELSE err
    BY <1>9 DEF Ended, Adopt
  <2> QED BY <1>1, <1>4, <1>5, <2>1 DEF WellDecoded, Counted
<1>10. CASE HandBack
  BY <1>4, <1>10 DEF HandBack
<1>11. CASE Partial \/ Nothing
  <2>1. pc = "open"
    BY <1>11 DEF Partial, Nothing
  <2> QED BY <1>3, <1>4, <1>11, <2>1 DEF Ahead, Partial, Nothing
<1>12. ASSUME NEW o \in Outcomes, FailRecord(o) PROVE FALSE
  <2>1. /\ pc = "block" /\ blockAt <= Len(ctx.blocks) /\ Len(out) < ctx.total
        /\ o \in ctx.blocks[blockAt].may /\ o \in {"fail", "fatal"}
    BY <1>12 DEF FailRecord, Decoding
  <2>2. blockAt \in 1 .. Len(ctx.blocks)
    BY <2>1 DEF Inv, DecoderTypes, Handed, BlocksType
  <2>3. ctx.blocks[blockAt].may = {"right"} \/ GivenBefore(ctx.blocks, blockAt) >= ctx.total
    BY <1>1, <1>3, <2>2, WorkFacts DEF Work
  <2>4. Len(out) >= ctx.total \/ Len(out) = GivenBefore(ctx.blocks, blockAt)
    BY <1>3, <2>1 DEF ContentInv, Progress
  <2>5. Len(out) \in Nat
    BY DEF Inv, DecoderTypes
  <2> QED BY <1>3, <2>1, <2>3, <2>4, <2>5
<1> QED BY <1>6, <1>7, <1>8, <1>9, <1>10, <1>11, <1>12

\* A step past an entry that counts it if it cannot be written.
LEMMA PastIntact ==
    ASSUME LaidOut, Finished, Inv, ContentInv, IntactInv, Whole, pc \in {"copy", "ask"},
           cursor <= Len(ctx.entries), UNCHANGED <<in, walk, ctx, end>>, Next1, pc' = "copy",
           NEW f, f = Entry.file, refused' \in {refused, refused \cup {f}},
           failed' = failed + IF Failing(f)' THEN 1 ELSE 0
    PROVE  WellDecoded' /\ Counted'
<1>1. ~LastPartial /\ cursor \in DOMAIN ctx.entries
  BY WholeEntry
<1>2. PICK n \in Nat : DOMAIN ctx.entries = 1 .. n /\ cursor \in 1 .. n /\ cursor' = cursor + 1
  BY <1>1 DEF Next1, Inv, Handed
<1>3. /\ failed # 0 <=> \E j \in DOMAIN ctx.entries : j < cursor /\ Failing(ctx.entries[j].file)
      /\ \A g \in refused : \E j \in DOMAIN ctx.entries : j < cursor /\ ctx.entries[j].file = g
      /\ end = "ok" /\ failed \in Nat
  BY DEF IntactInv, Counted, WellDecoded, Inv, FileTypes
<1>4. ASSUME NEW j \in DOMAIN ctx.entries, j < cursor
      PROVE  Failing(ctx.entries[j].file)' <=> Failing(ctx.entries[j].file)
  <2>1. ctx.entries[j].file # f
    BY <1>1, <1>2, <1>4, EntriesDiffer DEF Entry
  <2>2. ctx.entries[j].file \in refused' <=> ctx.entries[j].file \in refused
    BY <2>1
  <2> QED BY <2>2 DEF Failing
<1>5. ctx.entries[cursor].file = f
  BY DEF Entry
<1>6. \A j \in DOMAIN ctx.entries : j < cursor' <=> j < cursor \/ j = cursor
  BY <1>2
<1>7. failed' # 0 <=> failed # 0 \/ Failing(f)'
  BY <1>3
<1>8. ASSUME NEW j \in DOMAIN ctx.entries, j = cursor
      PROVE  Failing(ctx.entries[j].file)' <=> Failing(f)'
  BY <1>5, <1>8 DEF Failing
<1>9. failed' # 0 <=> \E j \in DOMAIN ctx.entries : j < cursor' /\ Failing(ctx.entries[j].file)'
  BY <1>1, <1>3, <1>4, <1>6, <1>7, <1>8
<1>10. ASSUME NEW g \in refused'
       PROVE  \E j \in DOMAIN ctx.entries : j < cursor' /\ ctx.entries[j].file = g
  BY <1>1, <1>3, <1>5, <1>6, <1>10
<1> QED BY <1>3, <1>9, <1>10 DEF WellDecoded, Counted

\* The loop over the files.
LEMMA LoopIntact ==
    ASSUME LaidOut, Finished, Inv, ContentInv, IntactInv, Whole,
           Skip \/ Test \/ Unsafe \/ Ask \/ Write \/ AnswerYes \/ AnswerAlways \/ AnswerNo
    PROVE  WellDecoded' /\ Counted'
<1>1. /\ UNCHANGED <<in, walk, ctx, end, out>> /\ pc \in {"copy", "ask"}
      /\ cursor <= Len(ctx.entries)
  BY DEF Skip, Test, Unsafe, Ask, Write, Writes, Goes, Copying, AnswerYes, AnswerAlways, AnswerNo,
         WriteEntry, Rest, Inv, Asked
<1>2. ~LastPartial /\ ~Mismatch /\ Bad = 0 /\ cursor \in DOMAIN ctx.entries
  BY <1>1, WholeEntry
<1>3. PICK f : f = Entry.file
  OBVIOUS
<1>4. f \notin refused
  <2>1. SUFFICES ASSUME f \in refused PROVE FALSE
    OBVIOUS
  <2>2. PICK j \in DOMAIN ctx.entries : j < cursor /\ ctx.entries[j].file = f
    BY <1>1, <2>1 DEF IntactInv, Counted
  <2>3. j = cursor
    BY <1>2, <1>3, <2>2, EntriesDiffer DEF Entry
  <2>4. cursor \in Int
    BY <1>2 DEF Inv, Handed
  <2> QED BY <2>2, <2>3, <2>4
<1>5. failed \in Nat
  BY DEF Inv, FileTypes
<1>6. CASE Skip
  <2>1. Next1 /\ pc' = "copy" /\ failed' = failed /\ refused' = refused /\ f \notin in.selected
    BY <1>2, <1>3, <1>5, <1>6 DEF Skip, Copying, Count, SafeStop, Selected
  <2>2. ~Failing(f)'
    BY <1>1, <2>1 DEF Failing
  <2> QED BY <1>1, <1>3, <1>5, <2>1, <2>2, PastIntact
<1>7. CASE Test
  <2>1. Next1 /\ pc' = "copy" /\ failed' = failed /\ refused' = refused /\ in.test
    BY <1>2, <1>5, <1>7 DEF Test, Goes, Copying, Count
  <2>2. ~Failing(f)'
    BY <1>1, <2>1 DEF Failing
  <2> QED BY <1>1, <1>3, <1>5, <2>1, <2>2, PastIntact
<1>8. CASE Unsafe
  <2>1. /\ Next1 /\ pc' = "copy" /\ failed' = failed + 1 /\ refused' = refused
        /\ ~in.test /\ f \in in.unsafe /\ f \in in.selected
    BY <1>2, <1>3, <1>5, <1>8 DEF Unsafe, Goes, Copying, Count, Selected
  <2>2. Failing(f)'
    BY <1>1, <1>4, <2>1 DEF Failing
  <2> QED BY <1>1, <1>3, <1>5, <2>1, <2>2, PastIntact
<1>9. CASE AnswerNo
  <2>1. Next1 /\ pc' = "copy" /\ failed' = failed /\ refused' = refused \cup {f}
    BY <1>2, <1>3, <1>5, <1>9 DEF AnswerNo, Count
  <2>2. ~Failing(f)'
    BY <2>1 DEF Failing
  <2> QED BY <1>1, <1>3, <1>5, <2>1, <2>2, PastIntact
<1>10. CASE Write \/ AnswerYes \/ AnswerAlways
  <2>1. /\ Next1 /\ pc' = "copy" /\ refused' = refused
        /\ failed' = failed + IF f \in in.locked THEN 1 ELSE 0
    BY <1>2, <1>3, <1>5, <1>10 DEF Write, AnswerYes, AnswerAlways, WriteEntry, Count
  <2>2. ~in.test /\ f \in in.selected /\ f \notin in.unsafe
    <3>1. CASE pc = "copy"
      BY <1>3, <1>10, <3>1 DEF Write, Writes, Goes, Selected, AnswerYes, AnswerAlways
    <3>2. CASE pc = "ask"
      BY <1>3, <3>2 DEF IntactInv, Counted, Selected, Inv, Asked
    <3> QED BY <1>1, <3>1, <3>2
  <2>3. Failing(f)' <=> f \in in.locked
    BY <1>1, <1>4, <2>1, <2>2 DEF Failing
  <2>4. failed' = failed + IF Failing(f)' THEN 1 ELSE 0
    BY <2>1, <2>3
  <2> QED BY <1>1, <1>3, <2>1, <2>4, PastIntact
<1>11. CASE Ask
  <2>1. /\ pc = "copy" /\ pc' = "ask" /\ UNCHANGED <<cursor, failed, refused>>
        /\ Selected /\ Entry.file \notin in.unsafe
    BY <1>11 DEF Ask, Writes, Goes, Copying
  <2>2. Selected' /\ Entry'.file \notin in'.unsafe
    BY <1>1, <2>1 DEF Selected, Entry
  <2>3. \A g : Failing(g)' <=> Failing(g)
    BY <1>1, <2>1 DEF Failing
  <2> QED BY <1>1, <2>1, <2>2, <2>3 DEF IntactInv, WellDecoded, Counted
<1> QED BY <1>6, <1>7, <1>8, <1>9, <1>10, <1>11

\* The end: what was counted are the files that cannot be written.
LEMMA FinishIntact ==
    ASSUME LaidOut, Finished, Inv, ContentInv, IntactInv, Whole, Finish
    PROVE  WellDecoded' /\ Counted'
<1>1. /\ UNCHANGED <<in, walk, ctx, refused>> /\ pc = "copy" /\ pc' = "done" /\ cursor > Len(ctx.entries)
      /\ end = "ok" => said' = "footer" /\ rc' = IF failed = 0 THEN 0 ELSE 2
  BY DEF Finish
<1>2. /\ end = "ok"
      /\ failed # 0 <=> \E j \in DOMAIN ctx.entries : j < cursor /\ Failing(ctx.entries[j].file)
  BY <1>1 DEF IntactInv, WellDecoded, Counted
<1>3. (\E f \in in.selected : Failing(f)) <=>
        \E j \in DOMAIN ctx.entries : j < cursor /\ Failing(ctx.entries[j].file)
  <2>1. \A j \in DOMAIN ctx.entries : j < cursor
    BY <1>1 DEF Inv, Handed, FileTypes
  <2>2. ASSUME NEW f \in in.selected PROVE \E j \in DOMAIN ctx.entries : ctx.entries[j].file = f
    <3>1. PICK x \in Inputs : x = in
      BY DEF Inv
    <3>2. f \in FilesOf(x)
      BY <3>1 DEF Finished
    <3>3. said # "refused"
      BY <1>1 DEF ContentInv, HandedOn
    <3>4. ctx.entries = ListedIn(x, Len(x.records))
      BY <1>1, <3>1, <3>3, WholeTotal DEF AllEntries
    <3> QED BY <3>2, <3>4, FilesListed
  <2>3. \A j \in DOMAIN ctx.entries : Failing(ctx.entries[j].file) => ctx.entries[j].file \in in.selected
    BY DEF Failing
  <2> QED BY <2>1, <2>2, <2>3
<1>4. \A f : Failing(f)' <=> Failing(f)
  BY <1>1 DEF Failing
<1> QED BY <1>1, <1>2, <1>3, <1>4 DEF WellDecoded, Counted

\* Every step keeps it.
LEMMA IntactStep ==
    ASSUME LaidOut, Finished, Inv, ContentInv, PrefixInv, IntactInv, [Next \/ Done]_vars
    PROVE  IntactInv'
<1>1. SUFFICES ASSUME Whole PROVE WellDecoded' /\ Counted'
  <2>1. UNCHANGED in
    BY DEF Next, Done, vars, ReadRecord, Refuse, ParseStore, ParsePacked, Decline, Start, DecodeRecord,
           FailRecord, EndOfRecords, Ended, HandBack, Partial, Adopt, Nothing, Skip, Test, Unsafe, Ask,
           Write, AnswerYes, AnswerAlways, AnswerNo, WriteEntry, Rest, Finish
  <2> QED BY <2>1 DEF IntactInv, Whole, Cut
<1>2. CASE ReadRecord
  <2>1. pc = "parse" /\ pc' = "parse" /\ UNCHANGED <<failed, refused>>
    BY <1>2 DEF ReadRecord, Reading
  <2> QED BY <1>1, <2>1 DEF IntactInv, WellDecoded, Counted
<1>3. CASE Refuse \/ ParseStore \/ \E found \in BOOLEAN : ParsePacked(found)
  BY <1>1, <1>3, ParseIntact
<1>4. CASE \/ Decline \/ Start \/ EndOfRecords \/ HandBack \/ Ended \/ Partial \/ Nothing
           \/ \E o \in Outcomes : DecodeRecord(o) \/ FailRecord(o)
  BY <1>1, <1>4, DecoderIntact
<1>5. CASE Skip \/ Test \/ Unsafe \/ Ask \/ Write \/ AnswerYes \/ AnswerAlways \/ AnswerNo
  BY <1>1, <1>5, LoopIntact
<1>6. CASE Finish
  BY <1>1, <1>6, FinishIntact
<1>7. CASE UNCHANGED vars
  <2>1. UNCHANGED <<in, ctx, pc, engine, out, err, cursor, end, failed, refused, said, rc>>
    BY <1>7 DEF vars
  <2> QED BY <1>1, <2>1 DEF IntactInv, WellDecoded, Counted, Failing, Ahead, Selected, Entry
<1> QED BY <1>2, <1>3, <1>4, <1>5, <1>6, <1>7 DEF Next, Done

\* An archive nothing happened to comes out whole.
LEMMA IntactHolds ==
    ASSUME LaidOut, Finished, Inv, ContentInv, PrefixInv, IntactInv PROVE Intact
<1>1. SUFFICES ASSUME pc = "done", Whole
               PROVE  /\ \A f \in FilesOf(in) : Wanted(f) => Right(f)
                      /\ said = "footer"
                      /\ rc = IF ~in.test /\ \E f \in in.selected \ refused : f \in in.unsafe \cup in.locked
                              THEN 2 ELSE 0
  BY DEF Intact, Whole
<1>2. said = "footer" /\ rc = IF \E f \in in.selected : Failing(f) THEN 2 ELSE 0
  BY <1>1 DEF IntactInv, Counted
<1>3. (\E f \in in.selected : Failing(f)) <=>
        ~in.test /\ \E f \in in.selected \ refused : f \in in.unsafe \cup in.locked
  BY DEF Failing
<1>4. /\ ctx.total \in Nat /\ Clean(in, walk) = ctx.total /\ ctx.entries = AllEntries
      /\ ctx.total = SizeOf(ctx.entries) /\ ~Probes(walk)
  BY <1>1, <1>2, WholeTotal
<1>5. ASSUME NEW f \in FilesOf(in), Wanted(f) PROVE Right(f)
  <2>1. PICK x \in Inputs : x = in
    BY DEF Inv
  <2>2. PICK j \in DOMAIN ctx.entries : ctx.entries[j].file = f
    BY <1>4, <1>5, <2>1, FilesListed DEF AllEntries
  <2>3. Stands(j)
    BY <1>1, <1>2, <1>4, AllStand
  <2>4. CleanEntry(j)
    <3>1. PICK es \in Seq(EntriesIn(x)) : es = ctx.entries /\ j \in 1 .. Len(es)
      BY <2>1 DEF Inv, Handed
    <3>2. StartOf(es, j) + es[j].size <= SizeOf(es)
      BY <3>1, EntryFits
    <3> QED BY <1>4, <3>1, <3>2 DEF CleanEntry
  <2>5. disk[f] = [new |-> TRUE, there |-> TRUE, data |-> TrueContent(ctx.entries, j)]
    BY <1>1, <1>5, <2>2, <2>3, <2>4 DEF Stands, Whole
  <2> QED BY <2>2, <2>5, EntryRight
<1> QED BY <1>2, <1>3, <1>5
-----------------------------------------------------------------------------
(* What comes out *)

\* Wherever an archive with checksums is cut or damaged: where RunLegacyCnExtractOrTest
\* gives status 0, every entry it still listed decoded to what was archived, every file
\* it wrote is right, and no listed entry that was selected and not refused is missing.
\* Files whose tables were cut off, and archives without checksums, are not covered.
THEOREM StatusZero == ASSUME LaidOut PROVE Spec => []StatusZeroMeansRight
<1>1. ASSUME Inv, StatusInv PROVE StatusZeroMeansRight
  <2>1. SUFFICES ASSUME pc = "done", rc = 0, in.checks
                 PROVE  /\ \A f \in FilesOf(in) : disk[f].new => Right(f)
                        /\ \A j \in DOMAIN ctx.entries :
                              /\ RangeOf(ctx.entries, out, j) = TrueContent(ctx.entries, j)
                              /\ Due(j) => Right(ctx.entries[j].file)
    BY DEF StatusZeroMeansRight, Due
  <2>2. PICK es \in Seq(EntriesIn(in)) : es = ctx.entries
    BY <1>1 DEF Inv, Handed
  <2>3. PICK n \in Nat : n = Len(es) /\ DOMAIN es = 1 .. n /\ cursor - 1 = n
    BY <1>1, <2>1, <2>2 DEF StatusInv, Succeeded
  <2>4. /\ \A j \in 1 .. n : RangeOf(es, out, j) = TrueContent(es, j)
        /\ \A f \in FilesOf(in) : disk[f].new => WrittenFor(f)
        /\ \A j \in 1 .. n : Due(j) => disk[es[j].file].new
    BY <1>1, <2>1, <2>2, <2>3 DEF StatusInv, Succeeded, Compared, Written
  <2>5. ASSUME NEW f \in FilesOf(in), disk[f].new PROVE Right(f)
    <3>1. PICK j \in 1 .. n :
            /\ es[j].file = f
            /\ disk[f] = [new |-> TRUE, there |-> TRUE, data |-> RangeOf(es, out, j)]
      BY <2>2, <2>3, <2>4, <2>5 DEF WrittenFor
    <3>2. disk[f] = [new |-> TRUE, there |-> TRUE, data |-> TrueContent(ctx.entries, j)]
      BY <2>2, <2>4, <3>1
    <3> QED BY <1>1, <2>2, <2>3, <3>1, <3>2, EntryRight
  <2>6. ASSUME NEW j \in 1 .. n, Due(j) PROVE Right(es[j].file)
    <3>1. es[j] \in EntriesIn(in)
      BY <2>2, <2>3
    <3> QED BY <2>4, <2>5, <2>6, <3>1 DEF EntriesIn
  <2> QED BY <2>2, <2>3, <2>4, <2>5, <2>6
<1>2. Init => StatusInv
  BY InitStatus
<1>3. Inv /\ ContentInv /\ StatusInv /\ [Next \/ Done]_vars => StatusInv'
  BY StatusKept
<1> QED BY <1>1, <1>2, <1>3, Invariance, ContentHolds, PTL DEF Spec

\* Whatever was cut off or damaged: a file whose bytes stand before the cut and the damage
\* is restored as it was archived.
THEOREM PrefixStays == ASSUME LaidOut, Finished PROVE Spec => []PrefixKept
<1>1. Init => PrefixInv
  BY DEF Init, PrefixInv
<1>2. Inv /\ ContentInv /\ PrefixInv /\ [Next \/ Done]_vars => PrefixInv'
  BY PrefixStep
<1>3. Inv /\ ContentInv /\ PrefixInv => PrefixKept
  BY PrefixHolds
<1> QED BY <1>1, <1>2, <1>3, Invariance, ContentHolds, PTL DEF Spec

\* An archive nothing happened to comes out whole, with the status that is due.
THEOREM IntactStays == ASSUME LaidOut, Finished PROVE Spec => []Intact
<1>1. Init => PrefixInv /\ IntactInv
  <2>1. SUFFICES ASSUME Init PROVE PrefixInv /\ IntactInv
    OBVIOUS
  <2> QED BY <2>1 DEF Init, PrefixInv, IntactInv, WellDecoded, Counted
<1>2. Inv /\ ContentInv /\ PrefixInv /\ IntactInv /\ [Next \/ Done]_vars => PrefixInv' /\ IntactInv'
  BY PrefixStep, IntactStep
<1>3. Inv /\ ContentInv /\ PrefixInv /\ IntactInv => Intact
  BY IntactHolds
<1> QED BY <1>1, <1>2, <1>3, Invariance, ContentHolds, PTL DEF Spec
=============================================================================
