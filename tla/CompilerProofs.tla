--------------------------- MODULE CompilerProofs ---------------------------
(***************************************************************************)
(* Proofs about the scanner and the parser, for texts of any length over   *)
(* any letters, digits and strange characters, and for programs of any     *)
(* nesting with any identifiers.                                           *)
(*                                                                         *)
(* The scanner: on plain texts it finds the longest words, whatever state  *)
(* earlier words left behind.  The words of a plain text can be told from  *)
(* pairs of neighbours: Joins says which characters belong together.  The  *)
(* invariant speaks about a text t of which the first d characters are     *)
(* told, the words behind them being still in temp.                        *)
(*                                                                         *)
(* The parser: it finishes without a message on programs only, and neither *)
(* reports anything nor crashes while a program can still follow.  While   *)
(* nothing is wrong the grammar wants what the active procedures have      *)
(* still to do; two tokens are enough to refute what they do not choose.   *)
(***************************************************************************)
EXTENDS Lexer, Parser, FiniteSetTheorems, SequenceTheorems, WellFoundedInduction, TLAPS

Joins(a, b) == \/ a \in Letters /\ b \in Letters
               \/ a \in Digits /\ b \in Digits
               \/ a = "<" /\ b \in {">", "="}
               \/ a = ":" /\ b = "="
Starts(t, k) == k = 1 \/ ~Joins(t[k - 1], t[k])

\* A ":" among the first d characters that no "=" follows there.
Bare(t, d, k) == t[k] = ":" /\ ~(k < d /\ t[k + 1] = "=")

\* Where the words that are told begin; k..e is one of them.
Entered(t, d) == {k \in 1..d : Starts(t, k) /\ t[k] \notin Strange \cup {" "} /\ ~Bare(t, d, k)}
IsRun(t, d, k, e) == /\ Starts(t, k) /\ \A j \in (k + 1)..e : ~Starts(t, j)
                     /\ e = d \/ Starts(t, e + 1)

\* The target g is what the first d characters of t give.
Told(t, d, g) ==
    \E at \in [1..Len(g) -> 1..d] :
        /\ Rising(at) /\ {at[m] : m \in DOMAIN at} = Entered(t, d)
        /\ \A m \in DOMAIN at, e \in 1..d :
              at[m] <= e /\ IsRun(t, d, at[m], e) => g[m] = Entry(SubSeq(t, at[m], e))

\* The messages er are those about the strange characters of t and the ":" of its first d.
LineIn(t, k) == Cardinality({j \in 1..k : t[j] = "\n"})
Wrong(t, d) == {k \in 1..Len(t) : t[k] \in Strange} \cup {k \in 1..d : Bare(t, d, k)}
Tells(t, places, er) ==
    \E at \in [1..Len(er) -> 1..Len(t)] :
        /\ \A l, m \in DOMAIN at : l # m => at[l] # at[m]
        /\ {at[m] : m \in DOMAIN at} = places
        /\ \A m \in DOMAIN at :
              er[m] = <<IF t[at[m]] \in Strange THEN "?" ELSE ":", LineIn(t, at[m])>>
        /\ \A l, m \in DOMAIN at : l < m => LineIn(t, at[l]) <= LineIn(t, at[m])
Blamed(t, d, er) == Tells(t, Wrong(t, d), er)

\* What state says about the word in temp, w.
Fits(w, s) == \/ s = 1 /\ All(w, Letters)
              \/ s = 3 /\ All(w, Digits)
              \/ s = 5 /\ w = <<"=">>
              \/ s = 6 /\ w = <<"-">>
              \/ s = 10 /\ w = <<"<">>
              \/ s = 12 /\ w = <<"<", ">">>
              \/ s = 17 /\ w = <<":">>
              \/ s = 20 /\ w = <<";">>

\* The word in temp begins behind the d characters that are told; a strange character may
\* follow it.
Waiting(t, w, d) ==
    /\ d \in 0..(Len(t) - 1)
    /\ d + Len(w) = Len(t) \/ (d + Len(w) = Len(t) - 1 /\ t[Len(t)] \in Strange)
    /\ w = SubSeq(t, d + 1, d + Len(w))
    /\ Starts(t, d + 1) /\ \A j \in (d + 2)..(d + Len(w)) : ~Starts(t, j)

Held(t, w, s, d) ==
    IF w = <<>> THEN /\ d = Len(t) /\ s = 0
                     /\ t # <<>> => t[Len(t)] \in Strange \cup Blanks \cup {"="}
                ELSE Waiting(t, w, d) /\ Fits(w, s)

Entries == (Seq(Chars) \cup {<<"EOLN">>, <<"EOF">>}) \X Nat
Messages == {"?", ":"} \X Nat

PlainText(t) == \A k \in 1..Len(t) :
    /\ t[k] = ">" => k > 1 /\ t[k - 1] = "<"
    /\ t[k] \in Digits => k = 1 \/ t[k - 1] \notin Letters
    /\ t[k] \in Strange => \/ k = 1 \/ k = Len(t)
                           \/ t[k - 1] \in Blanks \/ t[k + 1] \in Blanks

Scan(t, w, s, g, er, ln) ==
    /\ ln = LineIn(t, Len(t))
    /\ \E d \in 0..Len(t) : Held(t, w, s, d) /\ Told(t, d, g) /\ Blamed(t, d, er)

LexType == /\ text \in Seq(Chars) /\ temp \in Seq(Chars) /\ state \in Nat
           /\ target \in Seq(Entries) /\ error \in Seq(Messages) /\ line \in Nat
           /\ scanned \in BOOLEAN

Finished == \E g \in Seq(Entries) : /\ target = Append(g, EOF)
                                    /\ Told(text, Len(text), g) /\ Blamed(text, Len(text), error)

LexInv == /\ LexType
          /\ PlainText(text) => IF scanned THEN Finished
                                ELSE Scan(text, temp, state, target, error, line)


-----------------------------------------------------------------------------
(* Numbers and characters.                                                 *)

\* A non-empty set of numbers has a least one.
LEMMA LeastOfSome ==
  ASSUME NEW S \in SUBSET Nat, S # {}
  PROVE  \E m \in S : \A n \in S : m <= n
<1>1. PICK m \in S : \A n \in S : ~(<<n, m>> \in OpToRel(<, Nat))
  BY WFMin, NatLessThanWellFounded
<1>2. \A n \in S : ~(n < m)
  BY <1>1 DEF OpToRel
<1> QED
  BY <1>2

\* What holds of the first of some numbers, and of each behind one it holds of, holds of all.
LEMMA AlongARun ==
  ASSUME NEW k \in Nat, NEW e \in Nat, NEW P, k \in P,
         \A j \in (k + 1)..e : j - 1 \in P => j \in P
  PROVE  \A j \in k..e : j \in P
<1> DEFINE S == {j \in k..e : j \notin P}
<1>1. CASE S = {}
  BY <1>1
<1>2. CASE S # {}
  <2>1. S \in SUBSET Nat
    OBVIOUS
  <2>2. PICK m \in S : \A n \in S : m <= n
    BY <1>2, <2>1, LeastOfSome
  <2>3. m # k /\ m \in k..e
    OBVIOUS
  <2>4. m - 1 \in k..e /\ m - 1 \notin S
    BY <2>2, <2>3
  <2>5. m - 1 \in P
    BY <2>4
  <2>6. m \in P
    BY <2>3, <2>5
  <2> QED
    BY <2>6
<1> QED
  BY <1>1, <1>2

\* A set of numbers up to a bound has a greatest one.
LEMMA GreatestOfSome ==
  ASSUME NEW L \in Nat, NEW S \in SUBSET (0..L), S # {}
  PROVE  \E m \in S : \A n \in S : n <= m
<1> DEFINE T == {L - n : n \in S}
<1>1. T \in SUBSET Nat
  OBVIOUS
<1>2. T # {}
  OBVIOUS
<1>3. PICK d \in T : \A e \in T : d <= e
  BY <1>1, <1>2, LeastOfSome
<1>4. PICK m \in S : d = L - m
  BY <1>3
<1>5. \A n \in S : L - m <= L - n
  BY <1>3, <1>4
<1>6. \A n \in S : n <= m
  BY <1>5
<1> QED
  BY <1>6

\* A character is of one kind.
LEMMA Kinds ==
  /\ \A a \in Letters : a \notin Digits /\ a \notin Strange /\ a \notin Blanks /\ a \notin Marks
  /\ \A a \in Digits : a \notin Letters /\ a \notin Strange /\ a \notin Blanks /\ a \notin Marks
  /\ \A a \in Strange : a \notin Letters /\ a \notin Digits /\ a \notin Blanks /\ a \notin Marks
  /\ \A a \in Blanks \cup Marks : a \notin Letters /\ a \notin Digits /\ a \notin Strange
BY CharAssumption

\* What joins its neighbour.
LEMMA JoinsKinds ==
  ASSUME NEW a, NEW b, Joins(a, b)
  PROVE  /\ a \in Letters => b \in Letters
         /\ a \in Digits => b \in Digits
         /\ a = "<" => b \in {">", "="}
         /\ a = ":" => b = "="
         /\ a \in Letters \cup Digits \cup {"<", ":"}
         /\ a \notin Strange
         /\ b \in Letters \cup Digits \cup {">", "="}
         /\ b \notin Strange
BY Kinds DEF Joins, Marks, Blanks

\* The words of the table by their characters.
LEMMA DictWords ==
  ASSUME NEW w, w \in DOMAIN ItemDict
  PROVE  \/ Len(w) = 1 /\ w[1] \in {"=", "<", ">", "-", ";"}
         \/ Len(w) = 2 /\ w[1] = "i" /\ w[2] = "f"
         \/ Len(w) = 2 /\ w[1] = "<" /\ w[2] \in {">", "="}
         \/ Len(w) = 2 /\ w[1] \in {">", ":"} /\ w[2] = "="
<1>1. w \in {<<"i", "f">>, <<"=">>, <<"<", ">">>, <<"<", "=">>, <<"<">>, <<">", "=">>,
             <<">">>, <<"-">>, <<":", "=">>, <<";">>}
  BY DEF ItemDict
<1> HIDE DEF ItemDict
<1>2. CASE w = <<"i", "f">>
  BY <1>2
<1>3. ASSUME NEW a \in {"=", "<", ">", "-", ";"}, w = <<a>>
      PROVE  Len(w) = 1 /\ w[1] = a
  BY <1>3
<1>4. ASSUME NEW a \in {">", "="}, w = <<"<", a>>
      PROVE  Len(w) = 2 /\ w[1] = "<" /\ w[2] = a
  BY <1>4
<1>5. ASSUME NEW a \in {">", ":"}, w = <<a, "=">>
      PROVE  Len(w) = 2 /\ w[1] = a /\ w[2] = "="
  BY <1>5
<1> QED
  BY <1>1, <1>2, <1>3, <1>4, <1>5

LEMMA DictMembers ==
  {<<"i", "f">>, <<"=">>, <<"<", ">">>, <<"<", "=">>, <<"<">>, <<">", "=">>,
   <<">">>, <<"-">>, <<":", "=">>, <<";">>} = DOMAIN ItemDict
BY DEF ItemDict

\* A list of one or two elements from its length.
LEMMA ShortLists ==
  ASSUME NEW S, NEW w \in Seq(S)
  PROVE  /\ Len(w) = 1 => w = <<w[1]>>
         /\ Len(w) = 2 => w = <<w[1], w[2]>>
OBVIOUS

\* A cut of a text by its characters.
LEMMA Cuts ==
  ASSUME NEW t \in Seq(Chars), NEW k \in 1..Len(t), NEW e \in k..Len(t)
  PROVE  /\ SubSeq(t, k, e) \in Seq(Chars)
         /\ Len(SubSeq(t, k, e)) = (e - k) + 1
         /\ \A i \in 1..((e - k) + 1) : SubSeq(t, k, e)[i] = t[(k + i) - 1]
         /\ SubSeq(t, k, e)[1] = t[k]
<1>1. \A i \in k..e : t[i] \in Chars
  BY ElementOfSeq
<1>2. k \in Int /\ e \in Int /\ k <= e
  OBVIOUS
<1>3. /\ SubSeq(t, k, e) \in Seq(Chars)
      /\ Len(SubSeq(t, k, e)) = IF k <= e THEN e - k + 1 ELSE 0
      /\ \A i \in 1..(e - k + 1) : SubSeq(t, k, e)[i] = t[k + i - 1]
  BY <1>1, <1>2, SubSeqProperties
<1>4. e - k + 1 = (e - k) + 1 /\ 1 \in 1..((e - k) + 1)
  BY <1>2
<1>5. Len(SubSeq(t, k, e)) = (e - k) + 1
  BY <1>2, <1>3
<1>6. \A i \in 1..((e - k) + 1) : SubSeq(t, k, e)[i] = t[(k + i) - 1]
  <2> TAKE i \in 1..((e - k) + 1)
  <2>1. SubSeq(t, k, e)[i] = t[k + i - 1]
    BY <1>3
  <2>2. k + i - 1 = (k + i) - 1
    BY <1>2
  <2> QED
    BY <2>1, <2>2
<1>7. SubSeq(t, k, e)[1] = t[k]
  <2>1. (k + 1) - 1 = k
    BY <1>2
  <2> QED
    BY <1>4, <1>6, <2>1
<1> QED
  BY <1>3, <1>5, <1>6, <1>7

\* A text and the text with one character more agree on the characters they share.
LEMMA Longer ==
  ASSUME NEW t \in Seq(Chars), NEW c \in Chars
  PROVE  /\ Append(t, c) \in Seq(Chars) /\ Len(t) \in Nat
         /\ Len(Append(t, c)) = Len(t) + 1
         /\ \A i \in 1..Len(t) : Append(t, c)[i] = t[i]
         /\ Append(t, c)[Len(t) + 1] = c
         /\ \A k \in 1..Len(t) : Starts(Append(t, c), k) <=> Starts(t, k)
         /\ \A k, e \in 1..Len(t) : SubSeq(Append(t, c), k, e) = SubSeq(t, k, e)
<1>1. /\ Append(t, c) \in Seq(Chars) /\ Len(t) \in Nat
      /\ Len(Append(t, c)) = Len(t) + 1
      /\ \A i \in 1..Len(t) : Append(t, c)[i] = t[i]
      /\ Append(t, c)[Len(t) + 1] = c
  BY AppendProperties, LenProperties
<1>2. \A k \in 1..Len(t) : Starts(Append(t, c), k) <=> Starts(t, k)
  <2> TAKE k \in 1..Len(t)
  <2>1. CASE k = 1
    BY <2>1 DEF Starts
  <2>2. CASE k # 1
    <3>1. k - 1 \in 1..Len(t)
      BY <2>2
    <3>2. Append(t, c)[k - 1] = t[k - 1] /\ Append(t, c)[k] = t[k]
      BY <1>1, <3>1
    <3> QED
      BY <3>2 DEF Starts
  <2> QED
    BY <2>1, <2>2
<1>3. \A k, e \in 1..Len(t) : SubSeq(Append(t, c), k, e) = SubSeq(t, k, e)
  <2>1. Append(t, c) = t \o <<c>> /\ <<c>> \in Seq(Chars)
    BY AppendIsConcat
  <2> QED
    BY <2>1, SubSeqOfConcat1
<1> QED
  BY <1>1, <1>2, <1>3

-----------------------------------------------------------------------------
(* The target and what is told of the text.                                *)

\* A bare ":" stays bare when more is told, up to where a word begins.
LEMMA BareStays ==
  ASSUME NEW t \in Seq(Chars), NEW d \in Nat, NEW e \in Nat, d < e, e <= Len(t),
         Starts(t, d + 1), NEW k \in 1..d
  PROVE  Bare(t, e, k) <=> Bare(t, d, k)
<1>1. CASE k < d
  <2>1. k < e
    BY <1>1
  <2> QED
    BY <1>1, <2>1 DEF Bare
<1>2. CASE k = d
  <2>1. d + 1 # 1 /\ (d + 1) - 1 = d
    BY <1>2
  <2>2. ~Joins(t[d], t[d + 1])
    BY <2>1 DEF Starts
  <2>3. ~(t[d] = ":" /\ t[d + 1] = "=")
    BY <2>2 DEF Joins
  <2> QED
    BY <1>2, <2>3 DEF Bare
<1> QED
  BY <1>1, <1>2

\* A word is entered as its first character says.
LEMMA EntryOfRun ==
  ASSUME NEW t \in Seq(Chars), NEW d \in Nat, NEW k \in 1..d, NEW e \in k..d, d <= Len(t),
         IsRun(t, d, k, e)
  PROVE  /\ HasEntry(SubSeq(t, k, e)) <=> t[k] \notin Strange \cup {" "} /\ ~Bare(t, d, k)
         /\ SubSeq(t, k, e) = <<":">> <=> Bare(t, d, k)
<1> DEFINE w == SubSeq(t, k, e)
<1>1. /\ w \in Seq(Chars) /\ Len(w) = (e - k) + 1 /\ w[1] = t[k]
  <2>1. k \in 1..Len(t) /\ e \in k..Len(t)
    OBVIOUS
  <2> QED
    BY <2>1, Cuts
<1>2. ASSUME Bare(t, d, k)  PROVE w = <<":">>
  <2>1. t[k] = ":" /\ ~(k < d /\ t[k + 1] = "=")
    BY <1>2 DEF Bare
  <2>2. ASSUME e # k  PROVE FALSE
    <3>1. k + 1 \in (k + 1)..e /\ k < d /\ k + 1 # 1 /\ (k + 1) - 1 = k
      BY <2>2
    <3>2. ~Starts(t, k + 1)
      BY <3>1 DEF IsRun
    <3>3. Joins(t[k], t[k + 1])
      BY <3>1, <3>2 DEF Starts
    <3>4. t[k + 1] = "="
      BY <2>1, <3>3, JoinsKinds
    <3> QED
      BY <2>1, <3>1, <3>4
  <2>3. Len(w) = 1
    BY <1>1, <2>2
  <2>4. w = <<w[1]>>
    BY <1>1, <2>3, ShortLists
  <2> QED
    BY <1>1, <2>1, <2>4
<1>3. ASSUME w = <<":">>  PROVE Bare(t, d, k)
  <2>1. Len(w) = 1 /\ w[1] = ":"
    BY <1>3
  <2>2. e = k /\ t[k] = ":"
    BY <1>1, <2>1
  <2>3. ASSUME k < d  PROVE t[k + 1] # "="
    <3>1. Starts(t, k + 1) /\ k + 1 # 1 /\ (k + 1) - 1 = k
      BY <2>2, <2>3 DEF IsRun
    <3>2. ~Joins(t[k], t[k + 1])
      BY <3>1 DEF Starts
    <3> QED
      BY <2>2, <3>2 DEF Joins
  <2> QED
    BY <2>2, <2>3 DEF Bare
<1>4. HasEntry(w) <=> t[k] \notin Strange \cup {" "} /\ w # <<":">>
  BY <1>1 DEF HasEntry
<1> HIDE DEF w
<1>5. /\ HasEntry(w) <=> t[k] \notin Strange \cup {" "} /\ ~Bare(t, d, k)
      /\ w = <<":">> <=> Bare(t, d, k)
  BY <1>2, <1>3, <1>4
<1> QED
  BY <1>5 DEF w

\* What is told stays told when the text grows.
LEMMA ToldLonger ==
  ASSUME NEW t \in Seq(Chars), NEW c \in Chars, NEW d \in 0..Len(t), NEW g, Told(t, d, g)
  PROVE  Told(Append(t, c), d, g)
<1> DEFINE u == Append(t, c)
<1>1. /\ Len(t) \in Nat
      /\ \A i \in 1..Len(t) : u[i] = t[i]
      /\ \A k \in 1..Len(t) : Starts(u, k) <=> Starts(t, k)
      /\ \A k, e \in 1..Len(t) : SubSeq(u, k, e) = SubSeq(t, k, e)
  BY Longer
<1> HIDE DEF u
<1>2. \A k \in 1..d : Bare(u, d, k) <=> Bare(t, d, k)
  <2> TAKE k \in 1..d
  <2>1. u[k] = t[k] /\ (k < d => u[k + 1] = t[k + 1])
    BY <1>1
  <2> QED
    BY <2>1 DEF Bare
<1>3. Entered(u, d) = Entered(t, d)
  <2>1. \A k \in 1..d : u[k] = t[k] /\ (Starts(u, k) <=> Starts(t, k))
    BY <1>1
  <2> QED
    BY <1>2, <2>1 DEF Entered
<1>4. ASSUME NEW k \in 1..d, NEW e \in 1..d, IsRun(u, d, k, e)
      PROVE  IsRun(t, d, k, e)
  <2>1. Starts(t, k)
    BY <1>1, <1>4 DEF IsRun
  <2>2. \A j \in (k + 1)..e : ~Starts(t, j)
    BY <1>1, <1>4 DEF IsRun
  <2>3. e = d \/ Starts(t, e + 1)
    <3>1. CASE e # d
      <4>1. e + 1 \in 1..Len(t)
        BY <1>1, <3>1
      <4> QED
        BY <1>1, <1>4, <3>1, <4>1 DEF IsRun
    <3> QED
      BY <3>1
  <2> QED
    BY <2>1, <2>2, <2>3 DEF IsRun
<1>5. PICK at \in [1..Len(g) -> 1..d] :
        /\ Rising(at) /\ {at[m] : m \in DOMAIN at} = Entered(t, d)
        /\ \A m \in DOMAIN at, e \in 1..d :
              at[m] <= e /\ IsRun(t, d, at[m], e) => g[m] = Entry(SubSeq(t, at[m], e))
  BY DEF Told
<1>6. ASSUME NEW m \in DOMAIN at, NEW e \in 1..d, at[m] <= e, IsRun(u, d, at[m], e)
      PROVE  g[m] = Entry(SubSeq(u, at[m], e))
  <2>1. at[m] \in 1..d /\ at[m] \in 1..Len(t) /\ e \in 1..Len(t)
    BY <1>1
  <2>2. IsRun(t, d, at[m], e)
    BY <1>4, <1>6, <2>1
  <2>3. SubSeq(u, at[m], e) = SubSeq(t, at[m], e)
    BY <1>1, <2>1
  <2> QED
    BY <1>5, <1>6, <2>2, <2>3
<1>7. Told(u, d, g)
  <2>1. {at[m] : m \in DOMAIN at} = Entered(u, d)
    BY <1>3, <1>5
  <2> QED
    BY <1>5, <1>6, <2>1 DEF Told
<1> QED
  BY <1>7 DEF u

\* The word that begins behind what is told is told as well.
LEMMA ToldWord ==
  ASSUME NEW t \in Seq(Chars), NEW d \in Nat, NEW e \in Nat, d < e, e <= Len(t),
         Starts(t, d + 1), \A j \in (d + 2)..e : ~Starts(t, j),
         NEW g \in Seq(Entries), Told(t, d, g)
  PROVE  LET w == SubSeq(t, d + 1, e)
         IN  IF HasEntry(w) THEN Told(t, e, Append(g, Entry(w))) ELSE Told(t, e, g)
<1> DEFINE w == SubSeq(t, d + 1, e)
           Enters == t[d + 1] \notin Strange \cup {" "} /\ ~Bare(t, e, d + 1)
<1>1. IsRun(t, e, d + 1, e)
  <2>1. (d + 1) + 1 = d + 2
    OBVIOUS
  <2> QED
    BY <2>1 DEF IsRun
<1>2. HasEntry(w) <=> Enters
  <2>1. d + 1 \in 1..e /\ e \in (d + 1)..e
    OBVIOUS
  <2> QED
    BY <1>1, <2>1, EntryOfRun
<1>3. \A k \in 1..d : Bare(t, e, k) <=> Bare(t, d, k)
  BY BareStays
<1>4. ASSUME NEW k \in 1..e, k > d + 1  PROVE ~Starts(t, k)
  <2>1. k \in (d + 2)..e
    BY <1>4
  <2> QED
    BY <2>1
<1>5. Entered(t, e) = Entered(t, d) \cup (IF Enters THEN {d + 1} ELSE {})
  <2>1. \A k \in 1..d : k \in Entered(t, e) <=> k \in Entered(t, d)
    <3> TAKE k \in 1..d
    <3>1. k \in 1..e
      OBVIOUS
    <3> QED
      BY <1>3, <3>1 DEF Entered
  <2>2. d + 1 \in Entered(t, e) <=> Enters
    <3>1. d + 1 \in 1..e
      OBVIOUS
    <3> QED
      BY <3>1 DEF Entered
  <2>3. \A k \in Entered(t, e) : k \in 1..d \/ k = d + 1
    <3> TAKE k \in Entered(t, e)
    <3>1. k \in 1..e /\ Starts(t, k)
      BY DEF Entered
    <3>2. ~(k > d + 1)
      BY <1>4, <3>1
    <3> QED
      BY <3>1, <3>2
  <2>4. Entered(t, d) \subseteq 1..d
    BY DEF Entered
  <2> HIDE DEF Enters
  <2> QED
    BY <2>1, <2>2, <2>3, <2>4
<1>6. PICK at \in [1..Len(g) -> 1..d] :
        /\ Rising(at) /\ {at[m] : m \in DOMAIN at} = Entered(t, d)
        /\ \A m \in DOMAIN at, q \in 1..d :
              at[m] <= q /\ IsRun(t, d, at[m], q) => g[m] = Entry(SubSeq(t, at[m], q))
  BY DEF Told
<1>7. ASSUME NEW m \in DOMAIN at, NEW q \in 1..e, at[m] <= q, IsRun(t, e, at[m], q)
      PROVE  g[m] = Entry(SubSeq(t, at[m], q))
  <2>1. at[m] \in 1..d
    OBVIOUS
  <2>2. q <= d
    <3>1. CASE q > d
      <4>1. d + 1 \in (at[m] + 1)..q
        BY <2>1, <3>1
      <4> QED
        BY <1>7, <4>1 DEF IsRun
    <3> QED
      BY <3>1
  <2>3. q \in 1..d /\ q # e
    BY <2>2
  <2>4. IsRun(t, d, at[m], q)
    BY <1>7, <2>3 DEF IsRun
  <2> QED
    BY <1>6, <1>7, <2>3, <2>4
<1> HIDE DEF Enters, w
<1>8. CASE ~Enters
  <2>1. Entered(t, e) = Entered(t, d)
    BY <1>5, <1>8
  <2>2. at \in [1..Len(g) -> 1..e]
    OBVIOUS
  <2>3. {at[m] : m \in DOMAIN at} = Entered(t, e)
    BY <1>6, <2>1
  <2>4. Told(t, e, g)
    BY <1>6, <1>7, <2>2, <2>3 DEF Told
  <2> QED
    BY <1>2, <1>8, <2>4 DEF w
<1>9. CASE Enters
  <2> DEFINE n == Len(g) + 1
             ta == [m \in 1..n |-> IF m = n THEN d + 1 ELSE at[m]]
             h == Append(g, Entry(w))
  <2>1. Len(h) = n /\ h[n] = Entry(w) /\ n \in Nat /\ \A m \in 1..Len(g) : h[m] = g[m]
    OBVIOUS
  <2>2. ta \in [1..Len(h) -> 1..e] /\ DOMAIN ta = 1..n
    <3>1. \A m \in 1..n : m # n => m \in 1..Len(g)
      OBVIOUS
    <3> QED
      BY <2>1, <3>1
  <2>3. \A m \in 1..Len(g) : m \in 1..n /\ m # n /\ ta[m] = at[m] /\ at[m] \in 1..d
    OBVIOUS
  <2>4. ta[n] = d + 1 /\ n \in 1..n
    OBVIOUS
  <2>5. \A m \in 1..n : m = n \/ m \in 1..Len(g)
    OBVIOUS
  <2> HIDE DEF ta, h
  <2>6. Rising(ta)
    <3> SUFFICES ASSUME NEW l \in 1..n, NEW m \in 1..n, l < m  PROVE ta[l] < ta[m]
      BY <2>2 DEF Rising
    <3>1. l \in 1..Len(g) /\ ta[l] = at[l] /\ at[l] \in 1..d
      BY <2>1, <2>3
    <3>2. CASE m = n
      BY <2>4, <3>1, <3>2
    <3>3. CASE m \in 1..Len(g)
      <4>1. at[l] < at[m]
        BY <1>6, <3>1, <3>3 DEF Rising
      <4> QED
        BY <2>3, <3>1, <3>3, <4>1
    <3> QED
      BY <2>5, <3>2, <3>3
  <2>7. {ta[m] : m \in DOMAIN ta} = Entered(t, e)
    <3>1. {ta[m] : m \in DOMAIN ta} = {at[m] : m \in DOMAIN at} \cup {d + 1}
      <4>1. DOMAIN at = 1..Len(g)
        OBVIOUS
      <4>2. ASSUME NEW m \in DOMAIN ta
            PROVE  ta[m] \in {at[l] : l \in DOMAIN at} \cup {d + 1}
        BY <2>2, <2>3, <2>4, <2>5, <4>1
      <4>3. ASSUME NEW m \in DOMAIN at  PROVE at[m] \in {ta[l] : l \in DOMAIN ta}
        BY <2>2, <2>3, <4>1
      <4>4. d + 1 \in {ta[l] : l \in DOMAIN ta}
        BY <2>2, <2>4
      <4> QED
        BY <4>2, <4>3, <4>4
    <3> QED
      BY <1>5, <1>6, <1>9, <3>1
  <2>8. ASSUME NEW m \in DOMAIN ta, NEW q \in 1..e, ta[m] <= q, IsRun(t, e, ta[m], q)
        PROVE  h[m] = Entry(SubSeq(t, ta[m], q))
    <3>1. CASE m \in 1..Len(g)
      <4>1. m \in DOMAIN at /\ ta[m] = at[m] /\ h[m] = g[m]
        BY <2>1, <2>3, <3>1
      <4> QED
        BY <1>7, <2>8, <4>1
    <3>2. CASE m = n
      <4>1. ta[m] = d + 1 /\ d + 1 <= q /\ IsRun(t, e, d + 1, q)
        BY <2>4, <2>8, <3>2
      <4>2. q = e
        <5>1. CASE q < e
          <6>1. Starts(t, q + 1)
            BY <4>1, <5>1 DEF IsRun
          <6>2. q + 1 \in (d + 2)..e
            BY <4>1, <5>1
          <6> QED
            BY <6>1, <6>2
        <5> QED
          BY <5>1
      <4> QED
        BY <2>1, <3>2, <4>1, <4>2 DEF w
    <3> QED
      BY <2>2, <2>5, <3>1, <3>2
  <2>9. Told(t, e, h)
    BY <2>2, <2>6, <2>7, <2>8 DEF Told
  <2> QED
    BY <1>2, <1>9, <2>9 DEF w, h
<1> QED
  BY <1>8, <1>9

-----------------------------------------------------------------------------
(* The messages and what they are about.                                   *)

\* Lines only grow along a text, by its newlines.
LEMMA LinesGrow ==
  ASSUME NEW t, NEW k \in Nat, NEW l \in Nat, k <= l
  PROVE  /\ LineIn(t, k) \in Nat /\ LineIn(t, l) \in Nat
         /\ LineIn(t, k) <= LineIn(t, l)
         /\ (\A j \in (k + 1)..l : t[j] # "\n") => LineIn(t, k) = LineIn(t, l)
<1> DEFINE A == {j \in 1..k : t[j] = "\n"}
           B == {j \in 1..l : t[j] = "\n"}
<1>1. IsFiniteSet(1..l)
  BY FS_Interval
<1>2. B \in SUBSET (1..l) /\ A \in SUBSET B
  OBVIOUS
<1>3. IsFiniteSet(B)
  BY <1>1, <1>2, FS_Subset
<1>4. IsFiniteSet(A) /\ Cardinality(A) <= Cardinality(B)
  BY <1>2, <1>3, FS_Subset
<1>5. Cardinality(A) \in Nat /\ Cardinality(B) \in Nat
  BY <1>3, <1>4, FS_CardinalityType
<1>6. ASSUME \A j \in (k + 1)..l : t[j] # "\n"  PROVE A = B
  <2>1. \A j \in 1..l : j \in 1..k \/ j \in (k + 1)..l
    OBVIOUS
  <2> QED
    BY <1>2, <1>6, <2>1
<1>7. LineIn(t, k) = Cardinality(A) /\ LineIn(t, l) = Cardinality(B)
  BY DEF LineIn
<1> QED
  BY <1>4, <1>5, <1>6, <1>7

\* One character more changes no line before it, and ends one when it is a newline.
LEMMA LinesLonger ==
  ASSUME NEW t \in Seq(Chars), NEW c \in Chars
  PROVE  /\ \A k \in 0..Len(t) : LineIn(Append(t, c), k) = LineIn(t, k)
         /\ c = "\n" => LineIn(Append(t, c), Len(t) + 1) = LineIn(t, Len(t)) + 1
         /\ c # "\n" => LineIn(Append(t, c), Len(t) + 1) = LineIn(t, Len(t))
         /\ LineIn(t, Len(t)) \in Nat
<1> DEFINE u == Append(t, c)
           L == Len(t)
           A == {j \in 1..L : t[j] = "\n"}
<1>1. L \in Nat /\ (\A i \in 1..L : u[i] = t[i]) /\ u[L + 1] = c
  BY Longer
<1> HIDE DEF u, L
<1>2. \A k \in 0..L : LineIn(u, k) = LineIn(t, k)
  <2> TAKE k \in 0..L
  <2>1. {j \in 1..k : u[j] = "\n"} = {j \in 1..k : t[j] = "\n"}
    <3>1. \A j \in 1..k : u[j] = t[j]
      BY <1>1
    <3> QED
      BY <3>1
  <2> QED
    BY <2>1 DEF LineIn
<1>3. {j \in 1..(L + 1) : u[j] = "\n"} = A \cup (IF c = "\n" THEN {L + 1} ELSE {})
  <2>1. 1..(L + 1) = 1..L \cup {L + 1}
    BY <1>1
  <2>2. \A j \in 1..L : u[j] = t[j]
    BY <1>1
  <2> QED
    BY <1>1, <2>1, <2>2
<1>4. IsFiniteSet(A)
  <2>1. IsFiniteSet(1..L) /\ A \in SUBSET (1..L)
    BY <1>1, FS_Interval
  <2> QED
    BY <2>1, FS_Subset
<1>5. L + 1 \notin A
  BY <1>1
<1>6. Cardinality(A) \in Nat
  BY <1>4, FS_CardinalityType
<1>7. /\ c = "\n" => LineIn(u, L + 1) = Cardinality(A) + 1
      /\ c # "\n" => LineIn(u, L + 1) = Cardinality(A)
  <2> HIDE DEF A
  <2>1. CASE c = "\n"
    <3>1. LineIn(u, L + 1) = Cardinality(A \cup {L + 1})
      BY <1>3, <2>1 DEF LineIn
    <3>2. Cardinality(A \cup {L + 1}) = Cardinality(A) + 1
      BY <1>4, <1>5, FS_AddElement
    <3> QED
      BY <2>1, <3>1, <3>2
  <2>2. CASE c # "\n"
    <3>1. LineIn(u, L + 1) = Cardinality(A)
      BY <1>3, <2>2 DEF LineIn
    <3> QED
      BY <1>6, <2>2, <3>1
  <2> QED
    BY <2>1, <2>2
<1>8. LineIn(t, L) = Cardinality(A)
  BY DEF LineIn
<1> QED
  BY <1>2, <1>6, <1>7, <1>8 DEF u, L

\* A character more adds a wrong place when it is strange.
LEMMA WrongLonger ==
  ASSUME NEW t \in Seq(Chars), NEW c \in Chars, NEW d \in 0..Len(t)
  PROVE  Wrong(Append(t, c), d) = Wrong(t, d) \cup (IF c \in Strange THEN {Len(t) + 1} ELSE {})
<1> DEFINE u == Append(t, c)
           L == Len(t)
<1>1. L \in Nat /\ Len(u) = L + 1 /\ (\A i \in 1..L : u[i] = t[i]) /\ u[L + 1] = c
  BY Longer
<1> HIDE DEF u
<1>2. {k \in 1..Len(u) : u[k] \in Strange}
        = {k \in 1..L : t[k] \in Strange} \cup (IF c \in Strange THEN {L + 1} ELSE {})
  <2>1. 1..Len(u) = 1..L \cup {L + 1}
    BY <1>1
  <2> QED
    BY <1>1, <2>1
<1>3. \A k \in 1..d : Bare(u, d, k) <=> Bare(t, d, k)
  <2> TAKE k \in 1..d
  <2>1. u[k] = t[k] /\ (k < d => u[k + 1] = t[k + 1])
    BY <1>1
  <2> QED
    BY <2>1 DEF Bare
<1>4. {k \in 1..d : Bare(u, d, k)} = {k \in 1..d : Bare(t, d, k)}
  BY <1>3
<1>5. Wrong(u, d) = Wrong(t, d) \cup (IF c \in Strange THEN {L + 1} ELSE {})
  BY <1>2, <1>4 DEF Wrong
<1> QED
  BY <1>5 DEF u

\* What messages are about does not change when the text grows.
LEMMA NamesLonger ==
  ASSUME NEW t \in Seq(Chars), NEW c \in Chars, NEW X, NEW er, Tells(t, X, er)
  PROVE  Tells(Append(t, c), X, er)
<1> DEFINE u == Append(t, c)
           L == Len(t)
<1>1. L \in Nat /\ Len(u) = L + 1 /\ (\A i \in 1..L : u[i] = t[i]) /\ u[L + 1] = c
  BY Longer
<1>2. \A k \in 1..L : LineIn(u, k) = LineIn(t, k)
  <2>1. \A k \in 1..L : k \in 0..L
    BY <1>1
  <2> QED
    BY <2>1, LinesLonger
<1> HIDE DEF u
<1>3. PICK at \in [1..Len(er) -> 1..L] :
        /\ \A l, m \in DOMAIN at : l # m => at[l] # at[m]
        /\ {at[m] : m \in DOMAIN at} = X
        /\ \A m \in DOMAIN at :
              er[m] = <<IF t[at[m]] \in Strange THEN "?" ELSE ":", LineIn(t, at[m])>>
        /\ \A l, m \in DOMAIN at : l < m => LineIn(t, at[l]) <= LineIn(t, at[m])
  BY DEF Tells
<1>4. \A m \in DOMAIN at : u[at[m]] = t[at[m]] /\ LineIn(u, at[m]) = LineIn(t, at[m])
  BY <1>1, <1>2
<1>5. at \in [1..Len(er) -> 1..Len(u)]
  BY <1>1
<1>6. \A m \in DOMAIN at :
         er[m] = <<IF u[at[m]] \in Strange THEN "?" ELSE ":", LineIn(u, at[m])>>
  BY <1>3, <1>4
<1>7. \A l, m \in DOMAIN at : l < m => LineIn(u, at[l]) <= LineIn(u, at[m])
  BY <1>3, <1>4
<1>8. Tells(u, X, er)
  BY <1>3, <1>5, <1>6, <1>7 DEF Tells
<1> QED
  BY <1>8 DEF u

\* The messages stay right when the text grows by a character that is not strange.
LEMMA BlamedLonger ==
  ASSUME NEW t \in Seq(Chars), NEW c \in Chars, c \notin Strange, NEW d \in 0..Len(t), NEW er,
         Blamed(t, d, er)
  PROVE  Blamed(Append(t, c), d, er)
<1>1. Tells(Append(t, c), Wrong(t, d), er)
  BY NamesLonger DEF Blamed
<1>2. Wrong(Append(t, c), d) = Wrong(t, d)
  BY WrongLonger
<1> QED
  BY <1>1, <1>2 DEF Blamed

\* One message more, about a place of its own on the last line.
LEMMA NamesMore ==
  ASSUME NEW t \in Seq(Chars), NEW X, NEW er \in Seq(Messages), Tells(t, X, er),
         NEW q \in 1..Len(t), q \notin X, LineIn(t, q) = LineIn(t, Len(t))
  PROVE  Tells(t, X \cup {q},
               Append(er, <<IF t[q] \in Strange THEN "?" ELSE ":", LineIn(t, Len(t))>>))
<1> DEFINE L == Len(t)
           x == <<IF t[q] \in Strange THEN "?" ELSE ":", LineIn(t, L)>>
           n == Len(er) + 1
<1>1. PICK at \in [1..Len(er) -> 1..L] :
        /\ \A l, m \in DOMAIN at : l # m => at[l] # at[m]
        /\ {at[m] : m \in DOMAIN at} = X
        /\ \A m \in DOMAIN at :
              er[m] = <<IF t[at[m]] \in Strange THEN "?" ELSE ":", LineIn(t, at[m])>>
        /\ \A l, m \in DOMAIN at : l < m => LineIn(t, at[l]) <= LineIn(t, at[m])
  BY DEF Tells
<1> HIDE DEF x
<1> DEFINE ta == [m \in 1..n |-> IF m = n THEN q ELSE at[m]]
           h == Append(er, x)
<1>2. Len(h) = n /\ h[n] = x /\ n \in Nat /\ \A m \in 1..Len(er) : h[m] = er[m]
  OBVIOUS
<1>3. \A m \in 1..Len(er) : m \in 1..n /\ m # n /\ ta[m] = at[m] /\ at[m] \in 1..L
  OBVIOUS
<1>4. ta[n] = q /\ n \in 1..n
  OBVIOUS
<1>5. \A m \in 1..n : m = n \/ m \in 1..Len(er)
  OBVIOUS
<1>6. ta \in [1..Len(h) -> 1..L] /\ DOMAIN ta = 1..n
  BY <1>2, <1>3, <1>5
<1> HIDE DEF ta, h
<1>7. DOMAIN at = 1..Len(er)
  OBVIOUS
<1>8. \A m \in 1..Len(er) : at[m] # q
  BY <1>1, <1>7
<1>9. \A l, m \in DOMAIN ta : l # m => ta[l] # ta[m]
  <2> SUFFICES ASSUME NEW l \in 1..n, NEW m \in 1..n, l # m  PROVE ta[l] # ta[m]
    BY <1>6
  <2>1. CASE l = n
    BY <1>3, <1>4, <1>5, <1>8, <2>1
  <2>2. CASE m = n
    BY <1>3, <1>4, <1>5, <1>8, <2>2
  <2>3. CASE l \in 1..Len(er) /\ m \in 1..Len(er)
    BY <1>1, <1>3, <1>7, <2>3
  <2> QED
    BY <1>5, <2>1, <2>2, <2>3
<1>10. {ta[m] : m \in DOMAIN ta} = X \cup {q}
  <2>1. {ta[m] : m \in DOMAIN ta} = {at[m] : m \in DOMAIN at} \cup {q}
    <3>1. ASSUME NEW m \in DOMAIN ta
          PROVE  ta[m] \in {at[l] : l \in DOMAIN at} \cup {q}
      BY <1>3, <1>4, <1>5, <1>6, <1>7
    <3>2. ASSUME NEW m \in DOMAIN at  PROVE at[m] \in {ta[l] : l \in DOMAIN ta}
      BY <1>3, <1>6, <1>7
    <3>3. q \in {ta[l] : l \in DOMAIN ta}
      BY <1>4, <1>6
    <3> QED
      BY <3>1, <3>2, <3>3
  <2> QED
    BY <1>1, <2>1
<1>11. \A m \in DOMAIN ta :
          h[m] = <<IF t[ta[m]] \in Strange THEN "?" ELSE ":", LineIn(t, ta[m])>>
  <2> SUFFICES ASSUME NEW m \in 1..n
               PROVE  h[m] = <<IF t[ta[m]] \in Strange THEN "?" ELSE ":", LineIn(t, ta[m])>>
    BY <1>6
  <2>1. CASE m = n
    <3>1. h[m] = x /\ ta[m] = q
      BY <1>2, <1>4, <2>1
    <3> QED
      BY <3>1 DEF x
  <2>2. CASE m \in 1..Len(er)
    <3>1. h[m] = er[m] /\ ta[m] = at[m]
      BY <1>2, <1>3, <2>2
    <3> QED
      BY <1>1, <1>7, <2>2, <3>1
  <2> QED
    BY <1>5, <2>1, <2>2
<1>12. \A l, m \in DOMAIN ta : l < m => LineIn(t, ta[l]) <= LineIn(t, ta[m])
  <2> SUFFICES ASSUME NEW l \in 1..n, NEW m \in 1..n, l < m
               PROVE  LineIn(t, ta[l]) <= LineIn(t, ta[m])
    BY <1>6
  <2>1. l \in 1..Len(er)
    BY <1>5
  <2>2. CASE m = n
    <3>1. ta[l] \in Nat /\ L \in Nat /\ ta[l] <= L
      BY <1>3, <2>1
    <3>2. LineIn(t, ta[l]) <= LineIn(t, L)
      BY <3>1, LinesGrow
    <3> QED
      BY <1>4, <2>2, <3>2
  <2>3. CASE m \in 1..Len(er)
    BY <1>1, <1>3, <1>7, <2>1, <2>3
  <2> QED
    BY <1>5, <2>2, <2>3
<1>13. Tells(t, X \cup {q}, h)
  BY <1>6, <1>9, <1>10, <1>11, <1>12 DEF Tells
<1> QED
  BY <1>13 DEF h, x

\* When one more word is told, only the ":" that is a word by itself is blamed.
LEMMA BlamedWord ==
  ASSUME NEW t \in Seq(Chars), NEW d \in Nat, NEW e \in Nat, d < e, e <= Len(t),
         Starts(t, d + 1), \A j \in (d + 2)..e : ~Starts(t, j),
         NEW er \in Seq(Messages), Blamed(t, d, er)
  PROVE  LET w == SubSeq(t, d + 1, e)
         IN  /\ w # <<":">> => Blamed(t, e, er)
             /\ w = <<":">> /\ (\A j \in (d + 2)..Len(t) : t[j] # "\n")
                => Blamed(t, e, Append(er, <<":", LineIn(t, Len(t))>>))
<1> DEFINE w == SubSeq(t, d + 1, e)
<1>1. w = <<":">> <=> Bare(t, e, d + 1)
  <2>1. d + 1 \in 1..e /\ e \in (d + 1)..e /\ (d + 1) + 1 = d + 2
    OBVIOUS
  <2>2. IsRun(t, e, d + 1, e)
    BY <2>1 DEF IsRun
  <2> QED
    BY <2>1, <2>2, EntryOfRun
<1>2. \A k \in 1..d : Bare(t, e, k) <=> Bare(t, d, k)
  BY BareStays
<1>3. ASSUME NEW k \in 1..e, k > d + 1  PROVE ~Bare(t, e, k)
  <2>1. k \in (d + 2)..e /\ k # 1
    BY <1>3
  <2>2. Joins(t[k - 1], t[k])
    BY <2>1 DEF Starts
  <2>3. t[k] # ":"
    BY <2>2, Kinds DEF Joins, Marks
  <2> QED
    BY <2>3 DEF Bare
<1>4. {k \in 1..e : Bare(t, e, k)}
        = {k \in 1..d : Bare(t, d, k)} \cup (IF w = <<":">> THEN {d + 1} ELSE {})
  <2>1. \A k \in 1..e : k \in 1..d \/ k = d + 1 \/ k > d + 1
    OBVIOUS
  <2>2. \A k \in 1..d : k \in 1..e
    OBVIOUS
  <2>3. d + 1 \in 1..e
    OBVIOUS
  <2> HIDE DEF w
  <2> QED
    BY <1>1, <1>2, <1>3, <2>1, <2>2, <2>3
<1> HIDE DEF w
<1>5. CASE w # <<":">>
  <2>1. Wrong(t, e) = Wrong(t, d)
    BY <1>4, <1>5 DEF Wrong
  <2>2. Blamed(t, e, er)
    BY <2>1 DEF Blamed
  <2> QED
    BY <1>5, <2>2 DEF w
<1>6. CASE w = <<":">> /\ (\A j \in (d + 2)..Len(t) : t[j] # "\n")
  <2>1. Wrong(t, e) = Wrong(t, d) \cup {d + 1}
    BY <1>4, <1>6 DEF Wrong
  <2>2. t[d + 1] = ":"
    BY <1>1, <1>6 DEF Bare
  <2>3. t[d + 1] \notin Strange
    BY <2>2, Kinds DEF Marks
  <2>4. d + 1 \notin Wrong(t, d)
    BY <2>3 DEF Wrong
  <2>5. LineIn(t, d + 1) = LineIn(t, Len(t))
    <3>1. d + 1 \in Nat /\ Len(t) \in Nat /\ d + 1 <= Len(t) /\ (d + 1) + 1 = d + 2
      OBVIOUS
    <3> QED
      BY <1>6, <3>1, LinesGrow
  <2>6. d + 1 \in 1..Len(t)
    OBVIOUS
  <2>7. Tells(t, Wrong(t, d) \cup {d + 1},
              Append(er, <<IF t[d + 1] \in Strange THEN "?" ELSE ":", LineIn(t, Len(t))>>))
    BY <2>4, <2>5, <2>6, NamesMore DEF Blamed
  <2> QED
    BY <1>6, <2>1, <2>3, <2>7 DEF w, Blamed
<1> QED
  BY <1>5, <1>6 DEF w

\* A strange character is blamed when it is read.
LEMMA BlamedStrange ==
  ASSUME NEW t \in Seq(Chars), NEW c \in Chars, c \in Strange, NEW d \in 0..Len(t),
         NEW er \in Seq(Messages), Blamed(t, d, er)
  PROVE  Blamed(Append(t, c), d, Append(er, <<"?", LineIn(t, Len(t))>>))
<1> DEFINE u == Append(t, c)
           q == Len(t) + 1
<1>1. u \in Seq(Chars) /\ Len(t) \in Nat /\ Len(u) = q /\ u[q] = c
  BY Longer
<1>2. LineIn(u, q) = LineIn(t, Len(t))
  <2>1. c # "\n"
    BY Kinds DEF Blanks
  <2> QED
    BY <2>1, LinesLonger
<1>3. Wrong(u, d) = Wrong(t, d) \cup {q}
  BY WrongLonger
<1>4. q \notin Wrong(t, d) /\ q \in 1..Len(u)
  BY <1>1 DEF Wrong
<1>5. Tells(u, Wrong(t, d), er)
  BY NamesLonger DEF Blamed
<1> HIDE DEF u, q
<1>6. Tells(u, Wrong(t, d) \cup {q}, Append(er, <<IF u[q] \in Strange THEN "?" ELSE ":",
                                                  LineIn(u, Len(u))>>))
  BY <1>1, <1>2, <1>4, <1>5, NamesMore
<1>7. Blamed(u, d, Append(er, <<"?", LineIn(t, Len(t))>>))
  BY <1>1, <1>2, <1>3, <1>6 DEF Blamed
<1> QED
  BY <1>7 DEF u

-----------------------------------------------------------------------------
(* The word in temp.                                                       *)

LEMMA OneCharacter ==
  ASSUME NEW w, NEW c, w = <<c>>
  PROVE  Len(w) = 1 /\ w[1] = c /\ w[Len(w)] = c /\ \A i \in 1..Len(w) : w[i] = c
OBVIOUS

\* The characters of a word that is being read.
LEMMA FitsChars ==
  ASSUME NEW w \in Seq(Chars), w # <<>>, NEW s, Fits(w, s)
  PROVE  /\ Len(w) \in Nat \ {0}
         /\ \A i \in 1..Len(w) : w[i] \notin Blanks /\ w[i] \notin Strange
         /\ \/ w[Len(w)] \in {"=", "-", ">", ";"}
            \/ s = 1 /\ w[Len(w)] \in Letters
            \/ s = 3 /\ w[Len(w)] \in Digits
            \/ s = 10 /\ w = <<"<">> /\ w[Len(w)] = "<"
            \/ s = 17 /\ w = <<":">> /\ w[Len(w)] = ":"
<1>1. Len(w) \in Nat \ {0}
  BY EmptySeq
<1>2. CASE s = 1 /\ All(w, Letters)
  <2>1. \A i \in 1..Len(w) : w[i] \in Letters
    BY <1>2 DEF All
  <2>2. w[Len(w)] \in Letters
    BY <1>1, <2>1
  <2> QED
    BY <1>1, <1>2, <2>1, <2>2, Kinds
<1>3. CASE s = 3 /\ All(w, Digits)
  <2>1. \A i \in 1..Len(w) : w[i] \in Digits
    BY <1>3 DEF All
  <2>2. w[Len(w)] \in Digits
    BY <1>1, <2>1
  <2> QED
    BY <1>1, <1>3, <2>1, <2>2, Kinds
<1>4. ASSUME NEW c \in {"=", "-", "<", ":", ";"}, w = <<c>>
      PROVE  /\ \A i \in 1..Len(w) : w[i] \notin Blanks /\ w[i] \notin Strange
             /\ w[Len(w)] = c
  <2>1. c \notin Blanks /\ c \notin Strange
    BY Kinds DEF Marks, Blanks
  <2>2. w[Len(w)] = c /\ \A i \in 1..Len(w) : w[i] = c
    BY <1>4, OneCharacter
  <2> QED
    BY <2>1, <2>2, Zenon
<1>5. CASE s = 5 /\ w = <<"=">>
  BY <1>4, <1>5
<1>6. CASE s = 6 /\ w = <<"-">>
  BY <1>4, <1>6
<1>7. CASE s = 10 /\ w = <<"<">>
  BY <1>4, <1>7
<1>8. CASE s = 12 /\ w = <<"<", ">">>
  <2>1. Len(w) = 2 /\ w[1] = "<" /\ w[2] = ">"
    BY <1>8
  <2>2. \A i \in 1..2 : w[i] \in {"<", ">"}
    BY <2>1
  <2>3. {"<", ">"} \cap (Blanks \cup Strange) = {}
    BY Kinds DEF Marks, Blanks
  <2> QED
    BY <2>1, <2>2, <2>3
<1>9. CASE s = 17 /\ w = <<":">>
  BY <1>4, <1>9
<1>10. CASE s = 20 /\ w = <<";">>
  <2>1. ";" \in {"=", "-", "<", ":", ";"}
    BY Zenon
  <2>2. /\ \A i \in 1..Len(w) : w[i] \notin Blanks /\ w[i] \notin Strange
        /\ w[Len(w)] = ";"
    BY <1>4, <1>10, <2>1, Zenon
  <2> QED
    BY <1>1, <2>2, Zenon
<1> QED
  BY <1>1, <1>2, <1>3, <1>5, <1>6, <1>7, <1>8, <1>9, <1>10 DEF Fits

\* end_word enters the word in temp as it should be, or complains when it is a bare ":".
LEMMA EndedWord ==
  ASSUME temp \in Seq(Chars), temp # <<>>, Fits(temp, state), line \in Nat
  PROVE  /\ Ended = IF HasEntry(temp) THEN <<Entry(temp)>> ELSE <<>>
         /\ HasEntry(temp) => Entry(temp) \in Entries
         /\ Complaint = IF temp = <<":">> THEN <<<<":", line>>>> ELSE <<>>
<1>1. Len(temp) \in Nat \ {0} /\ temp[1] \notin Blanks /\ temp[1] \notin Strange
  <2>1. Len(temp) \in Nat \ {0}
        /\ \A i \in 1..Len(temp) : temp[i] \notin Blanks /\ temp[i] \notin Strange
    BY FitsChars
  <2> QED
    BY <2>1
<1>2. temp # <<"\n">> /\ temp[1] \notin Strange \cup {" "}
  <2>1. temp[1] # "\n" /\ temp[1] # " "
    BY <1>1 DEF Blanks
  <2>2. ASSUME temp = <<"\n">>  PROVE temp[1] = "\n"
    BY <2>2
  <2> QED
    BY <1>1, <2>1, <2>2
<1>3. HasEntry(temp) <=> temp # <<":">>
  BY <1>2 DEF HasEntry
<1>4. Entry(temp) = IF temp[1] \in Digits THEN <<temp, Constants>> ELSE Coded(temp, Token)
  BY <1>2 DEF Entry
<1>5. Coded(temp, Token) \in Entries /\ <<temp, Constants>> \in Entries
  <2>1. (IF temp \in DOMAIN ItemDict THEN ItemDict[temp] ELSE Token) \in Nat
    <3>1. \A w \in DOMAIN ItemDict : ItemDict[w] \in Nat
      BY DEF ItemDict
    <3> QED
      BY <3>1 DEF Token
  <2> QED
    BY <2>1 DEF Entries, Coded, Constants
<1>6. CASE state = 1 /\ All(temp, Letters)
  <2>1. temp[1] \in Letters
    BY <1>1, <1>6 DEF All
  <2>2. temp[1] \notin Digits /\ temp[1] # ":"
    BY <2>1, Kinds DEF Marks
  <2>3. temp # <<":">>
    <3>1. ASSUME temp = <<":">>  PROVE temp[1] = ":"
      BY <3>1
    <3> QED
      BY <2>2, <3>1
  <2> QED
    BY <1>3, <1>4, <1>5, <1>6, <2>2, <2>3 DEF Ended, Complaint
<1>7. CASE state = 3 /\ All(temp, Digits)
  <2>1. temp[1] \in Digits
    BY <1>1, <1>7 DEF All
  <2>2. temp[1] # ":"
    BY <2>1, Kinds DEF Marks
  <2>3. temp # <<":">>
    <3>1. ASSUME temp = <<":">>  PROVE temp[1] = ":"
      BY <3>1
    <3> QED
      BY <2>2, <3>1
  <2> QED
    BY <1>3, <1>4, <1>5, <1>7, <2>1, <2>3 DEF Ended, Complaint
<1>8. ASSUME state \notin {1, 3}, temp[1] \notin Digits, temp # <<":">>, temp \in DOMAIN ItemDict
      PROVE  /\ Ended = IF HasEntry(temp) THEN <<Entry(temp)>> ELSE <<>>
             /\ HasEntry(temp) => Entry(temp) \in Entries
             /\ Complaint = IF temp = <<":">> THEN <<<<":", line>>>> ELSE <<>>
  BY <1>3, <1>4, <1>5, <1>8 DEF Ended, Complaint
<1>9. ASSUME NEW c \in {"=", "-", "<", ";"}, temp = <<c>>
      PROVE  temp[1] \notin Digits /\ temp # <<":">> /\ temp \in DOMAIN ItemDict
  <2>1. temp[1] = c
    BY <1>9
  <2>2. c \notin Digits /\ c # ":"
    BY Kinds DEF Marks
  <2>3. temp # <<":">>
    <3>1. ASSUME temp = <<":">>  PROVE temp[1] = ":"
      BY <3>1
    <3> QED
      BY <2>1, <2>2, <3>1
  <2>4. temp \in DOMAIN ItemDict
    BY <1>9, DictMembers
  <2> QED
    BY <2>1, <2>2, <2>3, <2>4
<1>10. CASE state = 5 /\ temp = <<"=">>
  BY <1>8, <1>9, <1>10
<1>11. CASE state = 6 /\ temp = <<"-">>
  BY <1>8, <1>9, <1>11
<1>12. CASE state = 10 /\ temp = <<"<">>
  BY <1>8, <1>9, <1>12
<1>13. CASE state = 12 /\ temp = <<"<", ">">>
  <2>1. Len(temp) = 2 /\ temp[1] = "<"
    BY <1>13
  <2>2. temp[1] \notin Digits
    BY <2>1, Kinds DEF Marks
  <2>3. ASSUME temp = <<":">>  PROVE Len(temp) = 1
    BY <2>3
  <2>4. temp \in DOMAIN ItemDict
    BY <1>13, DictMembers
  <2> QED
    BY <1>8, <1>13, <2>1, <2>2, <2>3, <2>4
<1>14. CASE state = 17 /\ temp = <<":">>
  <2>1. Len(temp) = 1 /\ temp[1] = ":"
    BY <1>14
  <2>2. temp \notin DOMAIN ItemDict
    <3> SUFFICES ASSUME temp \in DOMAIN ItemDict  PROVE FALSE
      OBVIOUS
    <3>1. temp[1] \in {"=", "<", ">", "-", ";"}
      BY <2>1, DictWords
    <3> QED
      BY <2>1, <3>1
  <2> QED
    BY <1>3, <1>14, <2>2 DEF Ended, Complaint
<1>15. CASE state = 20 /\ temp = <<";">>
  <2>1. state \notin {1, 3}
    <3>1. state = 20
      BY <1>15, Zenon
    <3> QED
      BY ONLY <3>1
  <2>2. temp[1] \notin Digits /\ temp # <<":">> /\ temp \in DOMAIN ItemDict
    BY <1>9, <1>15, Zenon
  <2> QED
    BY <1>8, <2>1, <2>2
<1> QED
  BY <1>6, <1>7, <1>10, <1>11, <1>12, <1>13, <1>14, <1>15 DEF Fits

\* A strange character is a word by itself that begins and ends where it stands.
LEMMA ToldStrange ==
  ASSUME NEW t \in Seq(Chars), t # <<>>, t[Len(t)] \in Strange, NEW g \in Seq(Entries),
         NEW er \in Seq(Messages), Told(t, Len(t) - 1, g), Blamed(t, Len(t) - 1, er)
  PROVE  Told(t, Len(t), g) /\ Blamed(t, Len(t), er)
<1> DEFINE L == Len(t)
           w == SubSeq(t, (L - 1) + 1, L)
<1>1. L \in Nat \ {0} /\ (L - 1) + 1 = L /\ L - 1 \in Nat /\ L - 1 < L
  BY EmptySeq
<1>2. Starts(t, (L - 1) + 1)
  <2>1. ~Joins(t[L - 1], t[L])
    BY JoinsKinds
  <2> QED
    BY <1>1, <2>1 DEF Starts
<1>3. \A j \in ((L - 1) + 2)..L : ~Starts(t, j)
  BY <1>1
<1>4. w[1] = t[L]
  <2>1. L \in 1..Len(t) /\ L \in L..Len(t)
    BY <1>1
  <2>2. SubSeq(t, L, L)[1] = t[L]
    BY <2>1, Cuts
  <2> QED
    BY <1>1, <2>2
<1>5. ~HasEntry(w)
  BY <1>4 DEF HasEntry
<1>6. w # <<":">>
  <2> HIDE DEF w
  <2>1. ASSUME w = <<":">>  PROVE w[1] = ":"
    BY <2>1
  <2>2. ":" \notin Strange
    BY Kinds DEF Marks
  <2> QED
    BY <1>4, <2>1, <2>2
<1> HIDE DEF L
<1>7. L <= Len(t)
  BY <1>1 DEF L
<1>8. Told(t, L - 1, g) /\ Blamed(t, L - 1, er)
  BY DEF L
<1>9. IF HasEntry(w) THEN Told(t, L, Append(g, Entry(w))) ELSE Told(t, L, g)
  BY <1>1, <1>2, <1>3, <1>7, <1>8, ToldWord
<1>10. w # <<":">> => Blamed(t, L, er)
  BY <1>1, <1>2, <1>3, <1>7, <1>8, BlamedWord
<1> QED
  BY <1>5, <1>6, <1>9, <1>10 DEF L

\* When end_word is called, what it adds tells the whole of the text.
LEMMA EndWordTells ==
  ASSUME LexType, Scan(text, temp, state, target, error, line)
  PROVE  /\ target \o Ended \in Seq(Entries) /\ error \o Complaint \in Seq(Messages)
         /\ Told(text, Len(text), target \o Ended)
         /\ Blamed(text, Len(text), error \o Complaint)
<1>1. PICK d \in 0..Len(text) :
         Held(text, temp, state, d) /\ Told(text, d, target) /\ Blamed(text, d, error)
  BY DEF Scan
<1>2. line = LineIn(text, Len(text)) /\ line \in Nat
  BY DEF Scan, LexType
<1>3. /\ text \in Seq(Chars) /\ temp \in Seq(Chars) /\ target \in Seq(Entries)
      /\ error \in Seq(Messages) /\ Len(text) \in Nat
  BY LenProperties DEF LexType
<1>4. CASE temp = <<>>
  <2>1. d = Len(text)
    BY <1>1, <1>4 DEF Held
  <2>2. Ended = <<>> /\ Complaint = <<>>
    BY <1>4 DEF Ended, Complaint
  <2>3. target \o <<>> = target /\ error \o <<>> = error
    BY <1>3, ConcatEmptySeq
  <2> QED
    BY <1>1, <1>3, <2>1, <2>2, <2>3
<1>5. CASE temp # <<>>
  <2>1. Waiting(text, temp, d) /\ Fits(temp, state)
    BY <1>1, <1>5 DEF Held
  <2> DEFINE e == d + Len(temp)
  <2>2. Len(temp) \in Nat \ {0}
        /\ \A i \in 1..Len(temp) : temp[i] \notin Blanks /\ temp[i] \notin Strange
    BY <1>3, <1>5, <2>1, FitsChars
  <2>3. /\ d \in Nat /\ e \in Nat /\ d < e /\ e <= Len(text)
        /\ e = Len(text) \/ (e = Len(text) - 1 /\ text[Len(text)] \in Strange)
        /\ temp = SubSeq(text, d + 1, e)
        /\ Starts(text, d + 1) /\ \A j \in (d + 2)..e : ~Starts(text, j)
    BY <1>3, <2>1, <2>2 DEF Waiting
  <2>4. \A j \in (d + 2)..Len(text) : text[j] # "\n"
    <3> TAKE j \in (d + 2)..Len(text)
    <3>1. CASE j = Len(text) /\ text[Len(text)] \in Strange
      BY <3>1, Kinds DEF Blanks
    <3>2. CASE j <= e
      <4>1. d + 1 \in 1..Len(text) /\ e \in (d + 1)..Len(text)
        BY <1>3, <2>3
      <4>2. j - d \in 1..((e - (d + 1)) + 1) /\ ((d + 1) + (j - d)) - 1 = j
        BY <2>3, <3>2
      <4>3. temp[j - d] = text[j] /\ Len(temp) = (e - (d + 1)) + 1
        BY <1>3, <2>3, <4>1, <4>2, Cuts
      <4> QED
        BY <2>2, <4>2, <4>3 DEF Blanks
    <3>3. j = Len(text) \/ j <= e
      BY <1>3, <2>3
    <3> QED
      BY <2>3, <3>1, <3>2, <3>3
  <2>5. /\ Ended = IF HasEntry(temp) THEN <<Entry(temp)>> ELSE <<>>
        /\ HasEntry(temp) => Entry(temp) \in Entries
        /\ Complaint = IF temp = <<":">> THEN <<<<":", line>>>> ELSE <<>>
    BY <1>2, <1>3, <1>5, <2>1, EndedWord
  <2> HIDE DEF e
  <2>6. target \o Ended \in Seq(Entries) /\ Told(text, e, target \o Ended)
    <3>1. CASE HasEntry(temp)
      <4>1. target \o Ended = Append(target, Entry(temp))
        BY <1>3, <2>5, <3>1, AppendIsConcat
      <4>2. Told(text, e, Append(target, Entry(temp)))
        BY <1>1, <1>3, <2>3, <3>1, ToldWord
      <4>3. Append(target, Entry(temp)) \in Seq(Entries)
        BY <1>3, <2>5, <3>1, AppendProperties
      <4> QED
        BY <4>1, <4>2, <4>3
    <3>2. CASE ~HasEntry(temp)
      <4>1. target \o Ended = target
        BY <1>3, <2>5, <3>2, ConcatEmptySeq
      <4>2. Told(text, e, target)
        BY <1>1, <1>3, <2>3, <3>2, ToldWord
      <4> QED
        BY <1>3, <4>1, <4>2
    <3> QED
      BY <3>1, <3>2
  <2>7. error \o Complaint \in Seq(Messages) /\ Blamed(text, e, error \o Complaint)
    <3>1. CASE temp = <<":">>
      <4>0. <<":", line>> \in Messages
        BY <1>2 DEF Messages
      <4>1. error \o Complaint = Append(error, <<":", line>>)
        BY <1>3, <2>5, <3>1, <4>0, AppendIsConcat
      <4>2. Blamed(text, e, Append(error, <<":", line>>))
        BY <1>1, <1>2, <1>3, <2>3, <2>4, <3>1, BlamedWord
      <4>3. Append(error, <<":", line>>) \in Seq(Messages)
        BY <1>3, <4>0, AppendProperties
      <4> QED
        BY <4>1, <4>2, <4>3
    <3>2. CASE temp # <<":">>
      <4>1. error \o Complaint = error
        BY <1>3, <2>5, <3>2, ConcatEmptySeq
      <4>2. Blamed(text, e, error)
        BY <1>1, <1>3, <2>3, <3>2, BlamedWord
      <4> QED
        BY <1>3, <4>1, <4>2
    <3> QED
      BY <3>1, <3>2
  <2>8. CASE e = Len(text)
    BY <2>6, <2>7, <2>8
  <2>9. CASE e = Len(text) - 1 /\ text[Len(text)] \in Strange
    <3>1. text # <<>>
      BY <1>3, <2>3, EmptySeq
    <3> QED
      BY <1>3, <2>6, <2>7, <2>9, <3>1, ToldStrange
  <2> QED
    BY <2>3, <2>8, <2>9
<1> QED
  BY <1>4, <1>5

-----------------------------------------------------------------------------
(* One character more.                                                     *)

\* What was read of a plain text is plain.
LEMMA PlainBefore ==
  ASSUME NEW t \in Seq(Chars), NEW c \in Chars, PlainText(Append(t, c))
  PROVE  PlainText(t)
<1> DEFINE u == Append(t, c)
           L == Len(t)
<1>1. L \in Nat /\ Len(u) = L + 1 /\ (\A i \in 1..L : u[i] = t[i]) /\ u[L + 1] = c
  BY Longer
<1> HIDE DEF u
<1>2. PlainText(u)
  BY DEF u
<1>3. ASSUME NEW k \in 1..L
      PROVE  /\ t[k] = ">" => k > 1 /\ t[k - 1] = "<"
             /\ t[k] \in Digits => k = 1 \/ t[k - 1] \notin Letters
             /\ t[k] \in Strange => \/ k = 1 \/ k = L
                                    \/ t[k - 1] \in Blanks \/ t[k + 1] \in Blanks
  <2>1. k \in 1..Len(u) /\ u[k] = t[k] /\ (k > 1 => u[k - 1] = t[k - 1])
        /\ (k < L => u[k + 1] = t[k + 1]) /\ k # Len(u)
    BY <1>1
  <2>2. /\ u[k] = ">" => k > 1 /\ u[k - 1] = "<"
        /\ u[k] \in Digits => k = 1 \/ u[k - 1] \notin Letters
        /\ u[k] \in Strange => \/ k = 1 \/ k = Len(u)
                               \/ u[k - 1] \in Blanks \/ u[k + 1] \in Blanks
    BY <1>2, <2>1 DEF PlainText
  <2>3. k > 1 \/ k = 1
    OBVIOUS
  <2>4. k < L \/ k = L
    BY <1>1
  <2> QED
    BY <2>1, <2>2, <2>3, <2>4
<1> QED
  BY <1>3 DEF PlainText

\* What state knows of the last character.
LEMMA LastRead ==
  ASSUME NEW t \in Seq(Chars), t # <<>>, NEW w \in Seq(Chars), NEW s, NEW d \in 0..Len(t),
         Held(t, w, s, d)
  PROVE  LET a == t[Len(t)]
         IN  \/ a \in Strange \/ a \in Blanks \/ a \in {"=", "-", ">", ";"}
             \/ s = 1 /\ a \in Letters
             \/ s = 3 /\ a \in Digits
             \/ s = 10 /\ a = "<"
             \/ s = 17 /\ a = ":"
<1>1. CASE w = <<>>
  <2>1. t[Len(t)] \in Strange \cup Blanks \cup {"="}
    BY <1>1 DEF Held
  <2> QED
    BY <2>1, Zenon
<1>2. CASE w # <<>>
  <2>1. Waiting(t, w, d) /\ Fits(w, s)
    BY <1>2 DEF Held
  <2>2. CASE t[Len(t)] \in Strange
    BY <2>2
  <2>3. CASE d + Len(w) = Len(t)
    <3>1. Len(w) \in Nat \ {0} /\ Len(t) \in Nat
      BY <1>2, EmptySeq, LenProperties
    <3>2. w = SubSeq(t, d + 1, Len(t))
      BY <2>1, <2>3 DEF Waiting
    <3>3. d + 1 \in 1..Len(t) /\ Len(t) \in (d + 1)..Len(t)
      BY <2>3, <3>1
    <3>4. \A i \in 1..((Len(t) - (d + 1)) + 1) :
             SubSeq(t, d + 1, Len(t))[i] = t[((d + 1) + i) - 1]
      BY <3>3, Cuts
    <3>5. Len(w) \in 1..((Len(t) - (d + 1)) + 1) /\ ((d + 1) + Len(w)) - 1 = Len(t)
      BY <2>3, <3>1
    <3>6. w[Len(w)] = t[Len(t)]
      BY <3>2, <3>4, <3>5
    <3>7. \/ w[Len(w)] \in {"=", "-", ">", ";"}
          \/ s = 1 /\ w[Len(w)] \in Letters
          \/ s = 3 /\ w[Len(w)] \in Digits
          \/ s = 10 /\ w = <<"<">> /\ w[Len(w)] = "<"
          \/ s = 17 /\ w = <<":">> /\ w[Len(w)] = ":"
      BY <1>2, <2>1, FitsChars
    <3> QED
      BY <3>6, <3>7, Zenon
  <2>4. d + Len(w) = Len(t) \/ t[Len(t)] \in Strange
    BY <2>1 DEF Waiting
  <2> QED
    BY <2>2, <2>3, <2>4
<1> QED
  BY <1>1, <1>2

\* A character that does not go on with the word in temp begins another.
LEMMA StartsNew ==
  ASSUME NEW t \in Seq(Chars), NEW w \in Seq(Chars), NEW s, NEW d \in 0..Len(t),
         Held(t, w, s, d), NEW c \in Chars,
         c \in Letters => s # 1, c \in Digits => s # 3,
         c = "=" => s # 10 /\ s # 17, c = ">" => s # 10
  PROVE  Starts(Append(t, c), Len(t) + 1)
<1> DEFINE u == Append(t, c)
           L == Len(t)
<1>1. L \in Nat /\ (\A i \in 1..L : u[i] = t[i]) /\ u[L + 1] = c
  BY Longer
<1> HIDE DEF u
<1>2. CASE t = <<>>
  <2>1. L = 0
    BY <1>2, EmptySeq
  <2> QED
    BY <2>1 DEF Starts
<1>3. CASE t # <<>>
  <2>1. L \in 1..L /\ L + 1 # 1 /\ (L + 1) - 1 = L
    BY <1>3, EmptySeq
  <2>2. u[L] = t[L]
    BY <1>1, <2>1
  <2>3. \/ t[L] \in Strange \/ t[L] \in Blanks \/ t[L] \in {"=", "-", ">", ";"}
        \/ s = 1 /\ t[L] \in Letters
        \/ s = 3 /\ t[L] \in Digits
        \/ s = 10 /\ t[L] = "<"
        \/ s = 17 /\ t[L] = ":"
    BY <1>3, LastRead
  <2>4. ASSUME Joins(t[L], c)  PROVE FALSE
    <3>1. /\ t[L] \in Letters => c \in Letters
          /\ t[L] \in Digits => c \in Digits
          /\ t[L] = "<" => c \in {">", "="}
          /\ t[L] = ":" => c = "="
          /\ t[L] \in Letters \cup Digits \cup {"<", ":"}
      BY <2>4, JoinsKinds
    <3>2. t[L] \notin Strange /\ t[L] \notin Blanks
      BY <3>1, Kinds DEF Marks, Blanks
    <3>3. t[L] \notin {"=", "-", ">", ";"}
      BY <3>1, Kinds DEF Marks
    <3> QED
      BY <2>3, <3>1, <3>2, <3>3, Zenon
  <2>5. Starts(u, L + 1)
    BY <1>1, <2>1, <2>2, <2>4 DEF Starts
  <2> QED
    BY <2>5 DEF u
<1> QED
  BY <1>2, <1>3 DEF u

\* A cut of one character.
LEMMA CutOfOne ==
  ASSUME NEW t \in Seq(Chars), NEW c \in Chars
  PROVE  SubSeq(Append(t, c), Len(t) + 1, Len(t) + 1) = <<c>>
<1> DEFINE u == Append(t, c)
           L == Len(t)
<1>1. u \in Seq(Chars) /\ L \in Nat /\ Len(u) = L + 1 /\ u[L + 1] = c
  BY Longer
<1> HIDE DEF u, L
<1>2. L + 1 \in 1..Len(u) /\ L + 1 \in (L + 1)..Len(u)
  BY <1>1
<1>3. /\ SubSeq(u, L + 1, L + 1) \in Seq(Chars)
      /\ Len(SubSeq(u, L + 1, L + 1)) = ((L + 1) - (L + 1)) + 1
      /\ SubSeq(u, L + 1, L + 1)[1] = u[L + 1]
  BY <1>1, <1>2, Cuts
<1>4. ((L + 1) - (L + 1)) + 1 = 1
  BY <1>1
<1>5. SubSeq(u, L + 1, L + 1) = <<c>>
  BY <1>1, <1>3, <1>4, ShortLists
<1> QED
  BY <1>5 DEF u, L

\* When all is told, a character begins a word.
LEMMA BeginsWord ==
  ASSUME NEW t \in Seq(Chars), NEW c \in Chars, c \notin Strange, c # "\n",
         NEW g, NEW er, Told(t, Len(t), g), Blamed(t, Len(t), er),
         Starts(Append(t, c), Len(t) + 1), NEW s, Fits(<<c>>, s)
  PROVE  Scan(Append(t, c), <<c>>, s, g, er, LineIn(t, Len(t)))
<1> DEFINE u == Append(t, c)
           L == Len(t)
<1>1. u \in Seq(Chars) /\ L \in Nat /\ Len(u) = L + 1 /\ u[L + 1] = c
  BY Longer
<1>2. Told(u, L, g) /\ Blamed(u, L, er)
  <2>1. L \in 0..Len(t)
    BY <1>1
  <2> QED
    BY <2>1, ToldLonger, BlamedLonger
<1>3. LineIn(t, L) = LineIn(u, Len(u))
  BY <1>1, LinesLonger
<1>4. Starts(u, L + 1)
  OBVIOUS
<1>5. <<c>> = SubSeq(u, L + 1, L + 1)
  BY CutOfOne
<1> HIDE DEF u, L
<1>6. Waiting(u, <<c>>, L)
  <2>1. Len(<<c>>) = 1
    OBVIOUS
  <2>2. \A j \in (L + 2)..(L + 1) : ~Starts(u, j)
    BY <1>1
  <2> QED
    BY <1>1, <1>4, <1>5, <2>1, <2>2 DEF Waiting
<1>7. <<c>> # <<>>
  OBVIOUS
<1>8. Held(u, <<c>>, s, L)
  BY <1>6, <1>7 DEF Held
<1>9. L \in 0..Len(u)
  BY <1>1
<1>10. Scan(u, <<c>>, s, g, er, LineIn(t, L))
  BY <1>2, <1>3, <1>8, <1>9 DEF Scan
<1> QED
  BY <1>10 DEF u, L

\* A character that ends its word at once.
LEMMA EndsWord ==
  ASSUME NEW t \in Seq(Chars), NEW c \in Blanks \cup {"="}, NEW d \in 0..Len(t),
         NEW g \in Seq(Entries), NEW er \in Seq(Messages), Told(t, d, g), Blamed(t, d, er),
         Starts(Append(t, c), d + 1),
         \A j \in (d + 2)..(Len(t) + 1) : ~Starts(Append(t, c), j)
  PROVE  LET u == Append(t, c)
             w == SubSeq(u, d + 1, Len(t) + 1)
             h == IF HasEntry(w) THEN Append(g, Entry(w)) ELSE g
         IN  Scan(u, <<>>, 0, h, er, LineIn(u, Len(t) + 1))
<1> DEFINE u == Append(t, c)
           L == Len(t)
           w == SubSeq(u, d + 1, L + 1)
           h == IF HasEntry(w) THEN Append(g, Entry(w)) ELSE g
<1>0. c \in Chars /\ c \notin Strange /\ c # ":"
  BY Kinds DEF Chars, Marks, Blanks
<1>1. u \in Seq(Chars) /\ L \in Nat /\ Len(u) = L + 1 /\ u[L + 1] = c
  BY <1>0, Longer
<1>2. Told(u, d, g) /\ Blamed(u, d, er)
  BY <1>0, ToldLonger, BlamedLonger
<1>3. Starts(u, d + 1) /\ \A j \in (d + 2)..(L + 1) : ~Starts(u, j)
  OBVIOUS
<1> HIDE DEF u, L
<1>4. d \in Nat /\ L + 1 \in Nat /\ d < L + 1 /\ L + 1 <= Len(u)
  BY <1>1 DEF L
<1>5. w # <<":">>
  <2>1. d + 1 \in 1..Len(u) /\ L + 1 \in (d + 1)..Len(u)
    BY <1>1, <1>4
  <2>2. /\ Len(w) = ((L + 1) - (d + 1)) + 1
        /\ \A i \in 1..(((L + 1) - (d + 1)) + 1) : w[i] = u[((d + 1) + i) - 1]
    BY <1>1, <2>1, Cuts
  <2> HIDE DEF w
  <2>3. Len(w) \in 1..(((L + 1) - (d + 1)) + 1) /\ ((d + 1) + Len(w)) - 1 = L + 1
    <3> DEFINE n == Len(w)
    <3>1. d \in Nat /\ L \in Nat /\ d < L + 1 /\ n = ((L + 1) - (d + 1)) + 1
      BY <1>1, <1>4, <2>2
    <3> HIDE DEF n
    <3>2. n \in 1..(((L + 1) - (d + 1)) + 1) /\ ((d + 1) + n) - 1 = L + 1
      BY ONLY <3>1
    <3> QED
      BY <3>2 DEF n
  <2>4. w[Len(w)] = c
    BY <1>1, <2>2, <2>3
  <2>5. ASSUME w = <<":">>  PROVE w[Len(w)] = ":"
    BY <2>5, OneCharacter
  <2> QED
    BY <1>0, <2>4, <2>5
<1>6. Told(u, L + 1, h)
  BY <1>1, <1>2, <1>3, <1>4, ToldWord
<1>7. Blamed(u, L + 1, er)
  BY <1>1, <1>2, <1>3, <1>4, <1>5, BlamedWord
<1> HIDE DEF h
<1>8. Held(u, <<>>, 0, L + 1)
  <2>1. u[Len(u)] \in Strange \cup Blanks \cup {"="}
    BY <1>1
  <2> QED
    BY <1>1, <2>1 DEF Held
<1>9. L + 1 \in 0..Len(u)
  BY <1>1
<1>10. Scan(u, <<>>, 0, h, er, LineIn(u, L + 1))
  BY <1>1, <1>6, <1>7, <1>8, <1>9 DEF Scan
<1> QED
  BY <1>10 DEF u, L, h, w

\* A character that is a word by itself when all before it is told.
LEMMA EndsAlone ==
  ASSUME NEW t \in Seq(Chars), NEW c \in Blanks \cup {"="},
         NEW g \in Seq(Entries), NEW er \in Seq(Messages),
         Told(t, Len(t), g), Blamed(t, Len(t), er), Starts(Append(t, c), Len(t) + 1)
  PROVE  LET h == IF HasEntry(<<c>>) THEN Append(g, Entry(<<c>>)) ELSE g
         IN  Scan(Append(t, c), <<>>, 0, h, er, LineIn(Append(t, c), Len(t) + 1))
<1>1. Len(t) \in Nat /\ Len(t) \in 0..Len(t)
  BY LenProperties
<1>2. c \in Chars
  BY DEF Chars, Marks
<1>3. \A j \in (Len(t) + 2)..(Len(t) + 1) : ~Starts(Append(t, c), j)
  BY <1>1
<1>4. SubSeq(Append(t, c), Len(t) + 1, Len(t) + 1) = <<c>>
  BY <1>2, CutOfOne
<1>5. LET u == Append(t, c)
          w == SubSeq(u, Len(t) + 1, Len(t) + 1)
          h == IF HasEntry(w) THEN Append(g, Entry(w)) ELSE g
      IN  Scan(u, <<>>, 0, h, er, LineIn(u, Len(t) + 1))
  BY <1>1, <1>3, EndsWord
<1> QED
  BY <1>4, <1>5

\* A word that is being read is directly before a character that is not blank.
LEMMA NothingBetween ==
  ASSUME NEW t \in Seq(Chars), NEW w \in Seq(Chars), w # <<>>, NEW s, NEW d \in 0..Len(t),
         Held(t, w, s, d), NEW c \in Chars, c \notin Blanks, PlainText(Append(t, c))
  PROVE  Waiting(t, w, d) /\ Fits(w, s) /\ d + Len(w) = Len(t)
<1> DEFINE u == Append(t, c)
           L == Len(t)
<1>1. L \in Nat /\ Len(u) = L + 1 /\ (\A i \in 1..L : u[i] = t[i]) /\ u[L + 1] = c
  BY Longer
<1> HIDE DEF u
<1>2. Waiting(t, w, d) /\ Fits(w, s)
  BY DEF Held
<1>3. Len(w) \in Nat \ {0} /\ \A i \in 1..Len(w) : w[i] \notin Blanks
  BY <1>2, FitsChars
<1>4. ASSUME d + Len(w) = L - 1, t[L] \in Strange  PROVE FALSE
  <2>1. L \in 1..Len(u) /\ L # 1 /\ L # Len(u) /\ L - 1 \in 1..L /\ L \in 1..L
    BY <1>1, <1>3, <1>4
  <2>2. u[L] = t[L] /\ u[L - 1] = t[L - 1] /\ u[L + 1] = c
    BY <1>1, <2>1
  <2>3. u[L - 1] \in Blanks \/ u[L + 1] \in Blanks
    <3>1. PlainText(u)
      BY DEF u
    <3> QED
      BY <1>4, <2>1, <2>2, <3>1 DEF PlainText
  <2>4. w[Len(w)] = t[L - 1]
    <3>1. w = SubSeq(t, d + 1, L - 1)
      BY <1>2, <1>4 DEF Waiting
    <3>2. d + 1 \in 1..Len(t) /\ L - 1 \in (d + 1)..Len(t)
      BY <1>1, <1>3, <1>4
    <3>3. \A i \in 1..(((L - 1) - (d + 1)) + 1) :
             SubSeq(t, d + 1, L - 1)[i] = t[((d + 1) + i) - 1]
      BY <3>2, Cuts
    <3>4. Len(w) \in 1..(((L - 1) - (d + 1)) + 1) /\ ((d + 1) + Len(w)) - 1 = L - 1
      BY <1>1, <1>3, <1>4
    <3> QED
      BY <3>1, <3>3, <3>4
  <2>5. w[Len(w)] \notin Blanks
    BY <1>3
  <2> QED
    BY <2>2, <2>3, <2>4, <2>5
<1> QED
  BY <1>2, <1>4 DEF Waiting

\* A cut that ends with the last character.
LEMMA CutLonger ==
  ASSUME NEW t \in Seq(Chars), NEW c \in Chars, NEW d \in 0..(Len(t) - 1), NEW w,
         w = SubSeq(t, d + 1, Len(t))
  PROVE  Append(w, c) = SubSeq(Append(t, c), d + 1, Len(t) + 1)
<1> DEFINE u == Append(t, c)
           L == Len(t)
<1>1. /\ u \in Seq(Chars) /\ L \in Nat /\ Len(u) = L + 1 /\ u[L + 1] = c
      /\ \A k, e \in 1..L : SubSeq(u, k, e) = SubSeq(t, k, e)
  BY Longer
<1>2. d + 1 \in 1..L /\ L \in 1..L /\ L \in (d + 1)..L
  BY <1>1
<1>3. w \in Seq(Chars) /\ w = SubSeq(u, d + 1, L)
  BY <1>1, <1>2, Cuts
<1> HIDE DEF u
<1>4. SubSeq(u, d + 1, L + 1) = SubSeq(u, d + 1, (L + 1) - 1) \o <<u[L + 1]>>
  <2>1. d + 1 \in 1..Len(u) /\ L + 1 \in (d + 1)..Len(u)
    BY <1>1, <1>2
  <2> QED
    BY <1>1, <2>1, SubSeqRecursiveSecond
<1>5. (L + 1) - 1 = L
  BY <1>1
<1>6. SubSeq(u, d + 1, L + 1) = w \o <<c>>
  BY <1>1, <1>3, <1>4, <1>5
<1>7. Append(w, c) = w \o <<c>>
  BY <1>3, AppendIsConcat
<1> QED
  BY <1>6, <1>7 DEF u

\* A character that goes on with the word in temp.
LEMMA GoesOn ==
  ASSUME NEW t \in Seq(Chars), NEW c \in Chars, c \notin Strange, c # "\n",
         NEW w \in Seq(Chars), w # <<>>, NEW d \in 0..Len(t), Waiting(t, w, d),
         d + Len(w) = Len(t), Joins(t[Len(t)], c),
         NEW g, NEW er, Told(t, d, g), Blamed(t, d, er), NEW s, Fits(Append(w, c), s)
  PROVE  Scan(Append(t, c), Append(w, c), s, g, er, LineIn(t, Len(t)))
<1> DEFINE u == Append(t, c)
           L == Len(t)
           v == Append(w, c)
<1>1. /\ u \in Seq(Chars) /\ L \in Nat /\ Len(u) = L + 1 /\ u[L + 1] = c
      /\ (\A i \in 1..L : u[i] = t[i]) /\ \A k \in 1..L : Starts(u, k) <=> Starts(t, k)
  BY Longer
<1>2. Told(u, d, g) /\ Blamed(u, d, er)
  BY ToldLonger, BlamedLonger
<1>3. LineIn(t, L) = LineIn(u, Len(u))
  BY <1>1, LinesLonger
<1>4. /\ w = SubSeq(t, d + 1, L) /\ Starts(t, d + 1) /\ (\A j \in (d + 2)..L : ~Starts(t, j))
      /\ d \in 0..(L - 1)
  BY DEF Waiting
<1>5. v = SubSeq(u, d + 1, L + 1)
  BY <1>4, CutLonger
<1>6. v # <<>> /\ Len(v) = Len(w) + 1 /\ Fits(v, s) /\ Len(w) \in Nat
  BY AppendProperties, LenProperties
<1> HIDE DEF u, v
<1>7. Waiting(u, v, d)
  <2>1. d + Len(v) = L + 1 /\ d \in 0..(Len(u) - 1)
    BY <1>1, <1>4, <1>6
  <2>2. Starts(u, d + 1)
    BY <1>1, <1>4
  <2>3. \A j \in (d + 2)..(L + 1) : ~Starts(u, j)
    <3> TAKE j \in (d + 2)..(L + 1)
    <3>1. CASE j = L + 1
      <4>1. j # 1 /\ j - 1 = L /\ L \in 1..L
        BY <1>1, <1>4, <3>1
      <4>2. u[j - 1] = t[L] /\ u[j] = c
        BY <1>1, <3>1, <4>1
      <4> QED
        BY <4>1, <4>2 DEF Starts
    <3>2. CASE j \in (d + 2)..L
      BY <1>1, <1>4, <3>2
    <3> QED
      BY <1>1, <3>1, <3>2
  <2> QED
    BY <1>1, <1>5, <2>1, <2>2, <2>3 DEF Waiting
<1>8. Held(u, v, s, d)
  BY <1>6, <1>7 DEF Held
<1>9. d \in 0..Len(u)
  BY <1>1
<1>10. Scan(u, v, s, g, er, LineIn(t, L))
  BY <1>2, <1>3, <1>8, <1>9 DEF Scan
<1> QED
  BY <1>10 DEF u, v

-----------------------------------------------------------------------------
(* One lemma per action.                                                   *)

\* What the steps of a scan have in common.
LEMMA Reading ==
  ASSUME LexType, NEW c \in Chars, NextIs(c), PlainText(text'),
         PlainText(text) => Scan(text, temp, state, target, error, line)
  PROVE  /\ text' = Append(text, c) /\ text \in Seq(Chars) /\ temp \in Seq(Chars)
         /\ target \in Seq(Entries) /\ error \in Seq(Messages) /\ Len(text) \in Nat
         /\ PlainText(Append(text, c)) /\ PlainText(text)
         /\ Scan(text, temp, state, target, error, line)
         /\ line = LineIn(text, Len(text)) /\ line \in Nat
         /\ \E d \in 0..Len(text) : Held(text, temp, state, d) /\ Told(text, d, target)
                                    /\ Blamed(text, d, error)
<1>1. text' = Append(text, c) /\ text \in Seq(Chars)
  BY DEF NextIs, LexType
<1>2. PlainText(text)
  BY <1>1, PlainBefore
<1> QED
  BY <1>1, <1>2, LenProperties DEF LexType, Scan

\* A word that is being read is empty in state 0 only.
LEMMA StateOfWord ==
  ASSUME NEW t, NEW w, NEW s, NEW d, Held(t, w, s, d)
  PROVE  /\ s = 0 <=> w = <<>>
         /\ s = 10 => w = <<"<">>
         /\ s = 17 => w = <<":">>
         /\ s = 1 => w # <<>> /\ All(w, Letters)
         /\ s = 3 => w # <<>> /\ All(w, Digits)
         /\ s # 14
<1>1. CASE w = <<>>
  <2>1. s = 0
    BY <1>1 DEF Held
  <2> QED
    BY <1>1, <2>1
<1>2. CASE w # <<>>
  <2>1. Fits(w, s)
    BY <1>2 DEF Held
  <2>2. \/ s = 1 /\ All(w, Letters)
        \/ s = 3 /\ All(w, Digits)
        \/ s = 10 /\ w = <<"<">>
        \/ s = 17 /\ w = <<":">>
        \/ s \in {5, 6, 12, 20}
    BY <2>1, Zenon DEF Fits
  <2> QED
    BY <1>2, <2>2
<1> QED
  BY <1>1, <1>2

\* What is told when a word ends, in state 0 as well.
LEMMA AllTold ==
  ASSUME LexType, Scan(text, temp, state, target, error, line),
         EndWord \/ (state = 0 /\ UNCHANGED <<target, error>>)
  PROVE  /\ target' \in Seq(Entries) /\ error' \in Seq(Messages)
         /\ Told(text, Len(text), target') /\ Blamed(text, Len(text), error')
<1>1. CASE EndWord
  BY <1>1, EndWordTells DEF EndWord
<1>2. CASE state = 0 /\ UNCHANGED <<target, error>>
  <2>1. PICK d \in 0..Len(text) :
           Held(text, temp, state, d) /\ Told(text, d, target) /\ Blamed(text, d, error)
    BY DEF Scan
  <2>2. temp = <<>>
    BY <1>2, <2>1, StateOfWord
  <2>3. d = Len(text)
    BY <2>1, <2>2 DEF Held
  <2> QED
    BY <1>2, <2>1, <2>3 DEF LexType
<1> QED
  BY <1>1, <1>2

\* The entries of a blank, a newline and an "=" by themselves.
LEMMA AloneEntries ==
  /\ ~HasEntry(<<" ">>)
  /\ HasEntry(<<"\n">>) /\ Entry(<<"\n">>) = EOLN /\ EOLN \in Entries
  /\ HasEntry(<<"=">>) /\ Entry(<<"=">>) = Coded(<<"=">>, Token)
  /\ Coded(<<"=">>, Token) \in Entries
<1>1. \A c : <<c>>[1] = c
  OBVIOUS
<1>2. <<"\n">> # <<":">> /\ <<"=">> # <<":">> /\ <<"=">> # <<"\n">>
  OBVIOUS
<1>3. "\n" \notin Strange \cup {" "} /\ "=" \notin Strange \cup {" "} /\ "=" \notin Digits
  BY Kinds DEF Marks, Blanks
<1>4. Coded(<<"=">>, Token) \in Entries
  <2>1. <<"=">> \in DOMAIN ItemDict
    BY DictMembers
  <2>2. ItemDict[<<"=">>] \in Nat
    BY DEF ItemDict
  <2>3. <<"=">> \in Seq(Chars)
    BY DEF Chars, Marks
  <2> QED
    BY <2>1, <2>2, <2>3 DEF Coded, Entries
<1>5. EOLN \in Entries
  BY DEF EOLN, Entries
<1> QED
  BY <1>1, <1>2, <1>3, <1>4, <1>5 DEF HasEntry, Entry

\* A space ends the word before it and is none.
LEMMA SpaceScans ==
  ASSUME LexType, Space, PlainText(text'),
         PlainText(text) => Scan(text, temp, state, target, error, line)
  PROVE  Scan(text', temp', state', target', error', line')
<1> DEFINE u == Append(text, " ")
           L == Len(text)
<1>1. " " \in Chars /\ " " \in Blanks /\ NextIs(" ")
  BY DEF Space, Chars, Blanks
<1>2. /\ text' = u /\ text \in Seq(Chars) /\ temp \in Seq(Chars) /\ L \in Nat
      /\ Scan(text, temp, state, target, error, line)
      /\ line = LineIn(text, L) /\ line \in Nat
  BY <1>1, Reading
<1>3. PICK d \in 0..L : Held(text, temp, state, d)
  BY <1>2 DEF Scan
<1>4. temp' = <<>> /\ state' = 0 /\ line' = line
  <2>1. state = 0 => temp = <<>>
    BY <1>3, StateOfWord
  <2> QED
    BY <2>1 DEF Space
<1>5. /\ target' \in Seq(Entries) /\ error' \in Seq(Messages)
      /\ Told(text, L, target') /\ Blamed(text, L, error')
  <2>1. EndWord \/ (state = 0 /\ UNCHANGED <<target, error>>)
    BY DEF Space
  <2> QED
    BY <1>2, <2>1, AllTold
<1>6. Starts(u, L + 1)
  <2>1. " " \notin Letters /\ " " \notin Digits
    BY <1>1, Kinds
  <2> QED
    BY <1>1, <1>2, <1>3, <2>1, StartsNew
<1>7. SubSeq(u, L + 1, L + 1) = <<" ">>
  BY <1>1, <1>2, CutOfOne
<1>8. LineIn(u, L + 1) = line
  <2>1. " " # "\n"
    OBVIOUS
  <2>2. LineIn(u, L + 1) = LineIn(text, L)
    BY <1>1, <1>2, <2>1, LinesLonger
  <2> QED
    BY <1>2, <2>2
<1>9. Scan(u, <<>>, 0, target', error', LineIn(u, L + 1))
  BY <1>1, <1>2, <1>5, <1>6, <1>7, AloneEntries, EndsAlone
<1> QED
  BY <1>2, <1>4, <1>8, <1>9

\* A newline ends the word before it, and the line.
LEMMA NewLineScans ==
  ASSUME LexType, NewLine, PlainText(text'),
         PlainText(text) => Scan(text, temp, state, target, error, line)
  PROVE  Scan(text', temp', state', target', error', line')
<1> DEFINE u == Append(text, "\n")
           L == Len(text)
           g == target \o Ended
<1>1. "\n" \in Chars /\ "\n" \in Blanks /\ NextIs("\n")
  BY DEF NewLine, Chars, Blanks
<1>2. /\ text' = u /\ text \in Seq(Chars) /\ temp \in Seq(Chars) /\ L \in Nat
      /\ Scan(text, temp, state, target, error, line)
      /\ line = LineIn(text, L) /\ line \in Nat
  BY <1>1, Reading
<1>3. PICK d \in 0..L : Held(text, temp, state, d)
  BY <1>2 DEF Scan
<1>4. /\ temp' = <<>> /\ state' = 0 /\ line' = line + 1
      /\ target' = g \o <<EOLN>> /\ error' = error \o Complaint
  BY DEF NewLine
<1>5. /\ g \in Seq(Entries) /\ error' \in Seq(Messages)
      /\ Told(text, L, g) /\ Blamed(text, L, error')
  BY <1>2, <1>4, EndWordTells
<1>6. Starts(u, L + 1)
  <2>1. "\n" \notin Letters /\ "\n" \notin Digits
    BY <1>1, Kinds
  <2>2. "\n" # "=" /\ "\n" # ">"
    OBVIOUS
  <2> QED
    BY <1>1, <1>2, <1>3, <2>1, <2>2, StartsNew
<1>7. target' = Append(g, EOLN)
  BY <1>4, <1>5, AloneEntries, AppendIsConcat
<1>8. LineIn(u, L + 1) = line'
  <2>1. LineIn(u, L + 1) = LineIn(text, L) + 1
    BY <1>1, <1>2, LinesLonger
  <2> QED
    BY <1>2, <1>4, <2>1
<1> HIDE DEF g
<1>9. Scan(u, <<>>, 0, Append(g, EOLN), error', LineIn(u, L + 1))
  BY <1>1, <1>2, <1>5, <1>6, AloneEntries, EndsAlone
<1> QED
  BY <1>2, <1>4, <1>7, <1>8, <1>9

\* A character that begins a word ends the one before it.
LEMMA BeginScans ==
  ASSUME LexType, NEW c \in Chars, c \notin Strange, c # "\n", NextIs(c), PlainText(text'),
         PlainText(text) => Scan(text, temp, state, target, error, line),
         EndWord \/ (state = 0 /\ UNCHANGED <<target, error>>),
         c \in Letters => state # 1, c \in Digits => state # 3,
         c = "=" => state # 10 /\ state # 17, c = ">" => state # 10,
         temp' = <<c>>, Fits(<<c>>, state'), line' = line
  PROVE  Scan(text', temp', state', target', error', line')
<1>1. /\ text' = Append(text, c) /\ text \in Seq(Chars) /\ temp \in Seq(Chars)
      /\ Scan(text, temp, state, target, error, line)
      /\ line = LineIn(text, Len(text))
  BY Reading
<1>2. PICK d \in 0..Len(text) : Held(text, temp, state, d)
  BY <1>1 DEF Scan
<1>3. Starts(Append(text, c), Len(text) + 1)
  BY <1>1, <1>2, StartsNew
<1>4. Told(text, Len(text), target') /\ Blamed(text, Len(text), error')
  BY <1>1, AllTold
<1>5. Scan(Append(text, c), <<c>>, state', target', error', LineIn(text, Len(text)))
  BY <1>1, <1>3, <1>4, BeginsWord
<1> QED
  BY <1>1, <1>5

\* A character that goes on with the word in temp.
LEMMA GoOnScans ==
  ASSUME LexType, NEW c \in Chars, c \notin Strange, c \notin Blanks, NextIs(c),
         PlainText(text'),
         PlainText(text) => Scan(text, temp, state, target, error, line),
         UNCHANGED <<target, error>>, state # 0, Joins(text[Len(text)], c),
         temp' = Append(temp, c), Fits(Append(temp, c), state'), line' = line
  PROVE  Scan(text', temp', state', target', error', line')
<1>1. /\ text' = Append(text, c) /\ text \in Seq(Chars) /\ temp \in Seq(Chars)
      /\ PlainText(Append(text, c)) /\ line = LineIn(text, Len(text))
      /\ \E d \in 0..Len(text) : Held(text, temp, state, d) /\ Told(text, d, target)
                                 /\ Blamed(text, d, error)
  BY Reading
<1>2. PICK d \in 0..Len(text) : Held(text, temp, state, d) /\ Told(text, d, target)
                                /\ Blamed(text, d, error)
  BY <1>1
<1>3. temp # <<>>
  BY <1>2, StateOfWord
<1>4. c # "\n"
  BY DEF Blanks
<1>5. Waiting(text, temp, d) /\ d + Len(temp) = Len(text)
  BY <1>1, <1>2, <1>3, NothingBetween
<1>6. Scan(Append(text, c), Append(temp, c), state', target, error, LineIn(text, Len(text)))
  BY <1>1, <1>2, <1>3, <1>4, <1>5, GoesOn
<1> QED
  BY <1>1, <1>6

\* The last character read, when another goes on with the word in temp.
LEMMA LastOfWord ==
  ASSUME LexType, NEW c \in Chars, c \notin Blanks, NextIs(c), PlainText(text'),
         PlainText(text) => Scan(text, temp, state, target, error, line), state # 0
  PROVE  /\ temp # <<>> /\ text[Len(text)] = temp[Len(temp)] /\ Len(temp) \in Nat \ {0}
         /\ Fits(temp, state)
<1>1. /\ text' = Append(text, c) /\ text \in Seq(Chars) /\ temp \in Seq(Chars)
      /\ PlainText(Append(text, c)) /\ Len(text) \in Nat
      /\ \E d \in 0..Len(text) : Held(text, temp, state, d)
  BY Reading
<1>2. PICK d \in 0..Len(text) : Held(text, temp, state, d)
  BY <1>1
<1>3. temp # <<>>
  BY <1>2, StateOfWord
<1>5. Waiting(text, temp, d) /\ Fits(temp, state) /\ d + Len(temp) = Len(text)
  BY <1>1, <1>2, <1>3, NothingBetween
<1>6. Len(temp) \in Nat \ {0}
  BY <1>1, <1>3, EmptySeq
<1>7. temp = SubSeq(text, d + 1, Len(text))
  BY <1>5 DEF Waiting
<1>8. d + 1 \in 1..Len(text) /\ Len(text) \in (d + 1)..Len(text)
  BY <1>1, <1>5, <1>6
<1>9. \A i \in 1..((Len(text) - (d + 1)) + 1) :
         SubSeq(text, d + 1, Len(text))[i] = text[((d + 1) + i) - 1]
  BY <1>1, <1>8, Cuts
<1>10. Len(temp) \in 1..((Len(text) - (d + 1)) + 1) /\ ((d + 1) + Len(temp)) - 1 = Len(text)
  <2> DEFINE n == Len(temp)
             L == Len(text)
  <2>1. d \in Nat /\ n \in Nat \ {0} /\ L \in Nat /\ d + n = L
    BY <1>1, <1>5, <1>6
  <2> HIDE DEF n, L
  <2>2. n \in 1..((L - (d + 1)) + 1) /\ ((d + 1) + n) - 1 = L
    BY ONLY <2>1
  <2> QED
    BY <2>2 DEF n, L
<1> QED
  BY <1>3, <1>5, <1>6, <1>7, <1>9, <1>10

\* All the characters of a word with one more.
LEMMA AllOfMore ==
  ASSUME NEW w \in Seq(Chars), NEW c \in Chars, NEW S, All(w, S), c \in S
  PROVE  All(Append(w, c), S)
<1>1. /\ Len(w) \in Nat /\ Len(Append(w, c)) = Len(w) + 1
      /\ (\A i \in 1..Len(w) : Append(w, c)[i] = w[i]) /\ Append(w, c)[Len(w) + 1] = c
  BY AppendProperties, LenProperties
<1>2. \A i \in 1..(Len(w) + 1) : i \in 1..Len(w) \/ i = Len(w) + 1
  BY <1>1
<1> QED
  BY <1>1, <1>2 DEF All

\* A letter or a digit goes on with letters or digits, and begins a word elsewhere.
LEMMA LetterScans ==
  ASSUME LexType, NEW c \in Letters, Letter(c), PlainText(text'),
         PlainText(text) => Scan(text, temp, state, target, error, line)
  PROVE  Scan(text', temp', state', target', error', line')
<1>1. /\ c \in Chars /\ c \notin Strange /\ c \notin Blanks /\ c \notin Digits /\ NextIs(c)
  <2>1. c \notin Blanks /\ c \notin Marks /\ c \notin Strange /\ c \notin Digits /\ c \in Chars
    BY Kinds DEF Chars
  <2> QED
    BY <2>1 DEF Letter
<1>2. /\ text' = Append(text, c) /\ text \in Seq(Chars) /\ temp \in Seq(Chars)
      /\ \E d \in 0..Len(text) : Held(text, temp, state, d)
  BY <1>1, Reading
<1>3. state' = 1 /\ line' = line
  BY DEF Letter
<1>4. CASE state = 1
  <2>1. UNCHANGED <<target, error>> /\ temp' = Append(temp, c)
    BY <1>4 DEF Letter, LetterStates, Pending
  <2>2. All(temp, Letters)
    BY <1>2, <1>4, StateOfWord
  <2>0. state # 0
    BY <1>4
  <2>3. text[Len(text)] = temp[Len(temp)] /\ Len(temp) \in Nat \ {0}
    BY <1>1, <2>0, LastOfWord
  <2>4. Joins(text[Len(text)], c)
    BY <2>2, <2>3 DEF All, Joins
  <2>5. All(Append(temp, c), Letters)
    BY <1>1, <1>2, <2>2, AllOfMore
  <2>6. Fits(Append(temp, c), state')
    BY <1>3, <2>5, Zenon DEF Fits
  <2> QED
    BY <1>1, <1>3, <2>0, <2>1, <2>4, <2>6, GoOnScans
<1>5. CASE state # 1
  <2>1. temp' = <<c>> /\ (EndWord \/ (state = 0 /\ UNCHANGED <<target, error>>))
    <3>1. CASE state = 0
      <4>1. temp = <<>>
        BY <1>2, <3>1, StateOfWord
      <4> QED
        BY <3>1, <4>1 DEF Letter, LetterStates, Pending
    <3>2. CASE state # 0
      BY <1>5, <3>2 DEF Letter, LetterStates
    <3> QED
      BY <3>1, <3>2
  <2>2. All(<<c>>, Letters)
    BY DEF All
  <2>3. Fits(<<c>>, state')
    BY <1>3, <2>2, Zenon DEF Fits
  <2>4. c # "\n" /\ c # "=" /\ c # ">"
    BY Kinds, Zenon DEF Blanks, Marks
  <2> QED
    BY <1>1, <1>3, <1>5, <2>1, <2>3, <2>4, BeginScans
<1> QED
  BY <1>4, <1>5

LEMMA DigitScans ==
  ASSUME LexType, NEW c \in Digits, Digit(c), PlainText(text'),
         PlainText(text) => Scan(text, temp, state, target, error, line)
  PROVE  Scan(text', temp', state', target', error', line')
<1>1. /\ c \in Chars /\ c \notin Strange /\ c \notin Blanks /\ c \notin Letters /\ NextIs(c)
  <2>1. c \notin Blanks /\ c \notin Marks /\ c \notin Strange /\ c \notin Letters /\ c \in Chars
    BY Kinds DEF Chars
  <2> QED
    BY <2>1 DEF Digit
<1>2. /\ text' = Append(text, c) /\ text \in Seq(Chars) /\ temp \in Seq(Chars)
      /\ \E d \in 0..Len(text) : Held(text, temp, state, d)
  BY <1>1, Reading
<1>3. state' = 3 /\ line' = line
  BY DEF Digit
<1>4. CASE state = 3
  <2>1. UNCHANGED <<target, error>> /\ temp' = Append(temp, c)
    BY <1>4 DEF Digit, Pending
  <2>2. All(temp, Digits)
    BY <1>2, <1>4, StateOfWord
  <2>0. state # 0
    BY <1>4
  <2>3. text[Len(text)] = temp[Len(temp)] /\ Len(temp) \in Nat \ {0}
    BY <1>1, <2>0, LastOfWord
  <2>4. Joins(text[Len(text)], c)
    BY <2>2, <2>3 DEF All, Joins
  <2>5. All(Append(temp, c), Digits)
    BY <1>1, <1>2, <2>2, AllOfMore
  <2>6. Fits(Append(temp, c), state')
    BY <1>3, <2>5, Zenon DEF Fits
  <2> QED
    BY <1>1, <1>3, <2>0, <2>1, <2>4, <2>6, GoOnScans
<1>5. CASE state # 3
  <2>1. temp' = <<c>> /\ EndWord
    BY <1>5 DEF Digit
  <2>2. All(<<c>>, Digits)
    BY DEF All
  <2>3. Fits(<<c>>, state')
    BY <1>3, <2>2, Zenon DEF Fits
  <2>4. c # "\n" /\ c # "=" /\ c # ">"
    BY Kinds, Zenon DEF Blanks, Marks
  <2> QED
    BY <1>1, <1>3, <1>5, <2>1, <2>3, <2>4, BeginScans
<1> QED
  BY <1>4, <1>5

LEMMA SymbolScans ==
  ASSUME LexType, NEW c \in {"-", "<", ":", ";"}, Symbol(c), PlainText(text'),
         PlainText(text) => Scan(text, temp, state, target, error, line)
  PROVE  Scan(text', temp', state', target', error', line')
<1>1. /\ c \in Chars /\ c \notin Strange /\ c \notin Digits /\ c \notin Letters
  BY Kinds DEF Chars, Marks
<1>2. c # "\n" /\ c # "=" /\ c # ">"
  BY Zenon
<1>3. Fits(<<c>>, StateOf(c))
  BY Zenon DEF Fits, StateOf
<1>4. /\ NextIs(c) /\ EndWord /\ temp' = <<c>> /\ state' = StateOf(c) /\ line' = line
  BY Zenon DEF Symbol
<1>5. Fits(<<c>>, state')
  BY <1>3, <1>4, Zenon
<1> QED
  BY <1>1, <1>2, <1>4, <1>5, BeginScans, Zenon

LEMMA AppendToOne ==
  ASSUME NEW a, NEW b
  PROVE  Append(<<a>>, b) = <<a, b>>
<1> DEFINE w == Append(<<a>>, b)
<1>1. <<a>> \in Seq({a, b}) /\ Len(<<a>>) = 1 /\ <<a>>[1] = a /\ b \in {a, b}
  OBVIOUS
<1>2. w \in Seq({a, b}) /\ Len(w) = 2 /\ w[1] = a /\ w[2] = b
  BY <1>1, AppendProperties
<1> HIDE DEF w
<1>3. w = <<a, b>>
  BY <1>2, ShortLists
<1> QED
  BY <1>3 DEF w

\* The words that "=" ends, and the one it is.
LEMMA WithEquals ==
  ASSUME NEW a \in {"<", ":"}
  PROVE  /\ HasEntry(<<a, "=">>) /\ Entry(<<a, "=">>) = Coded(<<a, "=">>, Token)
         /\ Coded(<<a, "=">>, Token) \in Entries
<1> DEFINE w == <<a, "=">>
<1>1. Len(w) = 2 /\ w[1] = a
  OBVIOUS
<1>2. a \notin Strange \cup {" "} /\ a \notin Digits
  BY Kinds DEF Marks
<1>3. w \in DOMAIN ItemDict
  BY DictMembers
<1>4. ItemDict[w] \in Nat
  BY DEF ItemDict
<1>5. w \in Seq(Chars)
  <2>1. a \in Chars /\ "=" \in Chars
    BY DEF Chars, Marks
  <2> QED
    BY <2>1
<1> HIDE DEF w
<1>6. w # <<":">>
  <2>1. ASSUME w = <<":">>  PROVE Len(w) = 1
    BY <2>1, OneCharacter
  <2> QED
    BY <1>1, <2>1
<1>7. w # <<"\n">>
  <2>1. ASSUME w = <<"\n">>  PROVE Len(w) = 1
    BY <2>1, OneCharacter, Zenon
  <2>2. Len(w) # 1
    BY <1>1
  <2> QED
    BY <2>1, <2>2
<1>8. HasEntry(w)
  BY <1>1, <1>2, <1>6 DEF HasEntry
<1>9. Entry(w) = Coded(w, Token)
  BY <1>1, <1>2, <1>7, Zenon DEF Entry
<1>10. Coded(w, Token) \in Entries
  BY <1>3, <1>4, <1>5 DEF Coded, Entries
<1> QED
  BY <1>8, <1>9, <1>10 DEF w

\* "=" ends "<=" and ":=", and is or begins a word behind any other.
LEMMA EqualsScans ==
  ASSUME LexType, Equals, PlainText(text'),
         PlainText(text) => Scan(text, temp, state, target, error, line)
  PROVE  Scan(text', temp', state', target', error', line')
<1> DEFINE u == Append(text, "=")
           L == Len(text)
<1>1. /\ "=" \in Chars /\ "=" \in Blanks \cup {"="} /\ "=" \notin Strange
      /\ "=" \notin Letters /\ "=" \notin Digits /\ "=" \notin Blanks
  BY Kinds DEF Chars, Marks, Blanks
<1>2. NextIs("=") /\ line' = line
  BY DEF Equals
<1>3. /\ text' = u /\ text \in Seq(Chars) /\ temp \in Seq(Chars) /\ L \in Nat
      /\ target \in Seq(Entries) /\ error \in Seq(Messages) /\ PlainText(u)
      /\ Scan(text, temp, state, target, error, line)
      /\ line = LineIn(text, L) /\ line \in Nat
      /\ \E d \in 0..L : Held(text, temp, state, d) /\ Told(text, d, target)
                         /\ Blamed(text, d, error)
  BY <1>1, <1>2, Reading
<1>4. PICK d \in 0..L : Held(text, temp, state, d) /\ Told(text, d, target)
                        /\ Blamed(text, d, error)
  BY <1>3
<1>5. LineIn(u, L + 1) = line
  <2>1. "=" # "\n"
    OBVIOUS
  <2>2. LineIn(u, L + 1) = LineIn(text, L)
    BY <1>1, <1>3, <2>1, LinesLonger
  <2> QED
    BY <1>3, <2>2
<1>6. state # 14
  BY <1>4, StateOfWord
<1>7. CASE state = 0
  <2>1. temp = <<>>
    BY <1>4, <1>7, StateOfWord
  <2>2. d = L
    BY <1>4, <2>1 DEF Held
  <2>3. /\ target' = Append(target, Coded(<<"=">>, Token)) /\ temp' = <<>> /\ state' = 0
        /\ error' = error
    <3>1. Append(<<>>, "=") = <<"=">>
      OBVIOUS
    <3>2. /\ target' = Append(target, Coded(Append(temp, "="), Token)) /\ temp' = <<>>
          /\ state' = 0 /\ error' = error
      BY <1>7 DEF Equals
    <3> QED
      BY <2>1, <3>1, <3>2
  <2>4. Starts(u, L + 1)
    <3>1. state # 10 /\ state # 17
      BY <1>7
    <3>2. "=" # ">"
      OBVIOUS
    <3> QED
      BY <1>1, <1>3, <1>4, <3>1, <3>2, StartsNew
  <2>5. Scan(u, <<>>, 0, Append(target, Entry(<<"=">>)), error, LineIn(u, L + 1))
    BY <1>1, <1>3, <1>4, <2>2, <2>4, AloneEntries, EndsAlone
  <2> QED
    BY <1>2, <1>3, <1>5, <2>3, <2>5, AloneEntries
<1>8. ASSUME NEW a \in {"<", ":"}, temp = <<a>>, state \in {10, 17}
      PROVE  Scan(text', temp', state', target', error', line')
  <2>1. state # 0 /\ state \in {0, 10, 14, 17}
    BY <1>8
  <2>2. /\ target' = Append(target, Coded(<<a, "=">>, Token)) /\ temp' = <<>> /\ state' = 0
        /\ error' = error
    <3>1. Append(<<a>>, "=") = <<a, "=">>
      BY AppendToOne
    <3>2. /\ target' = Append(target, Coded(Append(temp, "="), Token)) /\ temp' = <<>>
          /\ state' = 0 /\ error' = error
      BY <2>1 DEF Equals
    <3> QED
      BY <1>8, <3>1, <3>2
  <2>3. temp # <<>> /\ Len(temp) = 1 /\ temp[1] = a
    BY <1>8
  <2>4. Waiting(text, temp, d) /\ d + Len(temp) = L
    BY <1>1, <1>3, <1>4, <2>3, NothingBetween
  <2>5. d + 1 = L /\ d \in 0..(L - 1)
    BY <1>3, <2>3, <2>4
  <2>6. Starts(text, d + 1) /\ temp = SubSeq(text, d + 1, L)
    BY <2>4 DEF Waiting
  <2>7. text[L] = a
    <3>1. d + 1 \in 1..Len(text) /\ L \in (d + 1)..Len(text)
      BY <1>3, <2>5
    <3>2. SubSeq(text, d + 1, L)[1] = text[d + 1]
      BY <1>3, <3>1, Cuts
    <3> QED
      BY <2>3, <2>5, <2>6, <3>2
  <2>8. Starts(u, d + 1)
    <3>1. d + 1 \in 1..L
      BY <1>3, <2>5
    <3> QED
      BY <1>1, <1>3, <2>6, <3>1, Longer
  <2>9. \A j \in (d + 2)..(L + 1) : ~Starts(u, j)
    <3>1. u[L] = a /\ u[L + 1] = "="
      <4>1. L \in 1..L
        BY <1>3, <2>5
      <4> QED
        BY <1>1, <1>3, <2>7, <4>1, Longer
    <3>2. Joins(a, "=")
      BY DEF Joins
    <3>3. ~Starts(u, L + 1)
      <4>1. (L + 1) - 1 = L /\ L + 1 # 1
        BY <1>3, <2>5
      <4> QED
        BY <3>1, <3>2, <4>1 DEF Starts
    <3>4. \A j \in (d + 2)..(L + 1) : j = L + 1
      BY <1>3, <2>5
    <3> QED
      BY <3>3, <3>4
  <2>10. SubSeq(u, d + 1, L + 1) = <<a, "=">>
    <3>1. Append(temp, "=") = SubSeq(u, d + 1, L + 1)
      BY <1>1, <1>3, <2>5, <2>6, CutLonger
    <3>2. Append(<<a>>, "=") = <<a, "=">>
      BY AppendToOne
    <3> QED
      BY <1>8, <3>1, <3>2
  <2>11. LET w == SubSeq(u, d + 1, L + 1)
             h == IF HasEntry(w) THEN Append(target, Entry(w)) ELSE target
         IN  Scan(u, <<>>, 0, h, error, LineIn(u, L + 1))
    BY <1>1, <1>3, <1>4, <2>8, <2>9, EndsWord
  <2>12. Scan(u, <<>>, 0, Append(target, Coded(<<a, "=">>, Token)), error, LineIn(u, L + 1))
    BY <2>10, <2>11, WithEquals
  <2> QED
    BY <1>2, <1>3, <1>5, <2>2, <2>12
<1>9. CASE state = 10
  <2>1. temp = <<"<">> /\ state \in {10, 17}
    BY <1>4, <1>9, StateOfWord
  <2> QED
    BY <1>8, <2>1
<1>10. CASE state = 17
  <2>1. temp = <<":">> /\ state \in {10, 17}
    BY <1>4, <1>10, StateOfWord
  <2> QED
    BY <1>8, <2>1
<1>11. CASE state \notin {0, 10, 14, 17}
  <2>1. EndWord /\ temp' = <<"=">> /\ state' = 5 /\ state # 10 /\ state # 17
    BY <1>11 DEF Equals
  <2>2. Fits(<<"=">>, state')
    BY <2>1, Zenon DEF Fits
  <2>3. "=" # "\n" /\ "=" # ">"
    OBVIOUS
  <2> QED
    BY <1>1, <1>2, <2>1, <2>2, <2>3, BeginScans
<1> QED
  BY <1>6, <1>7, <1>9, <1>10, <1>11

\* In a plain text ">" follows "<".
LEMMA GreaterScans ==
  ASSUME LexType, Greater, PlainText(text'),
         PlainText(text) => Scan(text, temp, state, target, error, line)
  PROVE  Scan(text', temp', state', target', error', line')
<1> DEFINE u == Append(text, ">")
           L == Len(text)
<1>1. /\ ">" \in Chars /\ ">" \notin Strange /\ ">" \notin Blanks
  BY Kinds DEF Chars, Marks, Blanks
<1>2. NextIs(">") /\ line' = line
  BY DEF Greater
<1>3. /\ text' = u /\ text \in Seq(Chars) /\ temp \in Seq(Chars) /\ L \in Nat /\ PlainText(u)
      /\ \E d \in 0..L : Held(text, temp, state, d)
  BY <1>1, <1>2, Reading
<1>4. PICK d \in 0..L : Held(text, temp, state, d)
  BY <1>3
<1>5. L >= 1 /\ text[L] = "<"
  <2>1. /\ u \in Seq(Chars) /\ Len(u) = L + 1 /\ u[L + 1] = ">"
        /\ \A i \in 1..L : u[i] = text[i]
    BY <1>1, <1>3, Longer
  <2>2. L + 1 \in 1..Len(u)
    BY <1>3, <2>1
  <2>3. L + 1 > 1 /\ u[(L + 1) - 1] = "<"
    BY <1>3, <2>1, <2>2 DEF PlainText
  <2>4. L \in 1..L /\ (L + 1) - 1 = L
    BY <1>3, <2>3
  <2> QED
    BY <2>1, <2>3, <2>4
<1>6. state = 10
  <2>1. text # <<>>
    BY <1>5, EmptySeq
  <2>2. \/ text[L] \in Strange \/ text[L] \in Blanks \/ text[L] \in {"=", "-", ">", ";"}
        \/ state = 1 /\ text[L] \in Letters
        \/ state = 3 /\ text[L] \in Digits
        \/ state = 10 /\ text[L] = "<"
        \/ state = 17 /\ text[L] = ":"
    BY <1>3, <1>4, <2>1, LastRead
  <2>3. "<" \notin Strange /\ "<" \notin Blanks /\ "<" \notin {"=", "-", ">", ";"}
        /\ "<" \notin Letters /\ "<" \notin Digits /\ "<" # ":"
    BY Kinds DEF Marks, Blanks
  <2> QED
    BY <1>5, <2>2, <2>3, Zenon
<1>7. state # 0 /\ temp = <<"<">>
  BY <1>4, <1>6, StateOfWord
<1>8. Joins(text[L], ">")
  BY <1>5 DEF Joins
<1>9. UNCHANGED <<target, error>> /\ temp' = Append(temp, ">") /\ state' = 12
  BY <1>6 DEF Greater, Pending
<1>10. Fits(Append(temp, ">"), state')
  <2>1. Append(<<"<">>, ">") = <<"<", ">">>
    BY AppendToOne
  <2> QED
    BY <1>7, <1>9, <2>1, Zenon DEF Fits
<1> QED
  BY <1>1, <1>2, <1>7, <1>8, <1>9, <1>10, GoOnScans

\* A strange character is blamed at once, and does not end the word before it.
LEMMA UnknownScans ==
  ASSUME LexType, NEW c \in Strange, Unknown(c), PlainText(text'),
         PlainText(text) => Scan(text, temp, state, target, error, line)
  PROVE  Scan(text', temp', state', target', error', line')
<1> DEFINE u == Append(text, c)
           L == Len(text)
           er == Append(error, <<"?", line>>)
<1>1. c \in Chars /\ c \notin Blanks
  BY Kinds DEF Chars
<1>2. /\ NextIs(c) /\ error' = er /\ UNCHANGED <<target, temp, state, line>>
  BY DEF Unknown
<1>3. /\ text' = u /\ text \in Seq(Chars) /\ temp \in Seq(Chars) /\ L \in Nat /\ PlainText(u)
      /\ target \in Seq(Entries) /\ error \in Seq(Messages)
      /\ line = LineIn(text, L) /\ line \in Nat
      /\ \E d \in 0..L : Held(text, temp, state, d) /\ Told(text, d, target)
                         /\ Blamed(text, d, error)
  BY <1>1, <1>2, Reading
<1>4. PICK d \in 0..L : Held(text, temp, state, d) /\ Told(text, d, target)
                        /\ Blamed(text, d, error)
  BY <1>3
<1>5. /\ u \in Seq(Chars) /\ Len(u) = L + 1 /\ u[L + 1] = c
      /\ (\A k \in 1..L : Starts(u, k) <=> Starts(text, k))
      /\ \A k, e \in 1..L : SubSeq(u, k, e) = SubSeq(text, k, e)
  BY <1>1, <1>3, Longer
<1>6. Told(u, d, target) /\ Blamed(u, d, er)
  BY <1>1, <1>3, <1>4, ToldLonger, BlamedStrange
<1>7. LineIn(u, L + 1) = line
  <2>1. c # "\n"
    BY <1>1 DEF Blanks
  <2>2. LineIn(u, L + 1) = LineIn(text, L)
    BY <1>1, <1>3, <2>1, LinesLonger
  <2> QED
    BY <1>3, <2>2
<1>8. er \in Seq(Messages)
  <2>1. <<"?", line>> \in Messages
    BY <1>3 DEF Messages
  <2> QED
    BY <1>3, <2>1, AppendProperties
<1> HIDE DEF u, er
<1>9. CASE temp = <<>>
  <2>1. d = L /\ state = 0
    BY <1>4, <1>9 DEF Held
  <2>2. u # <<>> /\ Len(u) - 1 = L
    BY <1>3, <1>5, EmptySeq
  <2>3. Told(u, L + 1, target) /\ Blamed(u, L + 1, er)
    BY <1>3, <1>5, <1>6, <1>8, <2>1, <2>2, ToldStrange
  <2>4. Held(u, <<>>, 0, L + 1)
    BY <1>5 DEF Held
  <2>5. L + 1 \in 0..Len(u)
    BY <1>3, <1>5
  <2> QED
    BY <1>2, <1>3, <1>5, <1>7, <1>9, <2>1, <2>3, <2>4, <2>5 DEF Scan
<1>10. CASE temp # <<>>
  <2>1. Waiting(text, temp, d) /\ Fits(temp, state) /\ d + Len(temp) = L
    BY <1>1, <1>3, <1>4, <1>10, NothingBetween DEF u
  <2>2. Len(temp) \in Nat \ {0}
    BY <1>3, <1>10, EmptySeq
  <2>3. /\ d \in 0..(L - 1) /\ temp = SubSeq(text, d + 1, d + Len(temp))
        /\ Starts(text, d + 1) /\ \A j \in (d + 2)..(d + Len(temp)) : ~Starts(text, j)
    BY <2>1 DEF Waiting
  <2>4. d + 1 \in 1..L /\ L \in 1..L
    BY <1>3, <2>3
  <2>5. Waiting(u, temp, d)
    <3>1. d \in 0..(Len(u) - 1) /\ d + Len(temp) = Len(u) - 1
      BY <1>3, <1>5, <2>1, <2>3
    <3>2. temp = SubSeq(u, d + 1, d + Len(temp))
      BY <1>5, <2>1, <2>3, <2>4
    <3>3. Starts(u, d + 1)
      BY <1>5, <2>3, <2>4
    <3>4. \A j \in (d + 2)..(d + Len(temp)) : ~Starts(u, j)
      <4>1. \A j \in (d + 2)..(d + Len(temp)) : j \in 1..L
        BY <1>3, <2>1, <2>3
      <4> QED
        BY <1>5, <2>3, <4>1
    <3> QED
      BY <1>5, <3>1, <3>2, <3>3, <3>4 DEF Waiting
  <2>6. Held(u, temp, state, d)
    BY <1>10, <2>1, <2>5 DEF Held
  <2>7. d \in 0..Len(u)
    BY <1>3, <1>5
  <2> QED
    BY <1>2, <1>3, <1>5, <1>6, <1>7, <2>6, <2>7 DEF Scan
<1> QED
  BY <1>9, <1>10

-----------------------------------------------------------------------------
(* The invariant.                                                          *)

\* The words the scanner enters and the messages it gives have their types.
LEMMA TypesKept ==
  ASSUME LexType, LexNext
  PROVE  LexType'
<1>1. /\ text \in Seq(Chars) /\ temp \in Seq(Chars) /\ state \in Nat
      /\ target \in Seq(Entries) /\ error \in Seq(Messages) /\ line \in Nat
  BY DEF LexType
<1>2. \A w \in Seq(Chars), n \in Nat : Coded(w, n) \in Entries
  <2> TAKE w \in Seq(Chars), n \in Nat
  <2>1. \A v \in DOMAIN ItemDict : ItemDict[v] \in Nat
    BY DEF ItemDict
  <2> QED
    BY <2>1 DEF Coded, Entries
<1>3. Ended \in Seq(Entries) /\ Complaint \in Seq(Messages)
  <2>1. Coded(temp, Token) \in Entries /\ <<temp, Constants>> \in Entries
    BY <1>1, <1>2 DEF Token, Constants, Entries
  <2>2. <<":", line>> \in Messages
    BY <1>1 DEF Messages
  <2> QED
    BY <2>1, <2>2 DEF Ended, Complaint
<1>4. target \o Ended \in Seq(Entries) /\ error \o Complaint \in Seq(Messages)
  BY <1>1, <1>3, ConcatProperties
<1>5. EndWord => target' \in Seq(Entries) /\ error' \in Seq(Messages)
  BY <1>4 DEF EndWord
<1>6. \A e \in {EOLN, EOF} : (target \o Ended) \o <<e>> \in Seq(Entries)
  <2> TAKE e \in {EOLN, EOF}
  <2>1. e \in Entries
    BY DEF EOLN, EOF, Entries
  <2>2. <<e>> \in Seq(Entries)
    BY <2>1
  <2> QED
    BY <1>4, <2>2, ConcatProperties
<1>7. \A c \in Chars : NextIs(c) => text' \in Seq(Chars) /\ scanned' \in BOOLEAN
  BY <1>1, AppendProperties DEF NextIs, LexType
<1>8. \A c \in Chars : Append(temp, c) \in Seq(Chars) /\ <<c>> \in Seq(Chars)
  BY <1>1, AppendProperties
<1>9. <<>> \in Seq(Chars)
  OBVIOUS
<1>10. Letters \cup Digits \cup Strange \cup Blanks \cup Marks \subseteq Chars
  BY DEF Chars
<1>11. " " \in Chars /\ "\n" \in Chars /\ "=" \in Chars /\ ">" \in Chars
       /\ {"-", "<", ":", ";"} \subseteq Chars
  BY DEF Chars, Blanks, Marks
<1>12. {0, 5, 6, 10, 12, 14, 17, 20} \subseteq Nat
  OBVIOUS
<1>13. CASE Space
  <2>1. NextIs(" ") /\ line' = line
    BY <1>13 DEF Space
  <2>2. temp' \in Seq(Chars) /\ state' \in Nat /\ target' \in Seq(Entries)
        /\ error' \in Seq(Messages)
    <3>1. CASE state = 0
      <4>1. UNCHANGED <<target, error, temp, state>>
        BY <1>13, <3>1 DEF Space
      <4> QED
        BY <1>1, <4>1
    <3>2. CASE state # 0
      <4>1. EndWord /\ temp' = <<>> /\ state' = 0
        BY <1>13, <3>2 DEF Space
      <4>2. target' \in Seq(Entries) /\ error' \in Seq(Messages)
        BY <1>5, <4>1
      <4> QED
        BY <1>9, <1>12, <4>1, <4>2, Zenon
    <3> QED
      BY <3>1, <3>2
  <2> QED
    BY <1>1, <1>7, <1>11, <2>1, <2>2, Zenon DEF LexType
<1>14. CASE Equals
  <2>1. NextIs("=") /\ line' = line
    BY <1>14 DEF Equals
  <2>2. Append(target, Coded(Append(temp, "="), Token)) \in Seq(Entries)
    <3>1. Append(temp, "=") \in Seq(Chars) /\ Token \in Nat
      BY <1>8, <1>11 DEF Token
    <3> QED
      BY <1>1, <1>2, <3>1, AppendProperties
  <2>3. /\ temp' \in {<<>>, <<"=">>} /\ state' \in {0, 5}
        /\ target' \in Seq(Entries) /\ error' \in Seq(Messages)
    <3>1. CASE state \in {0, 10, 14, 17}
      BY <1>1, <1>14, <2>2, <3>1 DEF Equals
    <3>2. CASE state \notin {0, 10, 14, 17}
      BY <1>5, <1>14, <3>2 DEF Equals
    <3> QED
      BY <3>1, <3>2
  <2>4. temp' \in Seq(Chars) /\ state' \in Nat
    <3>1. <<"=">> \in Seq(Chars)
      BY <1>8, <1>11, Zenon
    <3> QED
      BY <1>9, <1>12, <2>3, <3>1, Zenon
  <2> QED
    BY <1>1, <1>7, <1>11, <2>1, <2>3, <2>4, Zenon DEF LexType
<1>15. CASE Greater
  <2>1. NextIs(">") /\ line' = line
    BY <1>15 DEF Greater
  <2>2. temp' \in {<<>>, Append(temp, ">")} /\ state' \in {12, 14}
        /\ target' \in Seq(Entries) /\ error' \in Seq(Messages)
    BY <1>1, <1>5, <1>15 DEF Greater, Pending
  <2>3. temp' \in Seq(Chars) /\ state' \in Nat
    <3>1. Append(temp, ">") \in Seq(Chars)
      BY <1>8, <1>11, Zenon
    <3> QED
      BY <1>9, <1>12, <2>2, <3>1, Zenon
  <2> QED
    BY <1>1, <1>7, <1>11, <2>1, <2>2, <2>3, Zenon DEF LexType
<1>16. CASE NewLine
  <2>1. NextIs("\n") /\ temp' = <<>> /\ target' = (target \o Ended) \o <<EOLN>>
        /\ error' = error \o Complaint /\ state' = 0 /\ line' = line + 1
    BY <1>16, Zenon DEF NewLine
  <2>2. target' \in Seq(Entries) /\ error' \in Seq(Messages) /\ temp' \in Seq(Chars)
    BY <1>4, <1>6, <1>9, <2>1, Zenon
  <2>3. state' \in Nat /\ line' \in Nat
    <3>1. state' = 0 /\ line' = line + 1 /\ line \in Nat
      BY <1>1, <2>1, Zenon
    <3> QED
      BY ONLY <3>1
  <2> QED
    BY <1>7, <1>11, <2>1, <2>2, <2>3, Zenon DEF LexType
<1>17. CASE EndOfText
  <2>1. target' = (target \o Ended) \o <<EOF>> /\ error' = error \o Complaint
        /\ temp' = <<>> /\ scanned' = TRUE /\ UNCHANGED <<text, state, line>>
    BY <1>17 DEF EndOfText
  <2>2. target' \in Seq(Entries) /\ error' \in Seq(Messages) /\ temp' \in Seq(Chars)
    BY <1>4, <1>6, <1>9, <2>1, Zenon
  <2> QED
    BY <1>1, <2>1, <2>2 DEF LexType
<1>18. ASSUME NEW c \in Letters, Letter(c)  PROVE LexType'
  <2>1. NextIs(c) /\ line' = line /\ state' = 1 /\ temp' \in {<<c>>, Append(temp, c)}
        /\ (EndWord \/ UNCHANGED <<target, error>>)
    BY <1>18 DEF Letter, Pending
  <2>2. target' \in Seq(Entries) /\ error' \in Seq(Messages)
    BY <1>1, <1>5, <2>1
  <2> QED
    BY <1>1, <1>7, <1>8, <1>10, <2>1, <2>2 DEF LexType
<1>19. ASSUME NEW c \in Digits, Digit(c)  PROVE LexType'
  <2>1. NextIs(c) /\ line' = line /\ state' = 3 /\ temp' \in {<<c>>, Append(temp, c)}
        /\ (EndWord \/ UNCHANGED <<target, error>>)
    BY <1>19 DEF Digit, Pending
  <2>2. target' \in Seq(Entries) /\ error' \in Seq(Messages)
    BY <1>1, <1>5, <2>1
  <2> QED
    BY <1>1, <1>7, <1>8, <1>10, <2>1, <2>2 DEF LexType
<1>20. ASSUME NEW c \in {"-", "<", ":", ";"}, Symbol(c)  PROVE LexType'
  <2>1. NextIs(c) /\ line' = line /\ state' = StateOf(c) /\ temp' = <<c>> /\ EndWord
    BY <1>20, Zenon DEF Symbol
  <2>2. target' \in Seq(Entries) /\ error' \in Seq(Messages)
    BY <1>5, <2>1, Zenon
  <2>3. StateOf(c) \in {6, 10, 17, 20}
    BY Zenon DEF StateOf
  <2>4. state' \in {6, 10, 17, 20}
    BY <2>1, <2>3, Zenon
  <2>5. {6, 10, 17, 20} \subseteq Nat
    BY <1>12, Zenon
  <2>6. c \in Chars
    BY <1>11, Zenon
  <2> QED
    BY <1>1, <1>7, <1>8, <2>1, <2>2, <2>4, <2>5, <2>6, Zenon DEF LexType
<1>21. ASSUME NEW c \in Strange, Unknown(c)  PROVE LexType'
  <2>1. NextIs(c) /\ error' = Append(error, <<"?", line>>)
        /\ UNCHANGED <<line, state, temp, target>>
    BY <1>21 DEF Unknown
  <2>2. error' \in Seq(Messages)
    <3>1. <<"?", line>> \in Messages
      BY <1>1 DEF Messages
    <3> QED
      BY <1>1, <2>1, <3>1, AppendProperties
  <2> QED
    BY <1>1, <1>7, <1>10, <2>1, <2>2 DEF LexType
<1> QED
  BY <1>13, <1>14, <1>15, <1>16, <1>17, <1>18, <1>19, <1>20, <1>21, Zenon DEF LexNext

\* The end of the text tells the last word.
LEMMA EndFinishes ==
  ASSUME LexType, EndOfText, Scan(text, temp, state, target, error, line)
  PROVE  Finished'
<1> DEFINE g == target \o Ended
<1>1. /\ g \in Seq(Entries) /\ Told(text, Len(text), g)
      /\ Blamed(text, Len(text), error \o Complaint)
  BY EndWordTells
<1>2. target' = g \o <<EOF>> /\ error' = error \o Complaint /\ text' = text
  BY DEF EndOfText
<1>3. EOF \in Entries
  BY DEF EOF, Entries
<1> HIDE DEF g
<1>4. target' = Append(g, EOF)
  BY <1>1, <1>2, <1>3, AppendIsConcat
<1> QED
  BY <1>1, <1>2, <1>4 DEF Finished

LEMMA InvStarts ==
  ASSUME LexInit
  PROVE  LexInv
<1>1. LexType
  <2>1. 0 \in Nat /\ FALSE \in BOOLEAN /\ \A S : <<>> \in Seq(S)
    OBVIOUS
  <2> QED
    BY <2>1 DEF LexInit, LexType
<1>2. text = <<>> /\ temp = <<>> /\ target = <<>> /\ error = <<>> /\ state = 0 /\ line = 0
      /\ scanned = FALSE
  BY DEF LexInit
<1>3. Len(<<>>) = 0
  OBVIOUS
<1>4. Held(<<>>, <<>>, 0, 0)
  BY <1>3 DEF Held
<1>5. [k \in 1..0 |-> k] \in [1..0 -> 1..0] /\ DOMAIN [k \in 1..0 |-> k] = {}
  OBVIOUS
<1>6. Told(<<>>, 0, <<>>)
  <2>1. Entered(<<>>, 0) = {}
    BY DEF Entered
  <2>2. Rising([k \in 1..0 |-> k])
    BY DEF Rising
  <2> QED
    BY <1>3, <1>5, <2>1, <2>2 DEF Told
<1>7. Blamed(<<>>, 0, <<>>)
  <2>1. Wrong(<<>>, 0) = {}
    BY <1>3 DEF Wrong
  <2> QED
    BY <1>3, <1>5, <2>1 DEF Blamed, Tells
<1>8. LineIn(<<>>, 0) = 0
  <2>1. {j \in 1..0 : <<>>[j] = "\n"} = {}
    OBVIOUS
  <2> QED
    BY <2>1, FS_EmptySet DEF LineIn
<1>9. Scan(<<>>, <<>>, 0, <<>>, <<>>, 0)
  <2>1. 0 \in 0..Len(<<>>)
    BY <1>3
  <2> QED
    BY <1>3, <1>4, <1>6, <1>7, <1>8, <2>1 DEF Scan
<1> QED
  BY <1>1, <1>2, <1>9 DEF LexInv

LEMMA InvKept ==
  ASSUME LexInv, [LexNext]_lxvars
  PROVE  LexInv'
<1>1. CASE UNCHANGED lxvars
  BY <1>1 DEF LexInv, LexType, Finished, lxvars
<1>2. CASE LexNext
  <2>1. LexType /\ LexType'
    BY <1>2, TypesKept DEF LexInv
  <2>2. ~scanned
    BY <1>2, Zenon DEF LexNext, NextIs, Space, Equals, Greater, NewLine, EndOfText, Letter,
                       Digit, Symbol, Unknown
  <2>3. PlainText(text) => Scan(text, temp, state, target, error, line)
    BY <2>2 DEF LexInv
  <2> SUFFICES ASSUME PlainText(text')
               PROVE  IF scanned' THEN Finished'
                      ELSE Scan(text', temp', state', target', error', line')
    BY <2>1, Zenon DEF LexInv
  <2>4. CASE EndOfText
    <3>1. text' = text /\ scanned' = TRUE
      BY <2>4 DEF EndOfText
    <3>2. Scan(text, temp, state, target, error, line)
      BY <2>3, <3>1
    <3> QED
      BY <2>1, <2>4, <3>1, <3>2, EndFinishes
  <2>5. ASSUME NEW c, NextIs(c)  PROVE scanned' = FALSE
    BY <2>1, <2>2, <2>5 DEF NextIs, LexType
  <2>6. CASE Space
    <3>1. scanned' = FALSE
      BY <2>5, <2>6, Zenon DEF Space
    <3> QED
      BY <2>1, <2>3, <2>6, <3>1, SpaceScans, Zenon
  <2>7. CASE Equals
    <3>1. scanned' = FALSE
      BY <2>5, <2>7, Zenon DEF Equals
    <3> QED
      BY <2>1, <2>3, <2>7, <3>1, EqualsScans, Zenon
  <2>8. CASE Greater
    <3>1. scanned' = FALSE
      BY <2>5, <2>8, Zenon DEF Greater
    <3> QED
      BY <2>1, <2>3, <2>8, <3>1, GreaterScans, Zenon
  <2>9. CASE NewLine
    <3>1. scanned' = FALSE
      BY <2>5, <2>9, Zenon DEF NewLine
    <3> QED
      BY <2>1, <2>3, <2>9, <3>1, NewLineScans, Zenon
  <2>10. ASSUME NEW c \in Letters, Letter(c)
         PROVE  ~scanned' /\ Scan(text', temp', state', target', error', line')
    <3>1. scanned' = FALSE
      BY <2>5, <2>10, Zenon DEF Letter
    <3> QED
      BY <2>1, <2>3, <2>10, <3>1, LetterScans
  <2>11. ASSUME NEW c \in Digits, Digit(c)
         PROVE  ~scanned' /\ Scan(text', temp', state', target', error', line')
    <3>1. scanned' = FALSE
      BY <2>5, <2>11, Zenon DEF Digit
    <3> QED
      BY <2>1, <2>3, <2>11, <3>1, DigitScans
  <2>12. ASSUME NEW c \in {"-", "<", ":", ";"}, Symbol(c)
         PROVE  ~scanned' /\ Scan(text', temp', state', target', error', line')
    <3>1. scanned' = FALSE
      BY <2>5, <2>12, Zenon DEF Symbol
    <3> QED
      BY <2>1, <2>3, <2>12, <3>1, SymbolScans, Zenon
  <2>13. ASSUME NEW c \in Strange, Unknown(c)
         PROVE  ~scanned' /\ Scan(text', temp', state', target', error', line')
    <3>1. scanned' = FALSE
      BY <2>5, <2>13, Zenon DEF Unknown
    <3> QED
      BY <2>1, <2>3, <2>13, <3>1, UnknownScans
  <2> QED
    BY <1>2, <2>4, <2>6, <2>7, <2>8, <2>9, <2>10, <2>11, <2>12, <2>13, Zenon DEF LexNext
<1> QED
  BY <1>1, <1>2

-----------------------------------------------------------------------------
(* The runs of a plain text are its longest words.                         *)

\* Where a word starts, a run starts.
LEMMA RunExists ==
  ASSUME NEW t \in Seq(Chars), NEW k \in 1..Len(t), Starts(t, k)
  PROVE  \E e \in k..Len(t) : IsRun(t, Len(t), k, e)
<1> DEFINE L == Len(t)
           S == {j \in (k + 1)..L : Starts(t, j)}
<1>1. CASE S = {}
  <2>1. \A j \in (k + 1)..L : ~Starts(t, j)
    BY <1>1
  <2>2. IsRun(t, L, k, L) /\ L \in k..L
    BY <2>1 DEF IsRun
  <2> QED
    BY <2>2
<1>2. CASE S # {}
  <2>1. S \in SUBSET Nat
    OBVIOUS
  <2>2. PICK m \in S : \A n \in S : m <= n
    BY <1>2, <2>1, LeastOfSome
  <2>3. m \in (k + 1)..L /\ Starts(t, m)
    OBVIOUS
  <2>4. \A j \in (k + 1)..(m - 1) : ~Starts(t, j)
    BY <2>2, <2>3
  <2>5. (m - 1) + 1 = m /\ m - 1 \in k..L
    BY <2>3
  <2>6. IsRun(t, L, k, m - 1)
    BY <2>3, <2>4, <2>5 DEF IsRun
  <2> QED
    BY <2>5, <2>6
<1> QED
  BY <1>1, <1>2

\* What is no word.
LEMMA NoWord ==
  ASSUME NEW w, Len(w) \in Nat, Len(w) > 1,
         w[1] \in Letters => \E i \in 1..Len(w) : w[i] \notin Letters \cup Digits,
         \E i \in 1..Len(w) : w[i] \notin Digits,
         ~(Len(w) = 2 /\ w[1] = "i" /\ w[2] = "f"),
         ~(Len(w) = 2 /\ w[1] = "<" /\ w[2] \in {">", "="}),
         ~(Len(w) = 2 /\ w[1] \in {">", ":"} /\ w[2] = "=")
  PROVE  ~IsWord(w)
<1>1. Len(w) # 1
  OBVIOUS
<1>2. w \notin DOMAIN ItemDict
  BY <1>1, DictWords, Zenon
<1> QED
  BY <1>1, <1>2, Zenon DEF IsWord, All

\* A longer cut of the text than the word at its start.
LEMMA LongerCut ==
  ASSUME NEW t \in Seq(Chars), NEW k \in 1..Len(t), NEW e \in k..Len(t),
         NEW more \in (e + 1)..Len(t)
  PROVE  LET w == SubSeq(t, k, more)
         IN  /\ Len(w) \in Nat /\ Len(w) > 1 /\ w[1] = t[k] /\ w[2] = t[k + 1]
             /\ Len(w) = 2 => e = k
             /\ 1 \in 1..Len(w) /\ ((e + 1) - k) + 1 \in 1..Len(w)
             /\ w[((e + 1) - k) + 1] = t[e + 1]
<1> DEFINE w == SubSeq(t, k, more)
<1>1. more \in k..Len(t)
  OBVIOUS
<1>2. /\ Len(w) = (more - k) + 1
      /\ \A i \in 1..((more - k) + 1) : w[i] = t[(k + i) - 1]
      /\ w[1] = t[k]
  BY <1>1, Cuts
<1> HIDE DEF w
<1>3. ((e + 1) - k) + 1 \in 1..((more - k) + 1) /\ (k + (((e + 1) - k) + 1)) - 1 = e + 1
  OBVIOUS
<1>4. 2 \in 1..((more - k) + 1) /\ (k + 2) - 1 = k + 1
  OBVIOUS
<1>5. w[((e + 1) - k) + 1] = t[e + 1] /\ w[2] = t[k + 1]
  <2> DEFINE n == ((e + 1) - k) + 1
  <2>1. n \in 1..((more - k) + 1) /\ (k + n) - 1 = e + 1
    BY <1>3
  <2> HIDE DEF n
  <2>2. w[n] = t[(k + n) - 1] /\ w[2] = t[(k + 2) - 1]
    BY <1>2, <1>4, <2>1
  <2> QED
    BY <1>4, <2>1, <2>2 DEF n
<1>6. Len(w) \in Nat /\ Len(w) > 1 /\ (Len(w) = 2 => e = k) /\ 1 \in 1..Len(w)
      /\ ((e + 1) - k) + 1 \in 1..Len(w)
  BY <1>2, <1>3
<1> QED
  BY <1>2, <1>5, <1>6 DEF w

\* A run of letters, or of digits.
LEMMA RunOfKind ==
  ASSUME NEW t \in Seq(Chars), NEW k \in 1..Len(t), NEW e \in k..Len(t),
         IsRun(t, Len(t), k, e), NEW S \in {Letters, Digits}, t[k] \in S
  PROVE  /\ \A j \in k..e : t[j] \in S
         /\ All(SubSeq(t, k, e), S)
         /\ e < Len(t) => t[e + 1] \notin S
<1> DEFINE P == {j \in Nat : t[j] \in S}
<1>1. \A a, b : Joins(a, b) /\ a \in S => b \in S
  BY JoinsKinds
<1>2. k \in P
  OBVIOUS
<1>3. \A j \in (k + 1)..e : j - 1 \in P => j \in P
  <2> TAKE j \in (k + 1)..e
  <2>1. ~Starts(t, j) /\ j # 1 /\ j \in Nat
    BY DEF IsRun
  <2>2. Joins(t[j - 1], t[j])
    BY <2>1 DEF Starts
  <2> QED
    BY <1>1, <2>1, <2>2
<1>4. \A j \in k..e : j \in P
  <2>1. k \in Nat /\ e \in Nat
    OBVIOUS
  <2> HIDE DEF P
  <2> QED
    BY <1>2, <1>3, <2>1, AlongARun
<1>5. \A j \in k..e : t[j] \in S
  BY <1>4
<1>6. All(SubSeq(t, k, e), S)
  <2>1. /\ Len(SubSeq(t, k, e)) = (e - k) + 1
        /\ \A i \in 1..((e - k) + 1) : SubSeq(t, k, e)[i] = t[(k + i) - 1]
    BY Cuts
  <2>2. \A i \in 1..((e - k) + 1) : (k + i) - 1 \in k..e
    OBVIOUS
  <2> QED
    BY <1>5, <2>1, <2>2 DEF All
<1>7. ASSUME e < Len(t)  PROVE t[e + 1] \notin S
  <2>1. Starts(t, e + 1) /\ e + 1 # 1 /\ (e + 1) - 1 = e
    BY <1>7 DEF IsRun
  <2>2. ~Joins(t[e], t[e + 1])
    BY <2>1 DEF Starts
  <2>3. t[e] \in S
    BY <1>5
  <2> QED
    BY <2>2, <2>3 DEF Joins
<1> QED
  BY <1>5, <1>6, <1>7

\* In a plain text a run is a word, and no longer cut is one.
LEMMA RunIsLongest ==
  ASSUME NEW t \in Seq(Chars), PlainText(t), NEW k \in 1..Len(t), NEW e \in k..Len(t),
         IsRun(t, Len(t), k, e)
  PROVE  /\ IsWord(SubSeq(t, k, e))
         /\ \A more \in (e + 1)..Len(t) : ~IsWord(SubSeq(t, k, more))
<1> DEFINE L == Len(t)
           v == SubSeq(t, k, e)
<1>1. /\ v \in Seq(Chars) /\ Len(v) = (e - k) + 1 /\ v[1] = t[k]
      /\ \A i \in 1..((e - k) + 1) : v[i] = t[(k + i) - 1]
  BY Cuts
<1> HIDE DEF v
<1>2. ASSUME NEW more \in (e + 1)..L
      PROVE  LET w == SubSeq(t, k, more)
             IN  /\ Len(w) \in Nat /\ Len(w) > 1 /\ w[1] = t[k] /\ w[2] = t[k + 1]
                 /\ Len(w) = 2 => e = k
                 /\ 1 \in 1..Len(w) /\ ((e + 1) - k) + 1 \in 1..Len(w)
                 /\ w[((e + 1) - k) + 1] = t[e + 1]
  BY LongerCut
<1>3. ASSUME e < L
      PROVE  Starts(t, e + 1) /\ ~Joins(t[e], t[e + 1]) /\ e + 1 \in 1..L
  <2>1. Starts(t, e + 1) /\ e + 1 # 1 /\ (e + 1) - 1 = e
    BY <1>3 DEF IsRun
  <2> QED
    BY <1>3, <2>1 DEF Starts
<1>4. \A more \in (e + 1)..L : e < L
  OBVIOUS
<1>5. "i" \in Letters /\ "f" \in Letters
  BY CharAssumption
<1>6. \A a \in {"<", ">", ":"} : a \notin Letters /\ a \notin Digits
  BY Kinds DEF Marks
<1>7. CASE t[k] \in Letters
  <2>1. All(v, Letters) /\ (e < L => t[e + 1] \notin Letters) /\ \A j \in k..e : t[j] \in Letters
    BY <1>7, RunOfKind DEF v
  <2>2. IsWord(v)
    <3>1. All(v, Letters \cup Digits) /\ v[1] \in Letters
      BY <1>1, <1>7, <2>1 DEF All
    <3> QED
      BY <3>1 DEF IsWord
  <2>3. ASSUME NEW more \in (e + 1)..L  PROVE ~IsWord(SubSeq(t, k, more))
    <3> DEFINE w == SubSeq(t, k, more)
               n == ((e + 1) - k) + 1
    <3>1. /\ Len(w) \in Nat /\ Len(w) > 1 /\ w[1] = t[k] /\ w[2] = t[k + 1]
          /\ Len(w) = 2 => e = k
          /\ 1 \in 1..Len(w) /\ n \in 1..Len(w) /\ w[n] = t[e + 1]
      BY <1>2
    <3> HIDE DEF w, n
    <3>2. t[e + 1] \notin Letters /\ t[e + 1] \notin Digits
      <4>1. e < L /\ e + 1 \in 1..L /\ e + 1 # 1 /\ (e + 1) - 1 = e /\ t[e] \in Letters
        BY <1>3, <1>4, <2>1
      <4> QED
        BY <2>1, <4>1 DEF PlainText
    <3>3. w[1] \notin Digits
      BY <1>7, <3>1, Kinds
    <3>4. w[1] \notin {"<", ">", ":"}
      BY <1>6, <1>7, <3>1
    <3>5. ~(Len(w) = 2 /\ w[2] = "f")
      BY <1>5, <3>1, <3>2
    <3>6. ~IsWord(w)
      BY <3>1, <3>2, <3>3, <3>4, <3>5, NoWord
    <3> QED
      BY <3>6 DEF w
  <2> QED
    BY <2>2, <2>3 DEF v
<1>8. CASE t[k] \in Digits
  <2>1. All(v, Digits) /\ (e < L => t[e + 1] \notin Digits)
    BY <1>8, RunOfKind DEF v
  <2>2. IsWord(v)
    BY <2>1 DEF IsWord
  <2>3. ASSUME NEW more \in (e + 1)..L  PROVE ~IsWord(SubSeq(t, k, more))
    <3> DEFINE w == SubSeq(t, k, more)
               n == ((e + 1) - k) + 1
    <3>1. /\ Len(w) \in Nat /\ Len(w) > 1 /\ w[1] = t[k] /\ w[2] = t[k + 1]
          /\ Len(w) = 2 => e = k
          /\ 1 \in 1..Len(w) /\ n \in 1..Len(w) /\ w[n] = t[e + 1]
      BY <1>2
    <3> HIDE DEF w, n
    <3>2. t[e + 1] \notin Digits
      BY <1>4, <2>1
    <3>3. w[1] \notin Letters
      BY <1>8, <3>1, Kinds
    <3>4. w[1] \notin {"<", ">", ":"} /\ w[1] # "i"
      BY <1>5, <1>6, <1>8, <3>1, <3>3
    <3>5. ~IsWord(w)
      BY <3>1, <3>2, <3>3, <3>4, NoWord
    <3> QED
      BY <3>5 DEF w
  <2> QED
    BY <2>2, <2>3 DEF v
<1>9. ASSUME NEW a \in {"<", ":"}, t[k] = a
      PROVE  IsWord(v) /\ \A more \in (e + 1)..L : ~IsWord(SubSeq(t, k, more))
  <2>1. \A b : Joins(a, b) => b \in {">", "="} /\ <<a, b>> \in DOMAIN ItemDict
    <3> TAKE b
    <3> SUFFICES ASSUME Joins(a, b)
                 PROVE  b \in {">", "="} /\ <<a, b>> \in DOMAIN ItemDict
      OBVIOUS
    <3>1. (a = "<" /\ b \in {">", "="}) \/ (a = ":" /\ b = "=")
      BY JoinsKinds
    <3> QED
      BY <3>1, DictMembers
  <2>2. ASSUME NEW j \in (k + 1)..e  PROVE Joins(t[j - 1], t[j])
    BY <2>2 DEF IsRun, Starts
  <2>3. ASSUME e > k  PROVE Joins(a, t[k + 1]) /\ e = k + 1
    <3>1. k + 1 \in (k + 1)..e /\ (k + 1) - 1 = k
      BY <2>3
    <3>2. Joins(a, t[k + 1])
      BY <1>9, <2>2, <3>1
    <3>3. ASSUME e > k + 1  PROVE FALSE
      <4>1. k + 2 \in (k + 1)..e /\ (k + 2) - 1 = k + 1
        BY <3>3
      <4>2. Joins(t[k + 1], t[k + 2])
        BY <2>2, <4>1
      <4>3. t[k + 1] \in {">", "="}
        BY <2>1, <3>2
      <4>4. t[k + 1] \in Letters \cup Digits \cup {"<", ":"}
        BY <4>2, JoinsKinds
      <4>5. ">" \notin Letters \cup Digits /\ "=" \notin Letters \cup Digits
        BY Kinds DEF Marks
      <4> QED
        BY <4>3, <4>4, <4>5
    <3> QED
      BY <2>3, <3>2, <3>3
  <2>4. IsWord(v)
    <3>1. CASE e = k
      <4>1. Len(v) = 1
        BY <1>1, <3>1
      <4> QED
        BY <4>1 DEF IsWord
    <3>2. CASE e > k
      <4>1. e = k + 1 /\ <<a, t[k + 1]>> \in DOMAIN ItemDict
        BY <2>1, <2>3, <3>2
      <4>2. Len(v) = 2 /\ 2 \in 1..((e - k) + 1) /\ (k + 2) - 1 = k + 1
        BY <1>1, <4>1
      <4>3. v = <<t[k], t[k + 1]>>
        BY <1>1, <4>2, ShortLists
      <4> QED
        BY <1>9, <4>1, <4>3 DEF IsWord
    <3> QED
      BY <3>1, <3>2
  <2>5. ASSUME NEW more \in (e + 1)..L  PROVE ~IsWord(SubSeq(t, k, more))
    <3> DEFINE w == SubSeq(t, k, more)
    <3>1. /\ Len(w) \in Nat /\ Len(w) > 1 /\ w[1] = t[k] /\ w[2] = t[k + 1]
          /\ (Len(w) = 2 => e = k) /\ 1 \in 1..Len(w)
      BY <1>2
    <3> HIDE DEF w
    <3>2. w[1] = a /\ a \notin Letters /\ a \notin Digits /\ a # "i" /\ a # ">"
      <4>1. a \notin Letters /\ a \notin Digits
        BY <1>6
      <4>2. a # "i" /\ a # ">"
        OBVIOUS
      <4> QED
        BY <1>9, <3>1, <4>1, <4>2
    <3>3. ASSUME Len(w) = 2  PROVE ~Joins(a, w[2])
      <4>1. e = k /\ e < L
        BY <1>4, <3>1, <3>3
      <4> QED
        BY <1>3, <1>9, <3>1, <4>1
    <3>4. ~(Len(w) = 2 /\ w[1] = "<" /\ w[2] \in {">", "="})
      BY <3>2, <3>3 DEF Joins
    <3>5. ~(Len(w) = 2 /\ w[1] \in {">", ":"} /\ w[2] = "=")
      BY <3>2, <3>3 DEF Joins
    <3>6. ~IsWord(w)
      BY <3>1, <3>2, <3>4, <3>5, NoWord
    <3> QED
      BY <3>6 DEF w
  <2> QED
    BY <2>4, <2>5
<1>10. CASE t[k] = ">"
  <2>1. k > 1 /\ t[k - 1] = "<"
    BY <1>10 DEF PlainText
  <2>2. Joins(t[k - 1], t[k])
    BY <1>10, <2>1 DEF Joins
  <2>3. ~Starts(t, k)
    BY <2>1, <2>2 DEF Starts
  <2> QED
    BY <2>3 DEF IsRun
<1>11. CASE t[k] \notin Letters \cup Digits \cup {"<", ":", ">"}
  <2>1. \A b : ~Joins(t[k], b)
    BY <1>11 DEF Joins
  <2>2. e = k
    <3>1. ASSUME e > k  PROVE FALSE
      <4>1. k + 1 \in (k + 1)..e /\ (k + 1) - 1 = k /\ k + 1 # 1
        BY <3>1
      <4>2. Joins(t[k], t[k + 1])
        BY <4>1 DEF IsRun, Starts
      <4> QED
        BY <2>1, <4>2
    <3> QED
      BY <3>1
  <2>3. IsWord(v)
    <3>1. Len(v) = 1
      BY <1>1, <2>2
    <3> QED
      BY <3>1 DEF IsWord
  <2>4. ASSUME NEW more \in (e + 1)..L  PROVE ~IsWord(SubSeq(t, k, more))
    <3> DEFINE w == SubSeq(t, k, more)
    <3>1. Len(w) \in Nat /\ Len(w) > 1 /\ w[1] = t[k] /\ 1 \in 1..Len(w)
      BY <1>2
    <3> HIDE DEF w
    <3>2. w[1] \notin Letters /\ w[1] \notin Digits /\ w[1] \notin {"<", ":", ">"}
          /\ w[1] # "i"
      BY <1>5, <1>11, <3>1
    <3>3. ~IsWord(w)
      BY <3>1, <3>2, NoWord
    <3> QED
      BY <3>3 DEF w
  <2> QED
    BY <2>3, <2>4 DEF v
<1> QED
  BY <1>7, <1>8, <1>9, <1>10, <1>11 DEF v

-----------------------------------------------------------------------------
(* The words found.                                                        *)

\* The longest word from the start of a run is the run.
LEMMA LongestIsRun ==
  ASSUME text \in Seq(Chars), PlainText(text), NEW k \in 1..Len(text), Starts(text, k)
  PROVE  LongestFrom(k) \in k..Len(text) /\ IsRun(text, Len(text), k, LongestFrom(k))
<1>1. PICK e \in k..Len(text) : IsRun(text, Len(text), k, e)
  BY RunExists
<1>2. /\ IsWord(SubSeq(text, k, e))
      /\ \A more \in (e + 1)..Len(text) : ~IsWord(SubSeq(text, k, more))
  BY <1>1, RunIsLongest
<1> DEFINE Longest(to) == /\ IsWord(SubSeq(text, k, to))
                          /\ \A more \in (to + 1)..Len(text) : ~IsWord(SubSeq(text, k, more))
<1>3. ASSUME NEW to \in k..Len(text), Longest(to)  PROVE to = e
  <2>1. CASE to < e
    <3>1. e \in (to + 1)..Len(text)
      BY <2>1
    <3> QED
      BY <1>2, <1>3, <3>1
  <2>2. CASE to > e
    <3>1. to \in (e + 1)..Len(text)
      BY <2>2
    <3> QED
      BY <1>2, <1>3, <3>1
  <2> QED
    BY <2>1, <2>2
<1>4. LongestFrom(k) = CHOOSE to \in k..Len(text) : Longest(to)
  BY DEF LongestFrom
<1>5. Longest(e)
  BY <1>2
<1> HIDE DEF Longest
<1>6. LongestFrom(k) = e
  BY <1>3, <1>4, <1>5
<1> QED
  BY <1>1, <1>6

\* The starts of runs cut a plain text into its longest words.
LEMMA StartsCut ==
  ASSUME text \in Seq(Chars), PlainText(text)
  PROVE  IsCutting({k \in 1..Len(text) : Starts(text, k)})
<1> DEFINE L == Len(text)
           starts == {k \in 1..L : Starts(text, k)}
<1>1. L \in Nat
  BY LenProperties
<1>2. \A j \in starts : LongestFrom(j) \in j..L /\ IsRun(text, L, j, LongestFrom(j))
  BY LongestIsRun
<1>3. ASSUME NEW k \in 1..L, NEW j \in starts, LongestFrom(j) + 1 = k
      PROVE  k \in starts
  <2>1. LongestFrom(j) \in j..L /\ IsRun(text, L, j, LongestFrom(j))
    BY <1>2
  <2>2. LongestFrom(j) # L
    BY <1>1, <1>3, <2>1
  <2>3. Starts(text, k)
    BY <1>3, <2>1, <2>2 DEF IsRun
  <2> QED
    BY <2>3
<1>4. ASSUME NEW k \in 1..L, Starts(text, k), k # 1
      PROVE  \E j \in starts : LongestFrom(j) + 1 = k
  <2> DEFINE S == {j \in 1..(k - 1) : Starts(text, j)}
  <2>1. S \in SUBSET (0..(k - 1)) /\ k - 1 \in Nat
    BY <1>4
  <2>2. 1 \in S
    BY <1>4 DEF Starts
  <2>3. PICK j \in S : \A n \in S : n <= j
    <3> HIDE DEF S
    <3>1. S # {}
      BY <2>2
    <3> QED
      BY <2>1, <3>1, GreatestOfSome
  <2>4. j \in 1..(k - 1) /\ Starts(text, j) /\ j \in starts
    BY <1>1
  <2>5. LongestFrom(j) \in j..L /\ IsRun(text, L, j, LongestFrom(j))
    BY <1>2, <2>4
  <2> DEFINE e == LongestFrom(j)
  <2>6. e \in j..L /\ IsRun(text, L, j, e)
    BY <2>5
  <2> HIDE DEF e
  <2>7. ~(e >= k)
    <3>1. ASSUME e >= k  PROVE FALSE
      <4>1. k \in (j + 1)..e
        BY <2>4, <2>6, <3>1
      <4> QED
        BY <1>4, <2>6, <4>1 DEF IsRun
    <3> QED
      BY <3>1
  <2>8. ~(e + 1 < k)
    <3>1. ASSUME e + 1 < k  PROVE FALSE
      <4>1. e # L /\ e + 1 \in 1..(k - 1)
        BY <1>1, <2>4, <2>6, <3>1
      <4>2. Starts(text, e + 1)
        BY <2>6, <4>1 DEF IsRun
      <4>3. e + 1 \in S
        BY <4>1, <4>2
      <4>4. e + 1 <= j
        BY <2>3, <4>3
      <4> QED
        BY <2>4, <2>6, <4>4
    <3> QED
      BY <3>1
  <2>9. e + 1 = k
    BY <2>4, <2>6, <2>7, <2>8
  <2> QED
    BY <2>4, <2>9 DEF e
<1>5. 1 \in 1..L => 1 \in starts
  BY DEF Starts
<1>6. \A k \in 1..L : k \in starts <=> k = 1 \/ \E j \in starts : LongestFrom(j) + 1 = k
  <2> TAKE k \in 1..L
  <2>1. k = 1 => k \in starts
    BY <1>5
  <2>2. k \in starts /\ k # 1 => \E j \in starts : LongestFrom(j) + 1 = k
    BY <1>4
  <2>3. (\E j \in starts : LongestFrom(j) + 1 = k) => k \in starts
    BY <1>3
  <2> QED
    BY <2>1, <2>2, <2>3
<1> QED
  BY <1>6 DEF IsCutting

\* What is told of a whole plain text are its longest words with their entries.
LEMMA ToldIsTargeted ==
  ASSUME LexType, PlainText(text), Finished
  PROVE  Targeted /\ target[Len(target)] = EOF
<1> DEFINE L == Len(text)
           starts == {k \in 1..L : Starts(text, k)}
<1>1. text \in Seq(Chars) /\ L \in Nat
  BY LenProperties DEF LexType
<1>2. PICK g \in Seq(Entries) : target = Append(g, EOF) /\ Told(text, L, g)
  BY DEF Finished
<1>3. /\ Len(target) = Len(g) + 1 /\ target[Len(target)] = EOF /\ Len(g) \in Nat
      /\ \A m \in 1..Len(g) : target[m] = g[m]
  <2>1. EOF \in Entries
    BY DEF EOF, Entries
  <2>2. /\ Len(target) = Len(g) + 1 /\ Len(g) \in Nat /\ target[Len(g) + 1] = EOF
        /\ \A m \in 1..Len(g) : target[m] = g[m]
    BY <1>2, <2>1, AppendProperties, LenProperties
  <2> QED
    BY <2>2
<1>4. PICK at \in [1..Len(g) -> 1..L] :
        /\ Rising(at) /\ {at[m] : m \in DOMAIN at} = Entered(text, L)
        /\ \A m \in DOMAIN at, e \in 1..L :
              at[m] <= e /\ IsRun(text, L, at[m], e) => g[m] = Entry(SubSeq(text, at[m], e))
  BY <1>2 DEF Told
<1>5. at \in [1..(Len(target) - 1) -> 1..L] /\ DOMAIN at = 1..Len(g)
  <2>1. Len(target) - 1 = Len(g)
    BY <1>3
  <2> QED
    BY <2>1
<1>6. ASSUME NEW k \in starts
      PROVE  /\ LongestFrom(k) \in k..L /\ IsRun(text, L, k, LongestFrom(k))
             /\ HasEntry(WordFrom(k)) <=> k \in Entered(text, L)
  <2>1. k \in 1..L /\ Starts(text, k)
    OBVIOUS
  <2>2. LongestFrom(k) \in k..L /\ IsRun(text, L, k, LongestFrom(k))
    BY <1>1, <2>1, LongestIsRun
  <2>3. HasEntry(WordFrom(k)) <=> text[k] \notin Strange \cup {" "} /\ ~Bare(text, L, k)
    <3>1. k \in 1..L /\ LongestFrom(k) \in k..L /\ L <= Len(text)
      BY <1>1, <2>1, <2>2
    <3> QED
      BY <1>1, <2>2, <3>1, EntryOfRun DEF WordFrom
  <2> QED
    BY <2>1, <2>2, <2>3 DEF Entered
<1>7. {k \in starts : HasEntry(WordFrom(k))} = Entered(text, L)
  <2>1. Entered(text, L) \subseteq starts
    BY DEF Entered
  <2> HIDE DEF starts
  <2> QED
    BY <1>6, <2>1
<1>8. \A m \in DOMAIN at : target[m] = Entry(WordFrom(at[m]))
  <2> TAKE m \in DOMAIN at
  <2>1. at[m] \in Entered(text, L) /\ at[m] \in 1..L
    BY <1>4
  <2>2. at[m] \in starts
    BY <2>1 DEF Entered
  <2>3. LongestFrom(at[m]) \in at[m]..L /\ IsRun(text, L, at[m], LongestFrom(at[m]))
    BY <1>6, <2>2
  <2>4. LongestFrom(at[m]) \in 1..L /\ at[m] <= LongestFrom(at[m])
    BY <2>1, <2>3
  <2>5. g[m] = Entry(SubSeq(text, at[m], LongestFrom(at[m])))
    BY <1>4, <2>3, <2>4
  <2>6. target[m] = g[m]
    BY <1>3, <1>5
  <2> QED
    BY <2>5, <2>6 DEF WordFrom
<1>9. IsCutting(starts)
  BY <1>1, StartsCut
<1>10. starts \in SUBSET (1..L)
  OBVIOUS
<1> HIDE DEF starts
<1>11. {at[m] : m \in DOMAIN at} = {k \in starts : HasEntry(WordFrom(k))}
  BY <1>4, <1>7
<1>12. Targeted
  BY <1>4, <1>5, <1>8, <1>9, <1>10, <1>11, Zenon DEF Targeted
<1> QED
  BY <1>3, <1>12

\* The messages about a whole text.
LEMMA BlamedIsComplained ==
  ASSUME LexType, Finished
  PROVE  Complained
<1> DEFINE L == Len(text)
<1>1. L \in Nat
  BY LenProperties DEF LexType
<1>2. Tells(text, Wrong(text, L), error)
  BY DEF Finished, Blamed
<1>3. PICK at \in [1..Len(error) -> 1..L] :
        /\ \A l, m \in DOMAIN at : l # m => at[l] # at[m]
        /\ {at[m] : m \in DOMAIN at} = Wrong(text, L)
        /\ \A m \in DOMAIN at :
              error[m] = <<IF text[at[m]] \in Strange THEN "?" ELSE ":", LineIn(text, at[m])>>
        /\ \A l, m \in DOMAIN at : l < m => LineIn(text, at[l]) <= LineIn(text, at[m])
  BY <1>2 DEF Tells
<1>4. \A k : LineOf(k) = LineIn(text, k)
  BY DEF LineOf, LineIn
<1>5. Wrong(text, L) = {k \in 1..L : IsStrange(k) \/ IsBareColon(k)}
  BY DEF Wrong, Bare, IsStrange, IsBareColon
<1>6. \A m \in DOMAIN at : error[m] = Message(at[m])
  BY <1>3, <1>4 DEF Message, IsStrange
<1>7. \A l, m \in DOMAIN at : l < m => LineOf(at[l]) <= LineOf(at[m])
  BY <1>3, <1>4
<1>8. {at[m] : m \in DOMAIN at} = {k \in 1..L : IsStrange(k) \/ IsBareColon(k)}
  BY <1>3, <1>5
<1> QED
  BY <1>3, <1>6, <1>7, <1>8 DEF Complained

\* Plain, of the text that was read.
LEMMA PlainIsPlain ==
  Plain => PlainText(text)
BY DEF Plain, PlainText, Apart

LEMMA InvHolds ==
  LexSpec => []LexInv
<1>1. LexInit => LexInv
  BY InvStarts
<1>2. LexInv /\ [LexNext]_lxvars => LexInv'
  BY InvKept
<1> QED
  BY <1>1, <1>2, PTL DEF LexSpec

\* On a plain text of any length the scanner finds the longest words, in their order and
\* with their numbers, whatever state earlier words left behind, and complains about each
\* strange character and each ":" without "=" once, at its line and line by line.
THEOREM ScannerFindsWords ==
  LexSpec => []WordsFound
<1>1. LexInv => WordsFound
  <2> SUFFICES ASSUME LexInv, scanned, Plain
               PROVE  Targeted /\ target[Len(target)] = EOF /\ Complained
    BY DEF WordsFound
  <2>1. LexType /\ PlainText(text) /\ Finished
    BY PlainIsPlain DEF LexInv
  <2> QED
    BY <2>1, ToldIsTargeted, BlamedIsComplained
<1> QED
  BY <1>1, InvHolds, PTL

-----------------------------------------------------------------------------
(* The parser. *)

\* What a procedure may still have to do.  cs flattens to f when the phrases of the active
\* procedures, put behind each other, and the end of the text are f.
Items == Words \ {"EOF"}
IsFlat(cs, f) ==
    \E s \in [1..(Len(cs) + 1) -> Seq(Words)] :
        /\ s[1] = f /\ s[Len(cs) + 1] = <<"EOF">>
        /\ \A k \in 1..Len(cs) : s[k] = cs[k] \o s[k + 1]

\* A phrase in front of another.
LEMMA FrontOf ==
    ASSUME NEW W, NEW p \in Seq(W), NEW g \in Seq(W)
    PROVE  /\ p \o g \in Seq(W)
           /\ p = <<>> => p \o g = g
           /\ p # <<>> => /\ p \o g # <<>> /\ (p \o g)[1] = p[1]
                          /\ Tail(p) \in Seq(W) /\ Tail(p \o g) = Tail(p) \o g
<1>1. p \o g \in Seq(W)
  BY ConcatProperties
<1>2. /\ Len(p \o g) = Len(p) + Len(g)
      /\ \A i \in 1..Len(p) : (p \o g)[i] = p[i]
      /\ \A i \in (Len(p) + 1)..(Len(p) + Len(g)) : (p \o g)[i] = g[i - Len(p)]
  BY ConcatProperties
<1>3. CASE p = <<>>
  BY <1>1, <1>3, ConcatEmptySeq
<1>4. CASE p # <<>>
  <2>1. Len(p) \in Nat /\ Len(p) > 0 /\ Len(g) \in Nat
    BY <1>4, LenProperties, EmptySeq
  <2>2. (p \o g)[1] = p[1] /\ p \o g # <<>>
    BY <1>2, <2>1, <1>1, EmptySeq
  <2>3. /\ Tail(p) \in Seq(W) /\ Len(Tail(p)) = Len(p) - 1
        /\ \A i \in 1..Len(Tail(p)) : Tail(p)[i] = p[i + 1]
    BY <1>4, HeadTailProperties
  <2>4. /\ Tail(p \o g) \in Seq(W) /\ Len(Tail(p \o g)) = Len(p \o g) - 1
        /\ \A i \in 1..Len(Tail(p \o g)) : Tail(p \o g)[i] = (p \o g)[i + 1]
    BY <1>1, <2>2, HeadTailProperties
  <2>5. /\ Tail(p) \o g \in Seq(W) /\ Len(Tail(p) \o g) = Len(p) - 1 + Len(g)
        /\ \A i \in 1..(Len(p) - 1) : (Tail(p) \o g)[i] = Tail(p)[i]
        /\ \A i \in Len(p)..(Len(p) - 1 + Len(g)) : (Tail(p) \o g)[i] = g[i - (Len(p) - 1)]
    <3>1. /\ Tail(p) \o g \in Seq(W) /\ Len(Tail(p) \o g) = Len(Tail(p)) + Len(g)
          /\ \A i \in 1..Len(Tail(p)) : (Tail(p) \o g)[i] = Tail(p)[i]
          /\ \A i \in (Len(Tail(p)) + 1)..(Len(Tail(p)) + Len(g)) :
                (Tail(p) \o g)[i] = g[i - Len(Tail(p))]
      BY <2>3, ConcatProperties
    <3> QED BY <3>1, <2>3, <2>1
  <2>6. ASSUME NEW i \in 1..Len(Tail(p \o g))
        PROVE  Tail(p \o g)[i] = (Tail(p) \o g)[i]
    <3>1. i \in 1..(Len(p) - 1 + Len(g)) /\ i \in Nat
      BY <2>4, <1>2, <2>1
    <3>2. CASE i <= Len(p) - 1
      BY <3>1, <3>2, <2>3, <2>4, <2>5, <1>2, <2>1
    <3>3. CASE i > Len(p) - 1
      <4>1. (p \o g)[i + 1] = g[(i + 1) - Len(p)]
        BY <3>1, <3>3, <2>1, <1>2
      <4>2. (Tail(p) \o g)[i] = g[i - (Len(p) - 1)]
        BY <3>1, <3>3, <2>1, <2>5
      <4>3. (i + 1) - Len(p) = i - (Len(p) - 1)
        BY <3>1, <2>1
      <4> QED BY <4>1, <4>2, <4>3, <2>4
    <3> QED BY <3>1, <3>2, <3>3, <2>1
  <2>7. Len(Tail(p \o g)) = Len(Tail(p) \o g)
    BY <2>4, <2>5, <1>2, <2>1
  <2>8. Tail(p \o g) = Tail(p) \o g
    BY <2>4, <2>5, <2>6, <2>7, SeqEqual
  <2> QED BY <1>1, <1>4, <2>2, <2>3, <2>8
<1> QED BY <1>3, <1>4

\* The same of phrases of words.
LEMMA FrontOfWords ==
    ASSUME NEW p \in Seq(Words), NEW g \in Seq(Words), p # <<>>
    PROVE  /\ p \o g \in Seq(Words) /\ p \o g # <<>> /\ (p \o g)[1] = p[1]
           /\ Tail(p) \in Seq(Words) /\ Tail(p \o g) = Tail(p) \o g
<1> DEFINE W == Words
<1> HIDE DEF W
<1>1. p \in Seq(W) /\ g \in Seq(W)
  BY DEF W
<1>2. /\ p \o g \in Seq(W) /\ p \o g # <<>> /\ (p \o g)[1] = p[1]
      /\ Tail(p) \in Seq(W) /\ Tail(p \o g) = Tail(p) \o g
  BY <1>1, FrontOf
<1> QED BY <1>2 DEF W

\* One phrase more in front of some.
LEMMA FlatPush ==
    ASSUME NEW cs \in Seq(Seq(Words)), NEW todo \in Seq(Words), NEW f \in Seq(Words), IsFlat(cs, f)
    PROVE  /\ todo \o f \in Seq(Words)
           /\ IsFlat(<<todo>> \o cs, todo \o f)
<1> DEFINE n == Len(cs) new == <<todo>> \o cs
<1>1. n \in Nat
  BY LenProperties
<1>2. PICK s \in [1..(n + 1) -> Seq(Words)] :
         /\ s[1] = f /\ s[n + 1] = <<"EOF">>
         /\ \A k \in 1..n : s[k] = cs[k] \o s[k + 1]
  BY DEF IsFlat
<1>3. todo \o f \in Seq(Words)
  BY ConcatProperties
<1> DEFINE z == [k \in 1..(n + 2) |-> IF k = 1 THEN todo \o f ELSE s[k - 1]]
<1>4. Len(new) = n + 1 /\ new[1] = todo /\ \A k \in 2..(n + 1) : new[k] = cs[k - 1]
  <2>1. <<todo>> \in Seq(Seq(Words)) /\ Len(<<todo>>) = 1 /\ <<todo>>[1] = todo
    OBVIOUS
  <2>2. Len(new) = 1 + n /\ (\A i \in 1..1 : new[i] = <<todo>>[i])
         /\ \A i \in 2..(1 + n) : new[i] = cs[i - 1]
    BY <2>1, ConcatProperties
  <2> QED BY <2>1, <2>2, <1>1
<1>5. z \in [1..(n + 2) -> Seq(Words)]
  BY <1>1, <1>2, <1>3
<1>6. z[1] = todo \o f /\ z[n + 2] = <<"EOF">>
  BY <1>1, <1>2
<1>7. ASSUME NEW k \in 1..(n + 1)
      PROVE  z[k] = new[k] \o z[k + 1]
  <2>1. CASE k = 1
    <3>1. z[2] = s[1]
      BY <1>1
    <3> QED BY <2>1, <3>1, <1>2, <1>4, <1>6
  <2>2. CASE k # 1
    <3>1. z[k] = s[k - 1] /\ z[k + 1] = s[k] /\ k - 1 \in 1..n /\ (k - 1) + 1 = k
      BY <1>1, <2>2
    <3>2. new[k] = cs[k - 1]
      BY <1>4, <2>2, <1>1
    <3>3. s[k - 1] = cs[k - 1] \o s[(k - 1) + 1]
      BY <1>2, <3>1
    <3> QED BY <3>1, <3>2, <3>3
  <2> QED BY <2>1, <2>2
<1>8. Len(new) + 1 = n + 2
  BY <1>4, <1>1
<1> HIDE DEF z, new
<1>9. IsFlat(new, todo \o f)
  BY <1>4, <1>5, <1>6, <1>7, <1>8 DEF IsFlat
<1> QED BY <1>3, <1>9 DEF new

\* The first phrase, and what the others flatten to.
LEMMA FlatPop ==
    ASSUME NEW cs \in Seq(Seq(Words)), cs # <<>>, NEW f \in Seq(Words), IsFlat(cs, f)
    PROVE  \E g \in Seq(Words) : IsFlat(Tail(cs), g) /\ f = cs[1] \o g
<1> DEFINE n == Len(cs) new == Tail(cs)
<1>1. n \in Nat /\ n > 0
  BY LenProperties, EmptySeq
<1>2. PICK s \in [1..(n + 1) -> Seq(Words)] :
         /\ s[1] = f /\ s[n + 1] = <<"EOF">>
         /\ \A k \in 1..n : s[k] = cs[k] \o s[k + 1]
  BY DEF IsFlat
<1>3. Len(new) = n - 1 /\ \A k \in 1..(n - 1) : new[k] = cs[k + 1]
  BY HeadTailProperties
<1> HIDE DEF n
<1> DEFINE z == [k \in 1..n |-> s[k + 1]]
<1>4. z \in [1..n -> Seq(Words)] /\ z[1] = s[2] /\ z[n] = <<"EOF">> /\ s[2] \in Seq(Words)
  BY <1>1, <1>2
<1>5. ASSUME NEW k \in 1..(n - 1)
      PROVE  z[k] = new[k] \o z[k + 1]
  <2>1. z[k] = s[k + 1] /\ z[k + 1] = s[(k + 1) + 1] /\ k + 1 \in 1..n
    BY <1>1
  <2>2. new[k] = cs[k + 1]
    BY <1>3
  <2>3. s[k + 1] = cs[k + 1] \o s[(k + 1) + 1]
    BY <2>1, <1>2
  <2> QED BY <2>1, <2>2, <2>3
<1>6. (Len(new) + 1) = n
  BY <1>3, <1>1
<1> HIDE DEF z, new
<1>7. IsFlat(new, s[2])
  BY <1>3, <1>4, <1>5, <1>6 DEF IsFlat
<1>8. f = cs[1] \o s[2]
  <2>1. 1 \in 1..n /\ 1 + 1 = 2
    BY <1>1
  <2>2. s[1] = cs[1] \o s[1 + 1]
    BY <2>1, <1>2
  <2> QED BY <2>1, <2>2, <1>2
<1> QED BY <1>4, <1>7, <1>8 DEF new

\* Phrases of items are phrases of words.
LEMMA ItemsAreWords ==
    /\ Seq(Items) \subseteq Seq(Words)
    /\ Seq(Seq(Items) \ {<<>>}) \subseteq Seq(Seq(Words))
<1>1. Items \subseteq Words
  BY DEF Items
<1>2. Seq(Items) \subseteq Seq(Words)
  BY <1>1, SeqMonotonic
<1>3. Seq(Items) \ {<<>>} \subseteq Seq(Words)
  BY <1>2
<1> QED BY <1>2, <1>3, SeqMonotonic

\* What is left when the item at the front is done.
LEMMA FlatRest ==
    ASSUME NEW cs \in Seq(Seq(Items) \ {<<>>}), cs # <<>>, NEW f \in Seq(Words), IsFlat(cs, f)
    PROVE  /\ cs[1] \in Seq(Items) /\ cs[1] # <<>> /\ cs[1][1] \in Items
           /\ f # <<>> /\ f[1] = cs[1][1] /\ Tail(f) \in Seq(Words)
           /\ Tail(cs) \in Seq(Seq(Items) \ {<<>>})
           /\ Active(Tail(cs[1])) \o Tail(cs) \in Seq(Seq(Items) \ {<<>>})
           /\ IsFlat(Active(Tail(cs[1])) \o Tail(cs), Tail(f))
<1>1. cs \in Seq(Seq(Words)) /\ cs[1] \in Seq(Items) /\ cs[1] # <<>>
       /\ Tail(cs) \in Seq(Seq(Items) \ {<<>>}) /\ Tail(cs) \in Seq(Seq(Words))
  <2>1. Len(cs) \in Nat /\ Len(cs) > 0
    BY LenProperties, EmptySeq
  <2>2. cs \in Seq(Seq(Words))
    BY ItemsAreWords
  <2>3. Tail(cs) \in Seq(Seq(Items) \ {<<>>}) /\ cs[1] \in Seq(Items) \ {<<>>}
    BY <2>1, HeadTailProperties, ElementOfSeq
  <2> QED BY <2>1, <2>2, <2>3, ItemsAreWords
<1>1a. cs[1] \in Seq(Words) /\ cs[1][1] \in Items /\ Tail(cs[1]) \in Seq(Items)
  <2>1. Len(cs[1]) \in Nat /\ Len(cs[1]) > 0
    BY <1>1, LenProperties, EmptySeq
  <2> QED BY <1>1, <2>1, HeadTailProperties, ElementOfSeq, ItemsAreWords
<1>2. PICK g \in Seq(Words) : IsFlat(Tail(cs), g) /\ f = cs[1] \o g
  BY <1>1, FlatPop
<1>3. /\ f # <<>> /\ f[1] = cs[1][1] /\ Tail(cs[1]) \in Seq(Words) /\ Tail(f) = Tail(cs[1]) \o g
  <2> DEFINE p == cs[1]
  <2>1. p \in Seq(Words) /\ p # <<>>
    BY <1>1, <1>1a
  <2> HIDE DEF p
  <2>2. p \o g # <<>> /\ (p \o g)[1] = p[1] /\ Tail(p) \in Seq(Words) /\ Tail(p \o g) = Tail(p) \o g
    BY <2>1, FrontOfWords
  <2>3. f = p \o g
    BY <1>2 DEF p
  <2> QED BY <2>2, <2>3 DEF p
<1>4. Tail(f) \in Seq(Words)
  BY <1>3, ConcatProperties
<1>5. CASE Tail(cs[1]) = <<>>
  <2>1. Active(Tail(cs[1])) \o Tail(cs) = Tail(cs)
    BY <1>1, <1>5, ConcatEmptySeq DEF Active
  <2>2. Tail(f) = g
    BY <1>3, <1>5, ConcatEmptySeq
  <2> QED BY <1>1, <1>1a, <1>2, <1>3, <1>4, <2>1, <2>2
<1>6. CASE Tail(cs[1]) # <<>>
  <2>1. Active(Tail(cs[1])) \o Tail(cs) = <<Tail(cs[1])>> \o Tail(cs)
    BY <1>6 DEF Active
  <2>2. <<Tail(cs[1])>> \o Tail(cs) \in Seq(Seq(Items) \ {<<>>})
    <3>1. <<Tail(cs[1])>> \in Seq(Seq(Items) \ {<<>>})
      BY <1>1a, <1>6
    <3> QED BY <3>1, <1>1, ConcatProperties
  <2>3. IsFlat(<<Tail(cs[1])>> \o Tail(cs), Tail(cs[1]) \o g)
    BY <1>1, <1>2, <1>3, FlatPush
  <2> QED BY <1>1, <1>1a, <1>3, <1>4, <2>1, <2>2, <2>3
<1> QED BY <1>5, <1>6

\* A procedure that is called stands before what its caller has still to do.
LEMMA FlatCall ==
    ASSUME NEW cs \in Seq(Seq(Items) \ {<<>>}), NEW p \in Seq(Items), NEW f \in Seq(Words),
           IsFlat(cs, f)
    PROVE  /\ p \o f \in Seq(Words)
           /\ Active(p) \o cs \in Seq(Seq(Items) \ {<<>>})
           /\ IsFlat(Active(p) \o cs, p \o f)
<1>1. cs \in Seq(Seq(Words)) /\ p \in Seq(Words)
  BY ItemsAreWords
<1>2. CASE p = <<>>
  BY <1>2, ConcatEmptySeq DEF Active
<1>3. CASE p # <<>>
  <2>1. Active(p) = <<p>>
    BY <1>3 DEF Active
  <2>2. <<p>> \in Seq(Seq(Items) \ {<<>>})
    BY <1>3
  <2>3. <<p>> \o cs \in Seq(Seq(Items) \ {<<>>})
    BY <2>2, ConcatProperties
  <2> QED BY <1>1, <2>1, <2>3, FlatPush
<1> QED BY <1>2, <1>3

-----------------------------------------------------------------------------
(* Reading. *)

\* One step of the replacement, and phrases that are done with it after so many steps.
Settled(f) == f = <<>> \/ f[1] \notin DOMAIN Rules
Leads(f) == {rule \o Tail(f) : rule \in Rules[f[1]]}
Next1(f) == IF Settled(f) THEN {f} ELSE Leads(f)
Ready1(f) == \A g \in Next1(f) : Settled(g)
Ready2(f) == \A g \in Next1(f) : Ready1(g)
Ready3(f) == \A g \in Next1(f) : Ready2(g)
Ready4(f) == \A g \in Next1(f) : Ready3(g)
Ready5(f) == \A g \in Next1(f) : Ready4(g)

After1(f) == Replaced({f})
After2(f) == Replaced(After1(f))
After3(f) == Replaced(After2(f))
After4(f) == Replaced(After3(f))

\* Replacing in one phrase is one step.
LEMMA ReplacedOne == \A f : Replaced({f}) = Next1(f)
  BY DEF Replaced, Next1, Settled, Leads

\* Replacing in many phrases is replacing in each.
LEMMA ReplacedUnion ==
    ASSUME NEW X
    PROVE  \A y : y \in Replaced(X) <=> \E x \in X : y \in Next1(x)
  BY DEF Replaced, Next1, Settled, Leads

\* The first step may as well be taken first.
LEMMA StepsCommute ==
    ASSUME NEW f
    PROVE  /\ \A y : y \in After2(f) <=> \E g \in Next1(f) : y \in After1(g)
           /\ \A y : y \in After3(f) <=> \E g \in Next1(f) : y \in After2(g)
           /\ \A y : y \in After4(f) <=> \E g \in Next1(f) : y \in After3(g)
           /\ \A y : y \in Expanded(f) <=> \E g \in Next1(f) : y \in After4(g)
<1>1. After1(f) = Next1(f) /\ \A g : After1(g) = Next1(g)
  BY ReplacedOne, Zenon DEF After1
<1>2. \A g, y : y \in After2(g) <=> \E x \in After1(g) : y \in Next1(x)
  BY ReplacedUnion, Zenon DEF After2
<1>3. \A g, y : y \in After3(g) <=> \E x \in After2(g) : y \in Next1(x)
  BY ReplacedUnion, Zenon DEF After3
<1>4. \A g, y : y \in After4(g) <=> \E x \in After3(g) : y \in Next1(x)
  BY ReplacedUnion, Zenon DEF After4
<1>5. \A g, y : y \in Expanded(g) <=> \E x \in After4(g) : y \in Next1(x)
  BY ReplacedUnion, Zenon DEF Expanded, After4, After3, After2, After1
<1>6. \A y : y \in After2(f) <=> \E g \in Next1(f) : y \in After1(g)
  BY <1>1, <1>2, Zenon
<1>7. \A y : y \in After3(f) <=> \E g \in Next1(f) : y \in After2(g)
  BY <1>2, <1>3, <1>6, Zenon
<1>8. \A y : y \in After4(f) <=> \E g \in Next1(f) : y \in After3(g)
  BY <1>3, <1>4, <1>7, Zenon
<1>9. \A y : y \in Expanded(f) <=> \E g \in Next1(f) : y \in After4(g)
  BY <1>4, <1>5, <1>8, Zenon
<1> QED BY <1>6, <1>7, <1>8, <1>9

\* What is done after four steps is not changed by a fifth.
LEMMA FourSettle ==
    ASSUME NEW f, Ready4(f)
    PROVE  Expanded(f) = After4(f)
<1>1. ASSUME NEW g, Ready1(g) PROVE \A x \in After1(g) : Settled(x)
  BY <1>1, ReplacedOne, Zenon DEF Ready1, After1
<1>2. ASSUME NEW g, Ready2(g) PROVE \A x \in After2(g) : Settled(x)
  BY <1>1, <1>2, StepsCommute, Zenon DEF Ready2
<1>3. ASSUME NEW g, Ready3(g) PROVE \A x \in After3(g) : Settled(x)
  BY <1>2, <1>3, StepsCommute, Zenon DEF Ready3
<1>4. \A x \in After4(f) : Settled(x)
  BY <1>3, StepsCommute, Zenon DEF Ready4
<1>5. \A x, y : Settled(x) => (y \in Next1(x) <=> y = x)
  BY DEF Next1
<1>6. \A y : y \in Expanded(f) <=> \E x \in After4(f) : y \in Next1(x)
  BY ReplacedUnion, Zenon DEF Expanded, After4, After3, After2, After1
<1>7. ASSUME NEW y
      PROVE  y \in Expanded(f) <=> y \in After4(f)
  <2>1. ASSUME y \in Expanded(f) PROVE y \in After4(f)
    <3>1. PICK x \in After4(f) : y \in Next1(x)
      BY <2>1, <1>6
    <3>2. y = x
      BY <3>1, <1>4, <1>5
    <3> QED BY <3>1, <3>2
  <2>2. ASSUME y \in After4(f) PROVE y \in Expanded(f)
    BY <2>2, <1>4, <1>5, <1>6, Zenon
  <2> QED BY <2>1, <2>2
<1> QED BY <1>7, Zenon

\* A symbol that is no terminal expands to what its rules expand to.
LEMMA ExpandsByRules ==
    ASSUME NEW f, Ready5(f), ~Settled(f)
    PROVE  \A y : y \in Expanded(f) <=> \E g \in Leads(f) : y \in Expanded(g)
<1>1. Next1(f) = Leads(f)
  BY DEF Next1
<1>2. \A g \in Leads(f) : Ready4(g)
  BY <1>1, Zenon DEF Ready5
<1>3. \A g : Ready4(g) => Expanded(g) = After4(g)
  BY FourSettle
<1>4. \A y : y \in Expanded(f) <=> \E g \in Leads(f) : y \in After4(g)
  <2>1. \A y : y \in Expanded(f) <=> \E g \in Next1(f) : y \in After4(g)
    BY StepsCommute
  <2> QED BY <1>1, <2>1
<1> QED BY <1>2, <1>3, <1>4, Zenon

\* A terminal in front expands to itself.
LEMMA ExpandsToItself ==
    ASSUME NEW f, Settled(f)
    PROVE  Expanded(f) = {f}
<1>1. \A g : g = f => Next1(g) = {f}
  BY Zenon DEF Next1
<1>2. Replaced({f}) = {f}
  BY <1>1, ReplacedOne, Zenon
<1> QED BY <1>2, Zenon DEF Expanded

\* What may follow when a is the current token and b the next; a text ends with one EOF.
One(f, K) == {[todo |-> f, known |-> K]}
Read(f, K, t) == After(One(f, K), t)
Seen(f, K, a, b) == IF a = "EOF" THEN Read(f, K, a) ELSE After(Read(f, K, a), b)

\* What is left of a phrase x when t has been read as its first symbol.
Behind(x, K, t) == [todo |-> Tail(x), known |-> IF x[1] = "define" THEN K \cup {t} ELSE K]

\* What is wanted behind t, element by element.
LEMMA AfterEach ==
    ASSUME NEW C, NEW t
    PROVE  \A y : y \in After(C, t) <=>
              \E c \in C : \E x \in Expanded(c.todo) :
                 x # <<>> /\ Matches(x[1], t, c.known) /\ y = Behind(x, c.known, t)
<1> DEFINE all == UNION {{[todo |-> x, known |-> c.known] : x \in Expanded(c.todo)} : c \in C}
           read == {d \in all : d.todo # <<>> /\ Matches(d.todo[1], t, d.known)}
           next(d) == [todo |-> Tail(d.todo),
                       known |-> IF d.todo[1] = "define" THEN d.known \cup {t} ELSE d.known]
<1>1. After(C, t) = {next(d) : d \in read}
  BY Zenon DEF After
<1>2. \A d : d \in all <=> \E c \in C : \E x \in Expanded(c.todo) :
                              d = [todo |-> x, known |-> c.known]
  OBVIOUS
<1>3. \A x, k : LET d == [todo |-> x, known |-> k] IN d.todo = x /\ d.known = k
  OBVIOUS
<1>4. ASSUME NEW y, y \in After(C, t)
      PROVE  \E c \in C : \E x \in Expanded(c.todo) :
                 x # <<>> /\ Matches(x[1], t, c.known) /\ y = Behind(x, c.known, t)
  <2>1. PICK d \in read : y = next(d)

    <3> QED BY <1>1, <1>4
  <2>2. PICK c \in C : \E x \in Expanded(c.todo) : d = [todo |-> x, known |-> c.known]
    BY <1>2, Zenon
  <2>2a. PICK x \in Expanded(c.todo) : d = [todo |-> x, known |-> c.known]
    BY <2>2, Zenon
  <2>3. d.todo = x /\ d.known = c.known
    BY <2>2a
  <2>4. d.todo # <<>> /\ Matches(d.todo[1], t, d.known)
    BY Zenon
  <2>5. x # <<>> /\ Matches(x[1], t, c.known) /\ y = Behind(x, c.known, t)
    BY <2>1, <2>3, <2>4, Zenon DEF Behind
  <2> QED BY <2>5, Zenon
<1>5. ASSUME NEW c \in C, NEW x \in Expanded(c.todo), x # <<>>, Matches(x[1], t, c.known)
      PROVE  Behind(x, c.known, t) \in After(C, t)
  <2> DEFINE d == [todo |-> x, known |-> c.known]
  <2>1. d \in all
    BY <1>2, Zenon
  <2>2. d.todo = x /\ d.known = c.known
    OBVIOUS
  <2> HIDE DEF d
  <2>3. d \in read
    BY <1>5, <2>1, <2>2, Zenon
  <2>4. next(d) = Behind(x, c.known, t)
    BY <2>2, Zenon DEF Behind
  <2> QED BY <1>1, <2>3, <2>4, Zenon
<1> QED BY <1>4, <1>5, Zenon

\* The same when one phrase was wanted.
LEMMA ReadEach ==
    ASSUME NEW f, NEW K, NEW t
    PROVE  \A y : y \in Read(f, K, t) <=>
              \E x \in Expanded(f) : x # <<>> /\ Matches(x[1], t, K) /\ y = Behind(x, K, t)
<1> DEFINE c == [todo |-> f, known |-> K]
<1>1. c.todo = f /\ c.known = K
  OBVIOUS
<1>2. One(f, K) = {c}
  BY DEF One
<1> HIDE DEF c
<1>3. \A y : y \in After(One(f, K), t) <=>
              \E d \in One(f, K) : \E x \in Expanded(d.todo) :
                 x # <<>> /\ Matches(x[1], t, d.known) /\ y = Behind(x, d.known, t)
  BY AfterEach, Zenon
<1> QED BY <1>1, <1>2, <1>3, Zenon DEF Read

\* What is wanted behind t comes from one of the phrases that were.
LEMMA AfterUnion ==
    ASSUME NEW C, NEW t
    PROVE  \A y : y \in After(C, t) <=> \E c \in C : y \in After({c}, t)
<1>1. ASSUME NEW c
      PROVE  \A y : y \in After({c}, t) <=>
                \E x \in Expanded(c.todo) :
                   x # <<>> /\ Matches(x[1], t, c.known) /\ y = Behind(x, c.known, t)
  <2>1. \A y : y \in After({c}, t) <=>
              \E d \in {c} : \E x \in Expanded(d.todo) :
                 x # <<>> /\ Matches(x[1], t, d.known) /\ y = Behind(x, d.known, t)
    BY AfterEach
  <2> QED BY <2>1
<1>2. \A y : y \in After(C, t) <=>
              \E c \in C : \E x \in Expanded(c.todo) :
                 x # <<>> /\ Matches(x[1], t, c.known) /\ y = Behind(x, c.known, t)
  BY AfterEach
<1> QED BY <1>1, <1>2

\* Where nothing is wanted, nothing is wanted behind any token.
LEMMA AfterNothing ==
    ASSUME NEW t
    PROVE  After({}, t) = {}
<1> DEFINE C == {}
<1> HIDE DEF C
<1>1. \A y : y \in After(C, t) <=> \E c \in C : y \in After({c}, t)
  BY AfterUnion
<1>2. \A y : y \notin After(C, t)
  BY <1>1 DEF C
<1>3. After(C, t) = {}
  BY <1>2
<1> QED BY <1>3 DEF C

\* A procedure's symbol is read as one of its rules would be.
LEMMA SeenByRules ==
    ASSUME NEW f, Ready5(f), ~Settled(f), NEW K, NEW a, NEW b
    PROVE  /\ \A y : y \in Read(f, K, a) <=> \E g \in Leads(f) : y \in Read(g, K, a)
           /\ \A y : y \in Seen(f, K, a, b) <=> \E g \in Leads(f) : y \in Seen(g, K, a, b)
<1>1. \A y : y \in Read(f, K, a) <=> \E g \in Leads(f) : y \in Read(g, K, a)
  <2>1. \A h, y : y \in Read(h, K, a) <=>
              \E x \in Expanded(h) : x # <<>> /\ Matches(x[1], a, K) /\ y = Behind(x, K, a)
    BY ReadEach
  <2>2. \A x : x \in Expanded(f) <=> \E g \in Leads(f) : x \in Expanded(g)
    BY ExpandsByRules
  <2>3. ASSUME NEW y
        PROVE  y \in Read(f, K, a) <=> \E g \in Leads(f) : y \in Read(g, K, a)
    <3>1. ASSUME y \in Read(f, K, a) PROVE \E g \in Leads(f) : y \in Read(g, K, a)
      <4>1. PICK x \in Expanded(f) : x # <<>> /\ Matches(x[1], a, K) /\ y = Behind(x, K, a)
        BY <3>1, <2>1
      <4>2. PICK g \in Leads(f) : x \in Expanded(g)
        BY <2>2
      <4> QED BY <4>1, <4>2, <2>1
    <3>2. ASSUME NEW g \in Leads(f), y \in Read(g, K, a) PROVE y \in Read(f, K, a)
      <4>1. PICK x \in Expanded(g) : x # <<>> /\ Matches(x[1], a, K) /\ y = Behind(x, K, a)
        BY <3>2, <2>1
      <4> QED BY <4>1, <2>1, <2>2
    <3> QED BY <3>1, <3>2
  <2> QED BY <2>3
<1>2. CASE a = "EOF"
  BY <1>1, <1>2, Zenon DEF Seen
<1>3. CASE a # "EOF"
  <2>1. \A y : y \in After(Read(f, K, a), b) <=> \E c \in Read(f, K, a) : y \in After({c}, b)
    BY AfterUnion, Zenon
  <2>2. \A g, y : y \in After(Read(g, K, a), b) <=> \E c \in Read(g, K, a) : y \in After({c}, b)
    BY AfterUnion, Zenon
  <2>3. \A y : y \in After(Read(f, K, a), b) <=> \E g \in Leads(f) : y \in After(Read(g, K, a), b)
    BY <1>1, <2>1, <2>2, Zenon
  <2> QED BY <1>1, <1>3, <2>3, Zenon DEF Seen
<1> QED BY <1>2, <1>3

\* A terminal is read by a token that matches it.
LEMMA ReadTerminal ==
    ASSUME NEW f, f # <<>>, f[1] \notin DOMAIN Rules, NEW K, NEW t
    PROVE  Read(f, K, t) = IF Matches(f[1], t, K)
                           THEN One(Tail(f), IF f[1] = "define" THEN K \cup {t} ELSE K) ELSE {}
<1>1. Expanded(f) = {f}
  BY ExpandsToItself, Zenon DEF Settled
<1>2. \A y : y \in Read(f, K, t) <=> Matches(f[1], t, K) /\ y = Behind(f, K, t)
  <2>1. \A y : y \in Read(f, K, t) <=>
              \E x \in Expanded(f) : x # <<>> /\ Matches(x[1], t, K) /\ y = Behind(x, K, t)
    BY ReadEach
  <2> QED BY <1>1, <2>1
<1>3. One(Tail(f), IF f[1] = "define" THEN K \cup {t} ELSE K) = {Behind(f, K, t)}
  BY Zenon DEF One, Behind
<1> QED BY <1>2, <1>3, Zenon

-----------------------------------------------------------------------------
(* The grammar. *)

\* The procedures that the grammar knows, and what is none of them.
LEMMA RuleNames ==
    DOMAIN Rules =
      {"branch_procedure", "func_body", "declare_statement_table",
       "declare_statement_tableA", "declare_statement", "var_declare", "func_declare",
       "exec_statement_table", "exec_statement_tableA", "exec_statement", "read_statement",
       "write_statement", "semicolon", "assign_statement", "condition_statement",
       "condition_expression", "relation_operator", "math_expression", "math_expressionA",
       "item", "itemA", "factor", "constant", "func_call"}
  BY DEF Rules

\* The words, spelled out.
LEMMA WordsAre ==
    Words = {"begin", "end", "integer", "if", "then", "else", "function", "read", "write",
             "relop", "-", "*", ":=", "(", ")", "semi", "const", "EOF", "define", "use",
             "identifier", "complain", "overrun",
             "branch_procedure", "func_body", "declare_statement_table",
             "declare_statement_tableA", "declare_statement", "var_declare",
             "func_declare", "exec_statement_table", "exec_statement_tableA",
             "exec_statement", "read_statement", "write_statement", "semicolon",
             "assign_statement", "condition_statement", "condition_expression",
             "relation_operator", "math_expression", "math_expressionA", "item", "itemA",
             "factor", "constant", "func_call"}
  BY RuleNames DEF Words, Keywords, Signs

\* The items, spelled out.
LEMMA ItemsAre ==
    Items = {"begin", "end", "integer", "if", "then", "else", "function", "read", "write",
             "relop", "-", "*", ":=", "(", ")", "semi", "const", "define", "use",
             "identifier", "complain", "overrun",
             "branch_procedure", "func_body", "declare_statement_table",
             "declare_statement_tableA", "declare_statement", "var_declare",
             "func_declare", "exec_statement_table", "exec_statement_tableA",
             "exec_statement", "read_statement", "write_statement", "semicolon",
             "assign_statement", "condition_statement", "condition_expression",
             "relation_operator", "math_expression", "math_expressionA", "item", "itemA",
             "factor", "constant", "func_call"}
  BY WordsAre DEF Items

\* An identifier is no word and not None.
LEMMA NamesApart == \A t \in Names : t \notin Words /\ t # None
  BY NamesAssumption

\* The rules, one by one.
LEMMA Rule_branch_procedure ==
    Rules["branch_procedure"] =
      {<<"begin", "declare_statement_table", "semi", "exec_statement_table", "end">>}
  BY DEF Rules, Block

LEMMA Rule_func_body ==
    Rules["func_body"] =
      {<<"begin", "declare_statement_table", "semi", "exec_statement_table", "end">>}
  BY DEF Rules, Block

LEMMA Rule_declare_statement_table ==
    Rules["declare_statement_table"] =
      {<<"declare_statement", "declare_statement_tableA">>}
  BY DEF Rules, Block

LEMMA Rule_declare_statement_tableA ==
    Rules["declare_statement_tableA"] =
      {<<>>,
       <<"semi", "declare_statement", "declare_statement_tableA">>}
  BY DEF Rules, Block

LEMMA Rule_declare_statement ==
    Rules["declare_statement"] =
      {<<"var_declare">>,
       <<"func_declare">>}
  BY DEF Rules, Block

LEMMA Rule_var_declare ==
    Rules["var_declare"] =
      {<<"integer", "define">>}
  BY DEF Rules, Block

LEMMA Rule_func_declare ==
    Rules["func_declare"] =
      {<<"integer", "function", "define", "(", "define", ")", "semi", "func_body">>}
  BY DEF Rules, Block

LEMMA Rule_exec_statement_table ==
    Rules["exec_statement_table"] =
      {<<"exec_statement", "exec_statement_tableA">>}
  BY DEF Rules, Block

LEMMA Rule_exec_statement_tableA ==
    Rules["exec_statement_tableA"] =
      {<<>>,
       <<"semi", "exec_statement", "exec_statement_tableA">>}
  BY DEF Rules, Block

LEMMA Rule_exec_statement ==
    Rules["exec_statement"] =
      {<<"read_statement">>,
       <<"write_statement">>,
       <<"assign_statement">>,
       <<"condition_statement">>}
  BY DEF Rules, Block

LEMMA Rule_read_statement ==
    Rules["read_statement"] =
      {<<"read", "(", "use", ")">>}
  BY DEF Rules, Block

LEMMA Rule_write_statement ==
    Rules["write_statement"] =
      {<<"write", "(", "use", ")", "semicolon">>}
  BY DEF Rules, Block

LEMMA Rule_semicolon ==
    Rules["semicolon"] =
      {<<"semi">>}
  BY DEF Rules, Block

LEMMA Rule_assign_statement ==
    Rules["assign_statement"] =
      {<<"use", ":=", "math_expression">>}
  BY DEF Rules, Block

LEMMA Rule_condition_statement ==
    Rules["condition_statement"] =
      {<<"if", "condition_expression", "then", "exec_statement", "else", "exec_statement">>}
  BY DEF Rules, Block

LEMMA Rule_condition_expression ==
    Rules["condition_expression"] =
      {<<"math_expression", "relation_operator", "math_expression">>}
  BY DEF Rules, Block

LEMMA Rule_relation_operator ==
    Rules["relation_operator"] =
      {<<"relop">>}
  BY DEF Rules, Block

LEMMA Rule_math_expression ==
    Rules["math_expression"] =
      {<<"item", "math_expressionA">>}
  BY DEF Rules, Block

LEMMA Rule_math_expressionA ==
    Rules["math_expressionA"] =
      {<<>>,
       <<"-", "item", "math_expressionA">>}
  BY DEF Rules, Block

LEMMA Rule_item ==
    Rules["item"] =
      {<<"factor", "itemA">>}
  BY DEF Rules, Block

LEMMA Rule_itemA ==
    Rules["itemA"] =
      {<<>>,
       <<"*", "factor", "itemA">>}
  BY DEF Rules, Block

LEMMA Rule_factor ==
    Rules["factor"] =
      {<<"use">>,
       <<"constant">>,
       <<"func_call">>}
  BY DEF Rules, Block

LEMMA Rule_constant ==
    Rules["constant"] =
      {<<"const">>}
  BY DEF Rules, Block

LEMMA Rule_func_call ==
    Rules["func_call"] =
      {<<"identifier", "(", "math_expression", ")">>}
  BY DEF Rules, Block

\* What stands behind what in anything that the procedures still have to do.
Decls == {"declare_statement_table", "declare_statement_tableA"}
Execs == {"exec_statement_table", "exec_statement_tableA"}
Stats == {"exec_statement", "assign_statement", "condition_statement"}
Exprs == {"math_expression", "math_expressionA"}
Prods == {"item", "itemA"}
Goes(x, y) == /\ x \in Decls => y = "semi"
              /\ x \in Execs => y = "end"
              /\ x \in Stats => y \in {"exec_statement_tableA", "else"}
              /\ x = "condition_expression" => y = "then"
              /\ x \in Exprs => y \in {"exec_statement_tableA", "else", "then",
                                       "relation_operator", ")"}
              /\ x \in Prods => y = "math_expressionA"
              /\ x = "factor" => y = "itemA"
Good(f) == /\ f \in Seq(Words) /\ Len(f) > 0 /\ f[Len(f)] = "EOF"
           /\ \A i \in 1..(Len(f) - 1) :
                 /\ Goes(f[i], f[i + 1])
                 /\ f[i] \in Decls => i + 2 <= Len(f) /\ f[i + 2] = "exec_statement_table"

\* p may stand where x does.
Belongs(p, x) ==
    /\ p \in Seq(Items)
    /\ \A i \in 1..(Len(p) - 1) :
          /\ Goes(p[i], p[i + 1])
          /\ p[i] \in Decls => i + 2 <= Len(p) /\ p[i + 2] = "exec_statement_table"
    /\ Len(p) > 0 => /\ \A y : Goes(x, y) => Goes(p[Len(p)], y)
                     /\ p[Len(p)] \in Decls => x \in Decls

\* A phrase in order without its first word is in order.
LEMMA GoodTail ==
    ASSUME NEW f, Good(f), f[1] # "EOF"
    PROVE  /\ f # <<>> /\ Tail(f) \in Seq(Words) /\ Len(Tail(f)) = Len(f) - 1 /\ Len(f) \in Nat
           /\ Len(f) > 1 /\ \A i \in 1..(Len(f) - 1) : Tail(f)[i] = f[i + 1]
           /\ Good(Tail(f)) /\ Tail(f) # <<>> /\ Tail(f)[1] = f[2] /\ Goes(f[1], f[2])
<1>1. f \in Seq(Words) /\ Len(f) \in Nat /\ Len(f) > 0 /\ f[Len(f)] = "EOF"
  BY LenProperties DEF Good
<1>2. f # <<>> /\ Len(f) # 1
  BY <1>1, EmptySeq
<1>3. Tail(f) \in Seq(Words) /\ Len(Tail(f)) = Len(f) - 1
       /\ \A i \in 1..(Len(f) - 1) : Tail(f)[i] = f[i + 1]
  BY <1>1, <1>2, HeadTailProperties
<1> DEFINE n == Len(f) g == Tail(f)
<1>4. \A i \in 1..(n - 1) :
          /\ Goes(f[i], f[i + 1])
          /\ f[i] \in Decls => i + 2 <= n /\ f[i + 2] = "exec_statement_table"
  BY DEF Good
<1> HIDE DEF n, g
<1>5. n \in Nat /\ n > 1 /\ Len(g) = n - 1 /\ g \in Seq(Words) /\ f[n] = "EOF"
  BY <1>1, <1>2, <1>3 DEF n, g
<1>6. \A i \in 1..(n - 1) : g[i] = f[i + 1]
  BY <1>3 DEF n, g
<1>7. g[n - 1] = "EOF" /\ g[1] = f[2]
  BY <1>5, <1>6
<1>8. ASSUME NEW i \in 1..((n - 1) - 1)
      PROVE  /\ Goes(g[i], g[i + 1])
             /\ g[i] \in Decls => i + 2 <= n - 1 /\ g[i + 2] = "exec_statement_table"
  <2>1. i \in Nat /\ i + 1 \in 1..(n - 1) /\ (i + 1) + 1 = i + 2 /\ (i + 1) + 2 = i + 3
    BY <1>5
  <2>2. g[i] = f[i + 1] /\ g[i + 1] = f[(i + 1) + 1]
    BY <2>1, <1>5, <1>6
  <2>3. Goes(f[i + 1], f[(i + 1) + 1])
         /\ (f[i + 1] \in Decls => (i + 1) + 2 <= n /\ f[(i + 1) + 2] = "exec_statement_table")
    BY <2>1, <1>4
  <2>4. ASSUME g[i] \in Decls PROVE i + 2 <= n - 1 /\ g[i + 2] = "exec_statement_table"
    <3>1. (i + 1) + 2 <= n /\ f[(i + 1) + 2] = "exec_statement_table"
      BY <2>2, <2>3, <2>4
    <3>2. i + 2 \in 1..(n - 1) /\ (i + 2) + 1 = (i + 1) + 2
      BY <3>1, <2>1, <1>5
    <3>3. g[i + 2] = f[(i + 2) + 1]
      BY <3>2, <1>6
    <3> QED BY <3>1, <3>2, <3>3
  <2> QED BY <2>2, <2>3, <2>4
<1>9. Good(g)
  <2>1. Len(g) > 0 /\ g[Len(g)] = "EOF"
    BY <1>5, <1>7
  <2>2. \A i \in 1..(Len(g) - 1) :
          /\ Goes(g[i], g[i + 1])
          /\ g[i] \in Decls => i + 2 <= Len(g) /\ g[i + 2] = "exec_statement_table"
    BY <1>5, <1>8
  <2> QED BY <1>5, <2>1, <2>2 DEF Good
<1>10. Goes(f[1], f[2])
  <2>1. 1 \in 1..(n - 1) /\ 1 + 1 = 2
    BY <1>5
  <2> QED BY <2>1, <1>4
<1>11. g # <<>>
  BY <1>5, EmptySeq
<1> QED BY <1>2, <1>3, <1>5, <1>7, <1>9, <1>10, <1>11 DEF n, g

\* The order is kept when the first word is replaced by what may stand there.
LEMMA GoodReplace ==
    ASSUME NEW f, Good(f), f[1] # "EOF", NEW p, Belongs(p, f[1])
    PROVE  Good(p \o Tail(f))
<1> DEFINE n == Len(p) r == Tail(f) m == Len(r) g == p \o r
<1>1. p \in Seq(Words) /\ n \in Nat
  BY LenProperties, ItemsAreWords DEF Belongs
<1>2. r \in Seq(Words) /\ m \in Nat /\ Good(r) /\ r # <<>> /\ r[1] = f[2] /\ Goes(f[1], f[2])
  BY GoodTail, LenProperties
<1>3. m > 0 /\ r[m] = "EOF"
  BY <1>2 DEF Good
<1>4. \A i \in 1..(m - 1) : /\ Goes(r[i], r[i + 1])
                            /\ r[i] \in Decls => i + 2 <= m /\ r[i + 2] = "exec_statement_table"
  BY <1>2 DEF Good
<1>5. \A i \in 1..(n - 1) : /\ Goes(p[i], p[i + 1])
                            /\ p[i] \in Decls => i + 2 <= n /\ p[i + 2] = "exec_statement_table"
  BY DEF Belongs
<1>6. n > 0 => /\ Goes(p[n], f[2])
               /\ p[n] \in Decls => f[1] \in Decls
  BY <1>2 DEF Belongs
<1>7. f[1] \in Decls => m >= 2 /\ r[2] = "exec_statement_table"
  <2>1. Len(f) \in Nat /\ Len(f) > 1 /\ m = Len(f) - 1 /\ \A i \in 1..(Len(f) - 1) : r[i] = f[i + 1]
    BY GoodTail
  <2>2. 1 \in 1..(Len(f) - 1) /\ 1 + 2 = 3
    BY <2>1
  <2>3. f[1] \in Decls => 1 + 2 <= Len(f) /\ f[1 + 2] = "exec_statement_table"
    BY <2>2 DEF Good
  <2>4. ASSUME f[1] \in Decls PROVE m >= 2 /\ r[2] = "exec_statement_table"
    <3>1. 3 <= Len(f) /\ f[3] = "exec_statement_table"
      BY <2>3, <2>4, <2>2
    <3>2. 2 \in 1..(Len(f) - 1) /\ 2 + 1 = 3
      BY <3>1, <2>1
    <3>3. r[2] = f[2 + 1]
      BY <3>2, <2>1
    <3> QED BY <3>1, <3>2, <3>3, <2>1
  <2> QED BY <2>4
<1>8. /\ g \in Seq(Words) /\ Len(g) = n + m
      /\ \A i \in 1..n : g[i] = p[i]
      /\ \A i \in (n + 1)..(n + m) : g[i] = r[i - n]
  BY <1>1, <1>2, ConcatProperties
<1> HIDE DEF n, r, m, g
<1>9. g[n + m] = "EOF"
  <2>1. n + m \in (n + 1)..(n + m) /\ (n + m) - n = m
    BY <1>1, <1>2, <1>3
  <2> QED BY <2>1, <1>3, <1>8
<1>10. ASSUME NEW i \in 1..((n + m) - 1)
       PROVE  /\ Goes(g[i], g[i + 1])
              /\ g[i] \in Decls => i + 2 <= n + m /\ g[i + 2] = "exec_statement_table"
  <2>0. i \in Nat /\ i >= 1 /\ i < n + m
    BY <1>1, <1>2
  <2>1. CASE i < n
    <3>1. i \in 1..(n - 1) /\ i \in 1..n /\ i + 1 \in 1..n
      BY <2>0, <2>1, <1>1
    <3>2. g[i] = p[i] /\ g[i + 1] = p[i + 1]
      BY <3>1, <1>8
    <3>3. Goes(p[i], p[i + 1])
           /\ (p[i] \in Decls => i + 2 <= n /\ p[i + 2] = "exec_statement_table")
      BY <3>1, <1>5
    <3>4. ASSUME g[i] \in Decls PROVE i + 2 <= n + m /\ g[i + 2] = "exec_statement_table"
      <4>1. i + 2 <= n /\ p[i + 2] = "exec_statement_table"
        BY <3>2, <3>3, <3>4
      <4>2. i + 2 \in 1..n /\ i + 2 <= n + m
        BY <4>1, <2>0, <1>1, <1>2
      <4> QED BY <4>1, <4>2, <1>8
    <3> QED BY <3>2, <3>3, <3>4
  <2>2. CASE i = n
    <3>1. n > 0 /\ n \in 1..n /\ n + 1 \in (n + 1)..(n + m) /\ (n + 1) - n = 1
      BY <2>0, <2>2, <1>1, <1>2, <1>3
    <3>2. g[i] = p[n] /\ g[i + 1] = r[1]
      BY <3>1, <2>2, <1>8
    <3>3. ASSUME g[i] \in Decls PROVE i + 2 <= n + m /\ g[i + 2] = "exec_statement_table"
      <4>1. m >= 2 /\ r[2] = "exec_statement_table"
        BY <3>1, <3>2, <3>3, <1>6, <1>7, Zenon
      <4>2. i + 2 <= n + m /\ i + 2 \in (n + 1)..(n + m) /\ (i + 2) - n = 2
        BY <4>1, <2>2, <1>1, <1>2
      <4> QED BY <4>1, <4>2, <1>8
    <3>4. Goes(g[i], g[i + 1])
      BY <3>1, <3>2, <1>2, <1>6, Zenon
    <3> QED BY <3>3, <3>4
  <2>3. CASE i > n
    <3>1. /\ i \in (n + 1)..(n + m) /\ i + 1 \in (n + 1)..(n + m) /\ i - n \in 1..(m - 1)
          /\ (i + 1) - n = (i - n) + 1
      BY <2>0, <2>3, <1>1, <1>2
    <3>2. g[i] = r[i - n] /\ g[i + 1] = r[(i - n) + 1]
      BY <3>1, <1>8
    <3>3. Goes(r[i - n], r[(i - n) + 1])
           /\ (r[i - n] \in Decls => (i - n) + 2 <= m /\ r[(i - n) + 2] = "exec_statement_table")
      BY <3>1, <1>4
    <3>4. ASSUME g[i] \in Decls PROVE i + 2 <= n + m /\ g[i + 2] = "exec_statement_table"
      <4>1. (i - n) + 2 <= m /\ r[(i - n) + 2] = "exec_statement_table"
        BY <3>2, <3>3, <3>4
      <4>2. i + 2 <= n + m /\ i + 2 \in (n + 1)..(n + m) /\ (i + 2) - n = (i - n) + 2
        BY <4>1, <2>0, <2>3, <1>1, <1>2
      <4> QED BY <4>1, <4>2, <1>8
    <3> QED BY <3>2, <3>3, <3>4
  <2> QED BY <2>1, <2>2, <2>3, <2>0, <1>1
<1>11. Len(g) > 0 /\ g[Len(g)] = "EOF"
  BY <1>8, <1>9, <1>1, <1>2, <1>3
<1>12. \A i \in 1..(Len(g) - 1) :
          /\ Goes(g[i], g[i + 1])
          /\ g[i] \in Decls => i + 2 <= Len(g) /\ g[i + 2] = "exec_statement_table"
  BY <1>8, <1>10
<1>13. Good(g)
  BY <1>8, <1>11, <1>12 DEF Good
<1> QED BY <1>13 DEF g, r

\* A rule keeps the order of what stands behind its procedure.
LEMMA RulesBelong ==
    ASSUME NEW x \in DOMAIN Rules, NEW p \in Rules[x]
    PROVE  Belongs(p, x)
<1> USE DEF Belongs, Goes, Decls, Execs, Stats, Exprs, Prods
<1>1. CASE x = "branch_procedure"
  <2>1. p = <<"begin", "declare_statement_table", "semi", "exec_statement_table", "end">>
    BY <1>1, Rule_branch_procedure
  <2>2. /\ p \in Seq(Items) /\ Len(p) = 5 /\ p[1] = "begin"
        /\ p[2] = "declare_statement_table" /\ p[3] = "semi"
        /\ p[4] = "exec_statement_table" /\ p[5] = "end"
        /\ \A i \in 1..(Len(p) - 1) : i \in {1, 2, 3, 4}
    BY <2>1, ItemsAre
  <2> QED BY <1>1, <2>2
<1>2. CASE x = "func_body"
  <2>1. p = <<"begin", "declare_statement_table", "semi", "exec_statement_table", "end">>
    BY <1>2, Rule_func_body
  <2>2. /\ p \in Seq(Items) /\ Len(p) = 5 /\ p[1] = "begin"
        /\ p[2] = "declare_statement_table" /\ p[3] = "semi"
        /\ p[4] = "exec_statement_table" /\ p[5] = "end"
        /\ \A i \in 1..(Len(p) - 1) : i \in {1, 2, 3, 4}
    BY <2>1, ItemsAre
  <2> QED BY <1>2, <2>2
<1>3. CASE x = "declare_statement_table"
  <2>1. p = <<"declare_statement", "declare_statement_tableA">>
    BY <1>3, Rule_declare_statement_table
  <2>2. /\ p \in Seq(Items) /\ Len(p) = 2 /\ p[1] = "declare_statement"
        /\ p[2] = "declare_statement_tableA" /\ \A i \in 1..(Len(p) - 1) : i \in {1}
    BY <2>1, ItemsAre
  <2> QED BY <1>3, <2>2
<1>4. CASE x = "declare_statement_tableA"
  <2>1. CASE p = <<>>
    <3>1. /\ p \in Seq(Items) /\ Len(p) = 0
      BY <2>1, ItemsAre
    <3> QED BY <1>4, <3>1
  <2>2. CASE p = <<"semi", "declare_statement", "declare_statement_tableA">>
    <3>1. /\ p \in Seq(Items) /\ Len(p) = 3 /\ p[1] = "semi" /\ p[2] = "declare_statement"
          /\ p[3] = "declare_statement_tableA" /\ \A i \in 1..(Len(p) - 1) : i \in {1, 2}
      BY <2>2, ItemsAre
    <3> QED BY <1>4, <3>1
  <2> QED BY <1>4, Rule_declare_statement_tableA, <2>1, <2>2
<1>5. CASE x = "declare_statement"
  <2>1. CASE p = <<"var_declare">>
    <3>1. /\ p \in Seq(Items) /\ Len(p) = 1 /\ p[1] = "var_declare"
      BY <2>1, ItemsAre
    <3> QED BY <1>5, <3>1
  <2>2. CASE p = <<"func_declare">>
    <3>1. /\ p \in Seq(Items) /\ Len(p) = 1 /\ p[1] = "func_declare"
      BY <2>2, ItemsAre
    <3> QED BY <1>5, <3>1
  <2> QED BY <1>5, Rule_declare_statement, <2>1, <2>2
<1>6. CASE x = "var_declare"
  <2>1. p = <<"integer", "define">>
    BY <1>6, Rule_var_declare
  <2>2. /\ p \in Seq(Items) /\ Len(p) = 2 /\ p[1] = "integer" /\ p[2] = "define"
        /\ \A i \in 1..(Len(p) - 1) : i \in {1}
    BY <2>1, ItemsAre
  <2> QED BY <1>6, <2>2
<1>7. CASE x = "func_declare"
  <2>1. p = <<"integer", "function", "define", "(", "define", ")", "semi", "func_body">>
    BY <1>7, Rule_func_declare
  <2>2. /\ p \in Seq(Items) /\ Len(p) = 8 /\ p[1] = "integer" /\ p[2] = "function"
        /\ p[3] = "define" /\ p[4] = "(" /\ p[5] = "define" /\ p[6] = ")" /\ p[7] = "semi"
        /\ p[8] = "func_body" /\ \A i \in 1..(Len(p) - 1) : i \in {1, 2, 3, 4, 5, 6, 7}
    BY <2>1, ItemsAre
  <2> QED BY <1>7, <2>2
<1>8. CASE x = "exec_statement_table"
  <2>1. p = <<"exec_statement", "exec_statement_tableA">>
    BY <1>8, Rule_exec_statement_table
  <2>2. /\ p \in Seq(Items) /\ Len(p) = 2 /\ p[1] = "exec_statement"
        /\ p[2] = "exec_statement_tableA" /\ \A i \in 1..(Len(p) - 1) : i \in {1}
    BY <2>1, ItemsAre
  <2> QED BY <1>8, <2>2
<1>9. CASE x = "exec_statement_tableA"
  <2>1. CASE p = <<>>
    <3>1. /\ p \in Seq(Items) /\ Len(p) = 0
      BY <2>1, ItemsAre
    <3> QED BY <1>9, <3>1
  <2>2. CASE p = <<"semi", "exec_statement", "exec_statement_tableA">>
    <3>1. /\ p \in Seq(Items) /\ Len(p) = 3 /\ p[1] = "semi" /\ p[2] = "exec_statement"
          /\ p[3] = "exec_statement_tableA" /\ \A i \in 1..(Len(p) - 1) : i \in {1, 2}
      BY <2>2, ItemsAre
    <3> QED BY <1>9, <3>1
  <2> QED BY <1>9, Rule_exec_statement_tableA, <2>1, <2>2
<1>10. CASE x = "exec_statement"
  <2>1. CASE p = <<"read_statement">>
    <3>1. /\ p \in Seq(Items) /\ Len(p) = 1 /\ p[1] = "read_statement"
      BY <2>1, ItemsAre
    <3> QED BY <1>10, <3>1
  <2>2. CASE p = <<"write_statement">>
    <3>1. /\ p \in Seq(Items) /\ Len(p) = 1 /\ p[1] = "write_statement"
      BY <2>2, ItemsAre
    <3> QED BY <1>10, <3>1
  <2>3. CASE p = <<"assign_statement">>
    <3>1. /\ p \in Seq(Items) /\ Len(p) = 1 /\ p[1] = "assign_statement"
      BY <2>3, ItemsAre
    <3> QED BY <1>10, <3>1
  <2>4. CASE p = <<"condition_statement">>
    <3>1. /\ p \in Seq(Items) /\ Len(p) = 1 /\ p[1] = "condition_statement"
      BY <2>4, ItemsAre
    <3> QED BY <1>10, <3>1
  <2> QED BY <1>10, Rule_exec_statement, <2>1, <2>2, <2>3, <2>4
<1>11. CASE x = "read_statement"
  <2>1. p = <<"read", "(", "use", ")">>
    BY <1>11, Rule_read_statement
  <2>2. /\ p \in Seq(Items) /\ Len(p) = 4 /\ p[1] = "read" /\ p[2] = "(" /\ p[3] = "use"
        /\ p[4] = ")" /\ \A i \in 1..(Len(p) - 1) : i \in {1, 2, 3}
    BY <2>1, ItemsAre
  <2> QED BY <1>11, <2>2
<1>12. CASE x = "write_statement"
  <2>1. p = <<"write", "(", "use", ")", "semicolon">>
    BY <1>12, Rule_write_statement
  <2>2. /\ p \in Seq(Items) /\ Len(p) = 5 /\ p[1] = "write" /\ p[2] = "(" /\ p[3] = "use"
        /\ p[4] = ")" /\ p[5] = "semicolon" /\ \A i \in 1..(Len(p) - 1) : i \in {1, 2, 3, 4}
    BY <2>1, ItemsAre
  <2> QED BY <1>12, <2>2
<1>13. CASE x = "semicolon"
  <2>1. p = <<"semi">>
    BY <1>13, Rule_semicolon
  <2>2. /\ p \in Seq(Items) /\ Len(p) = 1 /\ p[1] = "semi"
    BY <2>1, ItemsAre
  <2> QED BY <1>13, <2>2
<1>14. CASE x = "assign_statement"
  <2>1. p = <<"use", ":=", "math_expression">>
    BY <1>14, Rule_assign_statement
  <2>2. /\ p \in Seq(Items) /\ Len(p) = 3 /\ p[1] = "use" /\ p[2] = ":="
        /\ p[3] = "math_expression" /\ \A i \in 1..(Len(p) - 1) : i \in {1, 2}
    BY <2>1, ItemsAre
  <2> QED BY <1>14, <2>2
<1>15. CASE x = "condition_statement"
  <2>1. p = <<"if", "condition_expression", "then", "exec_statement", "else", "exec_statement">>
    BY <1>15, Rule_condition_statement
  <2>2. /\ p \in Seq(Items) /\ Len(p) = 6 /\ p[1] = "if" /\ p[2] = "condition_expression"
        /\ p[3] = "then" /\ p[4] = "exec_statement" /\ p[5] = "else"
        /\ p[6] = "exec_statement" /\ \A i \in 1..(Len(p) - 1) : i \in {1, 2, 3, 4, 5}
    BY <2>1, ItemsAre
  <2> QED BY <1>15, <2>2
<1>16. CASE x = "condition_expression"
  <2>1. p = <<"math_expression", "relation_operator", "math_expression">>
    BY <1>16, Rule_condition_expression
  <2>2. /\ p \in Seq(Items) /\ Len(p) = 3 /\ p[1] = "math_expression"
        /\ p[2] = "relation_operator" /\ p[3] = "math_expression"
        /\ \A i \in 1..(Len(p) - 1) : i \in {1, 2}
    BY <2>1, ItemsAre
  <2> QED BY <1>16, <2>2
<1>17. CASE x = "relation_operator"
  <2>1. p = <<"relop">>
    BY <1>17, Rule_relation_operator
  <2>2. /\ p \in Seq(Items) /\ Len(p) = 1 /\ p[1] = "relop"
    BY <2>1, ItemsAre
  <2> QED BY <1>17, <2>2
<1>18. CASE x = "math_expression"
  <2>1. p = <<"item", "math_expressionA">>
    BY <1>18, Rule_math_expression
  <2>2. /\ p \in Seq(Items) /\ Len(p) = 2 /\ p[1] = "item" /\ p[2] = "math_expressionA"
        /\ \A i \in 1..(Len(p) - 1) : i \in {1}
    BY <2>1, ItemsAre
  <2> QED BY <1>18, <2>2
<1>19. CASE x = "math_expressionA"
  <2>1. CASE p = <<>>
    <3>1. /\ p \in Seq(Items) /\ Len(p) = 0
      BY <2>1, ItemsAre
    <3> QED BY <1>19, <3>1
  <2>2. CASE p = <<"-", "item", "math_expressionA">>
    <3>1. /\ p \in Seq(Items) /\ Len(p) = 3 /\ p[1] = "-" /\ p[2] = "item"
          /\ p[3] = "math_expressionA" /\ \A i \in 1..(Len(p) - 1) : i \in {1, 2}
      BY <2>2, ItemsAre
    <3> QED BY <1>19, <3>1
  <2> QED BY <1>19, Rule_math_expressionA, <2>1, <2>2
<1>20. CASE x = "item"
  <2>1. p = <<"factor", "itemA">>
    BY <1>20, Rule_item
  <2>2. /\ p \in Seq(Items) /\ Len(p) = 2 /\ p[1] = "factor" /\ p[2] = "itemA"
        /\ \A i \in 1..(Len(p) - 1) : i \in {1}
    BY <2>1, ItemsAre
  <2> QED BY <1>20, <2>2
<1>21. CASE x = "itemA"
  <2>1. CASE p = <<>>
    <3>1. /\ p \in Seq(Items) /\ Len(p) = 0
      BY <2>1, ItemsAre
    <3> QED BY <1>21, <3>1
  <2>2. CASE p = <<"*", "factor", "itemA">>
    <3>1. /\ p \in Seq(Items) /\ Len(p) = 3 /\ p[1] = "*" /\ p[2] = "factor"
          /\ p[3] = "itemA" /\ \A i \in 1..(Len(p) - 1) : i \in {1, 2}
      BY <2>2, ItemsAre
    <3> QED BY <1>21, <3>1
  <2> QED BY <1>21, Rule_itemA, <2>1, <2>2
<1>22. CASE x = "factor"
  <2>1. CASE p = <<"use">>
    <3>1. /\ p \in Seq(Items) /\ Len(p) = 1 /\ p[1] = "use"
      BY <2>1, ItemsAre
    <3> QED BY <1>22, <3>1
  <2>2. CASE p = <<"constant">>
    <3>1. /\ p \in Seq(Items) /\ Len(p) = 1 /\ p[1] = "constant"
      BY <2>2, ItemsAre
    <3> QED BY <1>22, <3>1
  <2>3. CASE p = <<"func_call">>
    <3>1. /\ p \in Seq(Items) /\ Len(p) = 1 /\ p[1] = "func_call"
      BY <2>3, ItemsAre
    <3> QED BY <1>22, <3>1
  <2> QED BY <1>22, Rule_factor, <2>1, <2>2, <2>3
<1>23. CASE x = "constant"
  <2>1. p = <<"const">>
    BY <1>23, Rule_constant
  <2>2. /\ p \in Seq(Items) /\ Len(p) = 1 /\ p[1] = "const"
    BY <2>1, ItemsAre
  <2> QED BY <1>23, <2>2
<1>24. CASE x = "func_call"
  <2>1. p = <<"identifier", "(", "math_expression", ")">>
    BY <1>24, Rule_func_call
  <2>2. /\ p \in Seq(Items) /\ Len(p) = 4 /\ p[1] = "identifier" /\ p[2] = "("
        /\ p[3] = "math_expression" /\ p[4] = ")"
        /\ \A i \in 1..(Len(p) - 1) : i \in {1, 2, 3}
    BY <2>1, ItemsAre
  <2> QED BY <1>24, <2>2
<1> QED BY RuleNames,
          <1>1, <1>2, <1>3, <1>4, <1>5, <1>6, <1>7, <1>8, <1>9, <1>10, <1>11, <1>12, <1>13,
          <1>14, <1>15, <1>16, <1>17, <1>18, <1>19, <1>20, <1>21, <1>22, <1>23, <1>24

\* What a procedure's rules put at the front.
LEMMA LeadsOf ==
    ASSUME NEW f, Good(f), f[1] \in DOMAIN Rules, NEW p \in Rules[f[1]]
    PROVE  /\ Good(p \o Tail(f))
           /\ p = <<>> => (p \o Tail(f))[1] = f[2] /\ p \o Tail(f) = Tail(f) /\ Goes(f[1], f[2])
           /\ p # <<>> => (p \o Tail(f))[1] = p[1]
<1>1. f[1] # "EOF" /\ Belongs(p, f[1])
  BY RuleNames, RulesBelong
<1>2. Tail(f) \in Seq(Words) /\ p \in Seq(Words) /\ Goes(f[1], f[2]) /\ Tail(f)[1] = f[2]
  BY <1>1, GoodTail, ItemsAreWords DEF Belongs
<1>3. Good(p \o Tail(f))
  BY <1>1, GoodReplace
<1>4. p = <<>> => p \o Tail(f) = Tail(f)
  BY <1>2, ConcatEmptySeq
<1>5. p # <<>> => (p \o Tail(f))[1] = p[1]
  BY <1>2, FrontOfWords
<1> QED BY <1>2, <1>3, <1>4, <1>5


\* What a phrase in order begins with when its first symbol has been replaced once.
Heads ==
  [branch_procedure |-> {"begin"},
   func_body |-> {"begin"},
   declare_statement_table |-> {"declare_statement"},
   declare_statement_tableA |-> {"semi"},
   declare_statement |-> {"func_declare", "var_declare"},
   var_declare |-> {"integer"},
   func_declare |-> {"integer"},
   exec_statement_table |-> {"exec_statement"},
   exec_statement_tableA |-> {"end", "semi"},
   exec_statement |-> {"assign_statement", "condition_statement", "read_statement",
                       "write_statement"},
   read_statement |-> {"read"},
   write_statement |-> {"write"},
   semicolon |-> {"semi"},
   assign_statement |-> {"use"},
   condition_statement |-> {"if"},
   condition_expression |-> {"math_expression"},
   relation_operator |-> {"relop"},
   math_expression |-> {"item"},
   math_expressionA |-> {")", "-", "else", "exec_statement_tableA", "relation_operator", "then"},
   item |-> {"factor"},
   itemA |-> {"*", "math_expressionA"},
   factor |-> {"constant", "func_call", "use"},
   constant |-> {"const"},
   func_call |-> {"identifier"}]

\* It begins with one of these.
LEMMA LeadHeads ==
    ASSUME NEW f, Good(f), f[1] \in DOMAIN Rules, NEW g \in Leads(f)
    PROVE  Good(g) /\ g[1] \in Heads[f[1]]
<1>1. PICK p \in Rules[f[1]] : g = p \o Tail(f)
  BY DEF Leads
<1>2. Good(g) /\ (p = <<>> => g[1] = f[2] /\ Goes(f[1], f[2])) /\ (p # <<>> => g[1] = p[1])
  BY <1>1, LeadsOf
<1>3. CASE f[1] = "branch_procedure"
  BY <1>2, <1>3, Rule_branch_procedure DEF Heads
<1>4. CASE f[1] = "func_body"
  BY <1>2, <1>4, Rule_func_body DEF Heads
<1>5. CASE f[1] = "declare_statement_table"
  BY <1>2, <1>5, Rule_declare_statement_table DEF Heads
<1>6. CASE f[1] = "declare_statement_tableA"
  BY <1>2, <1>6, Rule_declare_statement_tableA DEF Heads, Goes, Decls, Execs, Exprs, Prods
<1>7. CASE f[1] = "declare_statement"
  BY <1>2, <1>7, Rule_declare_statement DEF Heads
<1>8. CASE f[1] = "var_declare"
  BY <1>2, <1>8, Rule_var_declare DEF Heads
<1>9. CASE f[1] = "func_declare"
  BY <1>2, <1>9, Rule_func_declare DEF Heads
<1>10. CASE f[1] = "exec_statement_table"
  BY <1>2, <1>10, Rule_exec_statement_table DEF Heads
<1>11. CASE f[1] = "exec_statement_tableA"
  BY <1>2, <1>11, Rule_exec_statement_tableA DEF Heads, Goes, Decls, Execs, Exprs, Prods
<1>12. CASE f[1] = "exec_statement"
  BY <1>2, <1>12, Rule_exec_statement DEF Heads
<1>13. CASE f[1] = "read_statement"
  BY <1>2, <1>13, Rule_read_statement DEF Heads
<1>14. CASE f[1] = "write_statement"
  BY <1>2, <1>14, Rule_write_statement DEF Heads
<1>15. CASE f[1] = "semicolon"
  BY <1>2, <1>15, Rule_semicolon DEF Heads
<1>16. CASE f[1] = "assign_statement"
  BY <1>2, <1>16, Rule_assign_statement DEF Heads
<1>17. CASE f[1] = "condition_statement"
  BY <1>2, <1>17, Rule_condition_statement DEF Heads
<1>18. CASE f[1] = "condition_expression"
  BY <1>2, <1>18, Rule_condition_expression DEF Heads
<1>19. CASE f[1] = "relation_operator"
  BY <1>2, <1>19, Rule_relation_operator DEF Heads
<1>20. CASE f[1] = "math_expression"
  BY <1>2, <1>20, Rule_math_expression DEF Heads
<1>21. CASE f[1] = "math_expressionA"
  BY <1>2, <1>21, Rule_math_expressionA DEF Heads, Goes, Decls, Execs, Exprs, Prods
<1>22. CASE f[1] = "item"
  BY <1>2, <1>22, Rule_item DEF Heads
<1>23. CASE f[1] = "itemA"
  BY <1>2, <1>23, Rule_itemA DEF Heads, Goes, Decls, Execs, Exprs, Prods
<1>24. CASE f[1] = "factor"
  BY <1>2, <1>24, Rule_factor DEF Heads
<1>25. CASE f[1] = "constant"
  BY <1>2, <1>25, Rule_constant DEF Heads
<1>26. CASE f[1] = "func_call"
  BY <1>2, <1>26, Rule_func_call DEF Heads
<1> QED BY RuleNames, <1>2, <1>3, <1>4, <1>5, <1>6, <1>7, <1>8, <1>9, <1>10, <1>11, <1>12, <1>13,
          <1>14, <1>15, <1>16, <1>17, <1>18, <1>19, <1>20, <1>21, <1>22, <1>23, <1>24,
          <1>25, <1>26

\* How often the first symbol can be replaced, at most.
Rank1 == (Words \ DOMAIN Rules) \cup {"branch_procedure", "func_body",
          "declare_statement_tableA", "var_declare", "func_declare",
          "exec_statement_tableA", "read_statement", "write_statement", "semicolon",
          "assign_statement", "condition_statement", "relation_operator", "constant",
          "func_call"}
Rank2 == Rank1 \cup {"declare_statement", "exec_statement", "math_expressionA",
          "factor"}
Rank3 == Rank2 \cup {"declare_statement_table", "exec_statement_table", "item",
          "itemA"}
Rank4 == Rank3 \cup {"math_expression"}
Rank5 == Rank4 \cup {"condition_expression"}

\* A replacement leaves fewer to do.
LEMMA RankFalls ==
    ASSUME NEW f, Good(f), f[1] \in DOMAIN Rules, NEW g \in Leads(f)
    PROVE  /\ f[1] \in Rank1 => g[1] \notin DOMAIN Rules
           /\ f[1] \in Rank2 => g[1] \in Rank1
           /\ f[1] \in Rank3 => g[1] \in Rank2
           /\ f[1] \in Rank4 => g[1] \in Rank3
           /\ f[1] \in Rank5 => g[1] \in Rank4
<1>1. g[1] \in Heads[f[1]]
  BY LeadHeads
<1>2. f[1] \in Rank1 => g[1] \notin DOMAIN Rules /\ g[1] \in Words
  BY <1>1, RuleNames, WordsAre DEF Heads, Rank1
<1>3. f[1] \in Rank2 => g[1] \in Rank1
  BY <1>1, <1>2, RuleNames, WordsAre DEF Heads, Rank1, Rank2
<1>4. f[1] \in Rank3 => g[1] \in Rank2
  BY <1>1, <1>3, RuleNames, WordsAre DEF Heads, Rank1, Rank2, Rank3
<1>5. f[1] \in Rank4 => g[1] \in Rank3
  BY <1>1, <1>4, RuleNames, WordsAre DEF Heads, Rank1, Rank2, Rank3, Rank4
<1>6. f[1] \in Rank5 => g[1] \in Rank4
  BY <1>1, <1>5, RuleNames, WordsAre DEF Heads, Rank1, Rank2, Rank3, Rank4, Rank5
<1> QED BY <1>2, <1>3, <1>4, <1>5, <1>6

\* So five steps always do.
LEMMA AllReady ==
    ASSUME NEW f, Good(f)
    PROVE  Ready5(f)
<1>1. \A h : Good(h) => \A g \in Next1(h) :
              /\ Good(g)
              /\ h[1] \in Rank1 => Settled(g)
              /\ h[1] \in Rank2 => g[1] \in Rank1
              /\ h[1] \in Rank3 => g[1] \in Rank2
              /\ h[1] \in Rank4 => g[1] \in Rank3
              /\ h[1] \in Rank5 => g[1] \in Rank4
  <2> SUFFICES ASSUME NEW h, Good(h), NEW g \in Next1(h)
               PROVE  /\ Good(g)
                      /\ h[1] \in Rank1 => Settled(g)
                      /\ h[1] \in Rank2 => g[1] \in Rank1
                      /\ h[1] \in Rank3 => g[1] \in Rank2
                      /\ h[1] \in Rank4 => g[1] \in Rank3
                      /\ h[1] \in Rank5 => g[1] \in Rank4
    OBVIOUS
  <2>0. h # <<>> /\ h[1] \in Words
    <3>1. h \in Seq(Words) /\ Len(h) > 0 /\ Len(h) \in Nat
      BY LenProperties DEF Good
    <3> QED BY <3>1, ElementOfSeq, EmptySeq
  <2>1. CASE Settled(h)
    <3>1. g = h /\ h[1] \notin DOMAIN Rules
      BY <2>0, <2>1 DEF Next1, Settled
    <3>2. h[1] \in Rank1 /\ h[1] \in Rank2 /\ h[1] \in Rank3 /\ h[1] \in Rank4
      BY <2>0, <3>1, Zenon DEF Rank1, Rank2, Rank3, Rank4
    <3> QED BY <2>1, <3>1, <3>2
  <2>2. CASE ~Settled(h)
    <3>1. g \in Leads(h) /\ h[1] \in DOMAIN Rules
      BY <2>2 DEF Next1, Settled
    <3>2. Good(g)
      BY <3>1, LeadHeads
    <3>3. h[1] \in Rank1 => g[1] \notin DOMAIN Rules
      BY <3>1, RankFalls
    <3>4. h[1] \in Rank1 => Settled(g)
      BY <3>3 DEF Settled
    <3> QED BY <3>1, <3>2, <3>4, RankFalls
  <2> QED BY <2>1, <2>2
<1>2. \A h : Good(h) /\ h[1] \in Rank1 => Ready1(h)
  BY <1>1, Zenon DEF Ready1
<1>3. \A h : Good(h) /\ h[1] \in Rank2 => Ready2(h)
  BY <1>1, <1>2, Zenon DEF Ready2
<1>4. \A h : Good(h) /\ h[1] \in Rank3 => Ready3(h)
  BY <1>1, <1>3, Zenon DEF Ready3
<1>5. \A h : Good(h) /\ h[1] \in Rank4 => Ready4(h)
  BY <1>1, <1>4, Zenon DEF Ready4
<1>6. \A h : Good(h) /\ h[1] \in Rank5 => Ready5(h)
  BY <1>1, <1>5, Zenon DEF Ready5
<1>7. f[1] \in Rank5
  <2>1. f[1] \in Words
    <3>1. f \in Seq(Words) /\ Len(f) > 0 /\ Len(f) \in Nat
      BY LenProperties DEF Good
    <3> QED BY <3>1, ElementOfSeq
  <2> QED BY <2>1, RuleNames DEF Rank1, Rank2, Rank3, Rank4, Rank5
<1> QED BY <1>6, <1>7

-----------------------------------------------------------------------------
(* Looking ahead. *)

\* A phrase in order is not empty.
LEMMA GoodIs ==
    ASSUME NEW f, Good(f)
    PROVE  f # <<>> /\ f \in Seq(Words) /\ f[1] \in Words
<1>1. f \in Seq(Words) /\ Len(f) > 0 /\ Len(f) \in Nat
  BY LenProperties DEF Good
<1> QED BY <1>1, ElementOfSeq, EmptySeq

\* A phrase that can be read on can be read on by one of the rules of its first symbol.
LEMMA AliveRule ==
    ASSUME NEW f, Good(f), f[1] \in DOMAIN Rules, NEW K, NEW t, Read(f, K, t) # {}
    PROVE  \E g : Good(g) /\ g \in Leads(f) /\ g[1] \in Heads[f[1]] /\ Read(g, K, t) # {}
<1>1. Ready5(f) /\ ~Settled(f)
  BY AllReady, GoodIs DEF Settled
<1>2. PICK y : y \in Read(f, K, t)
  OBVIOUS
<1>3. \A z : z \in Read(f, K, t) <=> \E g \in Leads(f) : z \in Read(g, K, t)
  BY <1>1, SeenByRules
<1>4. PICK g \in Leads(f) : y \in Read(g, K, t)
  BY <1>2, <1>3
<1>5. Good(g) /\ g[1] \in Heads[f[1]]
  BY LeadHeads
<1> QED BY <1>4, <1>5

\* Tokens that match nothing but themselves.
Literals == Keywords \cup Signs \cup {"const", "EOF"}

\* Which token a terminal matches.
LEMMA MatchesPlain ==
    ASSUME NEW t \in Tokens, NEW K, NEW x \in Words \ DOMAIN Rules
    PROVE  /\ x \in Literals => (Matches(x, t, K) <=> x = t)
           /\ x \in {"define", "identifier"} => (Matches(x, t, K) <=> t \in Names)
           /\ x = "use" => (Matches(x, t, K) <=> t \in Names /\ t \in K)
           /\ x \in {"complain", "overrun"} => ~Matches(x, t, K)
<1>1. t \in Names \/ t \in Literals
  BY DEF Tokens, Literals
<1>2. t \in Names => t \notin Words
  BY NamesApart
<1>3. t \in Names => t # x
  BY <1>2
<1>4. t \in Literals => t \notin Names
  <2>1. Literals \subseteq Words
    BY DEF Literals, Words
  <2> QED BY <1>2, <2>1
<1>5. x \in Literals => x \notin {"define", "identifier", "use", "complain", "overrun"}
  BY DEF Literals, Keywords, Signs
<1>6. CASE t \in Names
  BY <1>2, <1>3, <1>5, <1>6 DEF Matches, IsName
<1>7. CASE t \in Literals
  <2>1. t \notin {"define", "identifier", "use", "complain", "overrun"}
    BY <1>7 DEF Literals, Keywords, Signs
  <2> QED BY <1>4, <1>7, <2>1 DEF Matches, IsName
<1> QED BY <1>1, <1>6, <1>7

\* What the next token can be, if a phrase can be read on.
LEMMA AliveTerminal ==
    ASSUME NEW f, Good(f), f[1] \notin DOMAIN Rules, NEW K, NEW t \in Tokens, Read(f, K, t) # {}
    PROVE  /\ f[1] \in Literals => t = f[1]
           /\ f[1] \in {"define", "identifier", "use"} => t \in Names
<1>1. Matches(f[1], t, K) /\ f[1] \in Words \ DOMAIN Rules
  BY ReadTerminal, GoodIs
<1> QED BY <1>1, MatchesPlain

\* The tokens that a procedure can begin with, or that can follow it when it is empty.
Firsts ==
  [var_declare |-> {"integer"}, func_declare |-> {"integer"}, declare_statement |-> {"integer"},
   read_statement |-> {"read"}, write_statement |-> {"write"}, condition_statement |-> {"if"},
   assign_statement |-> Names, exec_statement |-> {"read", "write", "if"} \cup Names,
   exec_statement_table |-> {"read", "write", "if"} \cup Names,
   constant |-> {"const"}, func_call |-> Names, relation_operator |-> {"relop"},
   exec_statement_tableA |-> {"semi", "end"},
   math_expressionA |-> {"semi", "end", "else", "then", "relop", ")", "-"},
   itemA |-> {"semi", "end", "else", "then", "relop", ")", "-", "*"}]

\* A phrase can be read on by no other token.
LEMMA AliveFirst ==
    ASSUME NEW f, Good(f), NEW K, NEW t \in Tokens, Read(f, K, t) # {}, f[1] \in DOMAIN Firsts
    PROVE  t \in Firsts[f[1]]
<1> DEFINE Lives(g) == Good(g) /\ Read(g, K, t) # {}
<1>1. \A g : Lives(g) /\ g[1] \in DOMAIN Rules => \E h : Lives(h) /\ h[1] \in Heads[g[1]]
  BY AliveRule
<1>2. \A g : Lives(g) /\ g[1] \notin DOMAIN Rules =>
         /\ g[1] \in Literals => t = g[1]
         /\ g[1] \in {"define", "identifier", "use"} => t \in Names
  BY AliveTerminal
<1> HIDE DEF Lives
<1>3. /\ "integer" \in Literals /\ "read" \in Literals /\ "write" \in Literals /\ "if" \in Literals
      /\ "const" \in Literals /\ "relop" \in Literals /\ "semi" \in Literals /\ "end" \in Literals
      /\ "else" \in Literals /\ "then" \in Literals /\ ")" \in Literals /\ "-" \in Literals
      /\ "*" \in Literals
  BY DEF Literals, Keywords, Signs
<1>4. ASSUME NEW g, Lives(g), g[1] \in {"integer", "read", "write", "if", "const", "relop",
                                         "semi", "end", "else", "then", ")", "-", "*"}
      PROVE  t = g[1]
  BY <1>2, <1>3, <1>4, RuleNames
<1>5. ASSUME NEW g, Lives(g), g[1] \in {"use", "identifier"}
      PROVE  t \in Names
  BY <1>2, <1>5, RuleNames
<1>6. ASSUME NEW g, Lives(g),
             g[1] \in {"var_declare", "func_declare", "read_statement", "write_statement",
                       "condition_statement", "assign_statement", "constant", "func_call",
                       "relation_operator", "exec_statement_tableA"}
      PROVE  t \in Firsts[g[1]]
  <2>1. PICK h : Lives(h) /\ h[1] \in Heads[g[1]]
    BY <1>1, <1>6, RuleNames
  <2>2. CASE g[1] \in {"assign_statement", "func_call"}
    <3>1. h[1] \in {"use", "identifier"}
      BY <2>1, <2>2 DEF Heads
    <3>2. t \in Names
      BY <2>1, <3>1, <1>5
    <3> QED BY <2>2, <3>2 DEF Firsts
  <2>3. CASE g[1] \notin {"assign_statement", "func_call"}
    <3>1. /\ h[1] \in {"integer", "read", "write", "if", "const", "relop", "semi", "end"}
          /\ h[1] \in Firsts[g[1]]
      BY <2>1, <2>3, <1>6 DEF Heads, Firsts
    <3>2. t = h[1]
      BY <2>1, <3>1, <1>4
    <3> QED BY <3>1, <3>2
  <2> QED BY <2>2, <2>3
<1>7. ASSUME NEW g, Lives(g), g[1] \in {"declare_statement", "exec_statement", "math_expressionA"}
      PROVE  t \in Firsts[g[1]]
  <2>1. PICK h : Lives(h) /\ h[1] \in Heads[g[1]]
    BY <1>1, <1>7, RuleNames
  <2>2. CASE h[1] \in {"else", "then", ")", "-"}
    <3>1. t = h[1]
      BY <2>1, <2>2, <1>4
    <3> QED BY <2>1, <2>2, <3>1, <1>7 DEF Heads, Firsts
  <2>3. CASE h[1] \notin {"else", "then", ")", "-"}
    <3>1. h[1] \in {"var_declare", "func_declare", "read_statement", "write_statement",
                    "condition_statement", "assign_statement",
                    "relation_operator", "exec_statement_tableA"}
      BY <2>1, <2>3, <1>7 DEF Heads
    <3>2. t \in Firsts[h[1]]
      BY <2>1, <3>1, <1>6
    <3> QED BY <2>1, <2>3, <3>2, <1>7 DEF Heads, Firsts
  <2> QED BY <2>2, <2>3
<1>8. ASSUME NEW g, Lives(g), g[1] \in {"exec_statement_table", "itemA"}
      PROVE  t \in Firsts[g[1]]
  <2>1. PICK h : Lives(h) /\ h[1] \in Heads[g[1]]
    BY <1>1, <1>8, RuleNames
  <2>2. CASE h[1] = "*"
    <3>1. t = h[1]
      BY <2>1, <2>2, <1>4
    <3> QED BY <2>1, <2>2, <3>1, <1>8 DEF Heads, Firsts
  <2>3. CASE h[1] # "*"
    <3>1. h[1] \in {"exec_statement", "math_expressionA"}
      BY <2>1, <2>3, <1>8 DEF Heads
    <3>2. t \in Firsts[h[1]]
      BY <2>1, <3>1, <1>7
    <3> QED BY <2>1, <2>3, <3>2, <1>8 DEF Heads, Firsts
  <2> QED BY <2>2, <2>3
<1>9. Lives(f)
  BY DEF Lives
<1>10. DOMAIN Firsts = {"var_declare", "func_declare", "declare_statement", "read_statement",
          "write_statement", "condition_statement", "assign_statement", "exec_statement",
          "exec_statement_table", "constant", "func_call", "relation_operator",
          "exec_statement_tableA", "math_expressionA", "itemA"}
  BY DEF Firsts
<1> QED BY <1>6, <1>7, <1>8, <1>9, <1>10

\* What the two tokens leave of a phrase is what they leave of its replacements.
LEMMA SeenBy ==
    ASSUME NEW f, Good(f), f[1] \in DOMAIN Rules, NEW K, NEW a, NEW b
    PROVE  \A y : y \in Seen(f, K, a, b) <=>
                \E p \in Rules[f[1]] : y \in Seen(p \o Tail(f), K, a, b)
<1>1. Ready5(f) /\ ~Settled(f)
  BY AllReady, GoodIs DEF Settled
<1>2. \A y : y \in Seen(f, K, a, b) <=> \E g \in Leads(f) : y \in Seen(g, K, a, b)
  BY <1>1, SeenByRules
<1>3. \A g : g \in Leads(f) <=> \E p \in Rules[f[1]] : g = p \o Tail(f)
  BY DEF Leads
<1> QED BY <1>2, <1>3, Zenon

\* A choice is right when everything else is wrong.
LEMMA OneLives ==
    ASSUME NEW f, Good(f), f[1] \in DOMAIN Rules, NEW K, NEW a, NEW b,
           NEW p \in Rules[f[1]],
           \A q \in Rules[f[1]] : q # p => Seen(q \o Tail(f), K, a, b) = {}
    PROVE  Seen(f, K, a, b) = Seen(p \o Tail(f), K, a, b)
<1>1. \A y : y \in Seen(f, K, a, b) <=> \E q \in Rules[f[1]] : y \in Seen(q \o Tail(f), K, a, b)
  BY SeenBy
<1>2. \A y : y \in Seen(f, K, a, b) <=> y \in Seen(p \o Tail(f), K, a, b)
  BY <1>1
<1> QED BY <1>2

\* What dies on the first token is dead.
LEMMA ReadOrDead ==
    ASSUME NEW f, NEW K, NEW a, NEW b, Read(f, K, a) = {}
    PROVE  Seen(f, K, a, b) = {}
  BY AfterNothing DEF Seen

\* The second token cannot follow, whatever the first one declared.
LEMMA DeadNext ==
    ASSUME NEW f, Good(f), f[1] \notin DOMAIN Rules, NEW K, NEW a, NEW b, a # "EOF",
           \A k : Read(Tail(f), k, b) = {}
    PROVE  Seen(f, K, a, b) = {}
<1>1. f # <<>>
  BY GoodIs
<1>2. Seen(f, K, a, b) = After(Read(f, K, a), b)
  BY DEF Seen
<1>3. CASE Matches(f[1], a, K)
  <2>1. PICK k : Read(f, K, a) = One(Tail(f), k)
    BY <1>1, <1>3, ReadTerminal
  <2> QED BY <1>2, <2>1 DEF Read
<1>4. CASE ~Matches(f[1], a, K)
  <2>1. Read(f, K, a) = {}
    BY <1>1, <1>4, ReadTerminal
  <2> QED BY <1>2, <2>1, AfterNothing
<1> QED BY <1>3, <1>4

\* A rule of two symbols or more: what stands behind the first one is in order too.
LEMMA Behead ==
    ASSUME NEW f, Good(f), f[1] # "EOF", NEW p, Belongs(p, f[1]), Len(p) > 1
    PROVE  /\ Good(p \o Tail(f)) /\ (p \o Tail(f))[1] = p[1]
           /\ p[1] # "EOF" => Good(Tail(p \o Tail(f))) /\ Tail(p \o Tail(f))[1] = p[2]
<1>1. p \in Seq(Words) /\ Tail(f) \in Seq(Words) /\ Len(p) \in Nat
  BY GoodTail, LenProperties, ItemsAreWords DEF Belongs
<1>2. (p \o Tail(f))[1] = p[1] /\ (p \o Tail(f))[2] = p[2]
  <2>1. \A i \in 1..Len(p) : (p \o Tail(f))[i] = p[i]
    BY <1>1, ConcatProperties
  <2>2. 1 \in 1..Len(p) /\ 2 \in 1..Len(p)
    BY <1>1
  <2> QED BY <2>1, <2>2
<1>3. Good(p \o Tail(f))
  BY GoodReplace
<1>4. ASSUME p[1] # "EOF" PROVE Good(Tail(p \o Tail(f))) /\ Tail(p \o Tail(f))[1] = p[2]
  BY <1>2, <1>3, <1>4, GoodTail
<1> QED BY <1>2, <1>3, <1>4

\* A terminal that the current token does not match leaves nothing.
LEMMA NotAhead ==
    ASSUME NEW f, Good(f), NEW K, NEW t \in Tokens,
           \/ f[1] \in DOMAIN Firsts /\ t \notin Firsts[f[1]]
           \/ f[1] \notin DOMAIN Rules /\ f[1] \in Literals /\ t # f[1]
           \/ f[1] \in {"use", "define", "identifier"} /\ t \notin Names
           \/ f[1] \in {"complain", "overrun"}
    PROVE  Read(f, K, t) = {}
<1>1. CASE f[1] \in DOMAIN Firsts /\ t \notin Firsts[f[1]]
  BY <1>1, AliveFirst
<1>2. CASE f[1] \notin DOMAIN Rules /\ f[1] \in Literals /\ t # f[1]
  BY <1>2, AliveTerminal
<1>3. CASE f[1] \in {"use", "define", "identifier"} /\ t \notin Names
  <2>1. f[1] \notin DOMAIN Rules
    BY <1>3, RuleNames
  <2> QED BY <1>3, <2>1, AliveTerminal
<1>4. CASE f[1] \in {"complain", "overrun"}
  <2>1. f # <<>> /\ f[1] \in Words \ DOMAIN Rules
    BY <1>4, RuleNames, GoodIs
  <2>2. ~Matches(f[1], t, K)
    BY <1>4, <2>1, MatchesPlain
  <2> QED BY <2>1, <2>2, ReadTerminal
<1> QED BY <1>1, <1>2, <1>3, <1>4

\* The procedures that Firsts speaks about.
LEMMA FirstNames ==
    DOMAIN Firsts = {"var_declare", "func_declare", "declare_statement", "read_statement",
          "write_statement", "condition_statement", "assign_statement", "exec_statement",
          "exec_statement_table", "constant", "func_call", "relation_operator",
          "exec_statement_tableA", "math_expressionA", "itemA"}
  BY DEF Firsts

\* No identifier is a literal; literals are tokens.
LEMMA NoName ==
    /\ \A n \in Names : n \notin Literals
    /\ Literals \subseteq Tokens
<1>1. Literals \subseteq Words
  BY DEF Literals, Words
<1> QED BY <1>1, NamesApart DEF Tokens, Literals

\* The items that stand for a mistake may stand anywhere.
LEMMA WrongBelongs ==
    ASSUME NEW x
    PROVE  Belongs(<<"complain">>, x) /\ Belongs(<<"overrun">>, x)
<1> USE DEF Belongs, Goes, Decls, Execs, Stats, Exprs, Prods
<1>1. ASSUME NEW p, p = <<"complain">> \/ p = <<"overrun">> PROVE Belongs(p, x)
  <2>1. p \in Seq(Items) /\ Len(p) = 1 /\ p[1] \in {"complain", "overrun"}
    <3>1. CASE p = <<"complain">>
      BY <3>1, ItemsAre
    <3>2. CASE p = <<"overrun">>
      BY <3>2, ItemsAre
    <3> QED BY <1>1, <3>1, <3>2
  <2> QED BY <2>1
<1> QED BY <1>1

\* A phrase that begins with a mistake leaves nothing.
LEMMA WrongSeen ==
    ASSUME NEW f, Good(f), f[1] # "EOF", NEW K, NEW a \in Tokens, NEW b, NEW p,
           p = <<"complain">> \/ p = <<"overrun">>
    PROVE  Seen(p \o Tail(f), K, a, b) = {}
<1>1. Belongs(p, f[1])
  BY WrongBelongs
<1>2. Good(p \o Tail(f))
  BY <1>1, GoodReplace
<1>3. p \in Seq(Words) /\ p # <<>> /\ p[1] \in {"complain", "overrun"}
  <2>1. CASE p = <<"complain">>
    BY <2>1, WordsAre
  <2>2. CASE p = <<"overrun">>
    BY <2>2, WordsAre
  <2> QED BY <2>1, <2>2
<1>4. (p \o Tail(f))[1] = p[1]
  BY <1>3, GoodTail, FrontOfWords
<1>5. Read(p \o Tail(f), K, a) = {}
  BY <1>2, <1>3, <1>4, NotAhead
<1> QED BY <1>5, ReadOrDead

\* The procedures that look before they choose.
LEMMA ChosenNames ==
    DOMAIN Chosen = {"declare_statement_tableA", "declare_statement", "exec_statement_tableA",
                     "exec_statement", "math_expressionA", "itemA", "factor"}
  BY DEF Chosen

\* A phrase that begins with s cannot go on with t.
Stops(s, t) == \/ s \in DOMAIN Firsts /\ t \notin Firsts[s]
               \/ s \in Literals /\ t # s
               \/ s \in {"use", "define", "identifier"} /\ t \notin Names
Refutes(q, a, b) == /\ q # <<>>
                    /\ \/ Stops(q[1], a)
                       \/ /\ Len(q) > 1 /\ q[1] \notin DOMAIN Rules /\ q[1] # "EOF" /\ a # "EOF"
                          /\ Stops(q[2], b)

\* Such a phrase leaves nothing.
LEMMA StopsRead ==
    ASSUME NEW f, Good(f), NEW t \in Tokens, Stops(f[1], t)
    PROVE  \A k : Read(f, k, t) = {}
<1>1. f[1] \in Literals => f[1] \notin DOMAIN Rules
  BY RuleNames DEF Literals, Keywords, Signs
<1> QED BY <1>1, NotAhead DEF Stops

\* A rule that the two tokens refute leaves nothing of the phrase.
LEMMA RuleDies ==
    ASSUME NEW f, Good(f), f[1] # "EOF", NEW K, NEW a \in Tokens, NEW b \in Tokens,
           NEW q, Belongs(q, f[1]), Refutes(q, a, b)
    PROVE  Seen(q \o Tail(f), K, a, b) = {}
<1> DEFINE h == q \o Tail(f)
<1>1. Good(h)
  BY GoodReplace
<1>2. h[1] = q[1]
  <2>1. Tail(f) \in Seq(Words) /\ q \in Seq(Words) /\ q # <<>>
    BY GoodTail, ItemsAreWords DEF Belongs, Refutes
  <2> QED BY <2>1, FrontOfWords
<1>3. CASE Stops(q[1], a)
  <2>1. Read(h, K, a) = {}
    BY <1>1, <1>2, <1>3, StopsRead
  <2> QED BY <2>1, ReadOrDead
<1>4. CASE /\ Len(q) > 1 /\ q[1] \notin DOMAIN Rules /\ q[1] # "EOF" /\ a # "EOF"
           /\ Stops(q[2], b)
  <2>1. Good(Tail(h)) /\ Tail(h)[1] = q[2]
    BY <1>4, Behead
  <2>2. \A k : Read(Tail(h), k, b) = {}
    BY <1>4, <2>1, StopsRead
  <2> QED BY <1>1, <1>2, <1>4, <2>2, DeadNext
<1> QED BY <1>3, <1>4 DEF Refutes

\* When all rules are refuted, nothing is left.
LEMMA AllDie ==
    ASSUME NEW f, Good(f), f[1] \in DOMAIN Rules, NEW K, NEW a \in Tokens, NEW b \in Tokens,
           \A q \in Rules[f[1]] : Refutes(q, a, b)
    PROVE  Seen(f, K, a, b) = {}
<1>1. \A q \in Rules[f[1]] : Seen(q \o Tail(f), K, a, b) = {}
  BY RuleNames, RulesBelong, RuleDies
<1>2. \A y : y \in Seen(f, K, a, b) <=> \E q \in Rules[f[1]] : y \in Seen(q \o Tail(f), K, a, b)
  BY SeenBy
<1> QED BY <1>1, <1>2

\* The current token, with which a procedure does nothing, belongs to what comes behind it.
LEMMA NothingDies ==
    ASSUME NEW f, Good(f), f[1] # "EOF", NEW K, NEW a \in Tokens, NEW b, Stops(f[2], a)
    PROVE  Seen(<<>> \o Tail(f), K, a, b) = {}
<1>1. Tail(f) \in Seq(Words) /\ Good(Tail(f)) /\ Tail(f)[1] = f[2]
  BY GoodTail
<1>2. Read(Tail(f), K, a) = {}
  BY <1>1, StopsRead
<1>3. <<>> \o Tail(f) = Tail(f)
  BY <1>1, ConcatEmptySeq
<1> QED BY <1>2, <1>3, ReadOrDead

\* The parser's choice: what is rejected cannot be meant by the two tokens that it sees.
LEMMA ChoosesRight ==
    ASSUME NEW f, Good(f), f[1] \in DOMAIN Chosen, NEW K,
           current \in Tokens, now_more_one \in Tokens
    PROVE  /\ Belongs(Chosen[f[1]], f[1])
           /\ Seen(f, K, current, now_more_one)
                = Seen(Chosen[f[1]] \o Tail(f), K, current, now_more_one)
<1> DEFINE a == current
           b == now_more_one
           S(p) == Seen(p \o Tail(f), K, a, b)
           x == f[1]
           chosen == Chosen[x]
<1> SUFFICES Belongs(chosen, x) /\ Seen(f, K, a, b) = S(chosen)
  OBVIOUS
<1>1. x \in DOMAIN Rules /\ x # "EOF"
  BY ChosenNames, RuleNames
<1>2. \A p \in Rules[x] : Belongs(p, x)
  BY <1>1, RulesBelong
<1>3. \A p \in Rules[x] : (\A q \in Rules[x] : q # p => S(q) = {}) => Seen(f, K, a, b) = S(p)
  BY <1>1, OneLives
<1>4. \A p \in Rules[x] : Refutes(p, a, b) => S(p) = {}
  BY <1>1, <1>2, RuleDies
<1>5. Stops(f[2], a) => S(<<>>) = {}
  BY <1>1, NothingDies
<1>6. \A p \in Rules[x] : Good(p \o Tail(f)) /\ (p # <<>> => (p \o Tail(f))[1] = p[1])
  BY <1>1, LeadsOf
<1>7. (\A q \in Rules[x] : Refutes(q, a, b)) =>
         \A p : p = <<"complain">> \/ p = <<"overrun">> =>
            Belongs(p, x) /\ Seen(f, K, a, b) = S(p)
  <2> SUFFICES ASSUME \A q \in Rules[x] : Refutes(q, a, b),
                      NEW p, p = <<"complain">> \/ p = <<"overrun">>
               PROVE  Belongs(p, x) /\ Seen(f, K, a, b) = S(p)
    OBVIOUS
  <2>1. S(p) = {}
    BY <1>1, WrongSeen
  <2>2. Seen(f, K, a, b) = {}
    BY <1>1, AllDie
  <2>3. Belongs(p, x)
    BY WrongBelongs
  <2> QED BY <2>1, <2>2, <2>3
<1>7a. \A g : Good(g) /\ g[1] \notin DOMAIN Rules /\ a # "EOF" /\ (\A k : Read(Tail(g), k, b) = {})
              => Seen(g, K, a, b) = {}
  BY DeadNext
<1>8. Goes(f[1], f[2]) /\ Good(Tail(f)) /\ Tail(f)[1] = f[2] /\ <<>> \o Tail(f) = Tail(f)
  BY <1>1, GoodTail, ConcatEmptySeq
<1>9. a \in Tokens /\ b \in Tokens
  OBVIOUS
<1>10. \A n \in Names : n \notin Literals
  BY NoName
<1>11. {"integer", "semi", "-", "*", "const", "EOF", "(", "function", "read", "write",
        "if"} \subseteq Literals
  BY DEF Literals, Keywords, Signs
<1>12. x \in DOMAIN Rules /\ x = f[1]
  BY <1>1
<1> HIDE DEF a, b, x, S, chosen
<1>13. CASE x = "declare_statement"
  <2>1. Rules[x] = {<<"var_declare">>, <<"func_declare">>}
    BY <1>13, Rule_declare_statement
  <2>2. chosen = IF a # "integer" THEN <<"complain">>
                 ELSE IF b = "function" THEN <<"func_declare">> ELSE <<"var_declare">>
    BY <1>13 DEF Chosen, a, b, x, chosen
  <2>3. <<"var_declare">> # <<>> /\ <<"var_declare">>[1] = "var_declare"
         /\ <<"func_declare">> # <<>> /\ <<"func_declare">>[1] = "func_declare"
         /\ <<"var_declare">> # <<"func_declare">>
    OBVIOUS
  <2>4. CASE a # "integer"
    <3>1. \A q \in Rules[x] : Refutes(q, a, b)
      BY <2>1, <2>3, <2>4, FirstNames DEF Refutes, Stops, Firsts
    <3> QED BY <3>1, <2>2, <2>4, <1>7
  <2>5. CASE a = "integer" /\ b = "function"
    <3>1. S(<<"var_declare">>) = {}
      <4> DEFINE g == <<"var_declare">> \o Tail(f)
      <4>1. Good(g) /\ g[1] = "var_declare"
        BY <2>1, <2>3, <1>6
      <4>2. \A q \in Rules[g[1]] : q = <<"integer", "define">>
        BY <4>1, Rule_var_declare
      <4>3. ASSUME NEW q, q = <<"integer", "define">> PROVE Refutes(q, a, b)
        <5>1. q # <<>> /\ Len(q) > 1 /\ q[1] = "integer" /\ q[2] = "define"
          BY <4>3
        <5> QED BY <5>1, <2>5, <1>10, <1>11, RuleNames DEF Refutes, Stops
      <4>4. Seen(g, K, a, b) = {}
        BY <4>1, <4>2, <4>3, <1>9, RuleNames, AllDie
      <4> QED BY <4>4 DEF S
    <3> QED BY <3>1, <2>1, <2>2, <2>3, <2>5, <1>2, <1>3
  <2>6. CASE a = "integer" /\ b # "function"
    <3>1. S(<<"func_declare">>) = {}
      <4> DEFINE g == <<"func_declare">> \o Tail(f)
                 r == <<"integer", "function", "define", "(", "define", ")", "semi", "func_body">>
      <4>1. Good(g) /\ g[1] = "func_declare"
        BY <2>1, <2>3, <1>6
      <4>2. \A q \in Rules[g[1]] : q = r
        BY <4>1, Rule_func_declare
      <4>3. Refutes(r, a, b)
        <5>1. r # <<>> /\ Len(r) > 1 /\ r[1] = "integer" /\ r[2] = "function"
          OBVIOUS
        <5> QED BY <5>1, <2>6, <1>11, RuleNames DEF Refutes, Stops
      <4>4. Seen(g, K, a, b) = {}
        BY <4>1, <4>2, <4>3, <1>9, RuleNames, AllDie
      <4> QED BY <4>4 DEF S
    <3> QED BY <3>1, <2>1, <2>2, <2>3, <2>6, <1>2, <1>3
  <2> QED BY <2>4, <2>5, <2>6
<1>14. CASE x = "declare_statement_tableA"
  <2>1. Rules[x] = {<<>>, <<"semi", "declare_statement", "declare_statement_tableA">>}
    BY <1>14, Rule_declare_statement_tableA
  <2>2. chosen = IF a = "semi" /\ b = "integer"
                 THEN <<"semi", "declare_statement", "declare_statement_tableA">> ELSE <<>>
    BY <1>14 DEF Chosen, a, b, x, chosen
  <2> DEFINE q == <<"semi", "declare_statement", "declare_statement_tableA">>
  <2>3. q # <<>> /\ Len(q) > 1 /\ q[1] = "semi" /\ q[2] = "declare_statement"
    OBVIOUS
  <2> HIDE DEF q
  <2>4. CASE a = "semi" /\ b = "integer"
    <3>1. S(<<>>) = {}
      <4> DEFINE g == Tail(f)
      <4>1. g[1] = "semi" /\ Good(g) /\ Good(Tail(g)) /\ Tail(g)[1] = "exec_statement_table"
        <5>1. f[2] = "semi" /\ g[1] = f[2] /\ Good(g) /\ g \in Seq(Words)
          BY <1>1, <1>8, <1>12, <1>14, GoodTail DEF Goes, Decls
        <5>2. Good(Tail(g)) /\ Tail(g)[1] = g[2]
          BY <5>1, GoodTail
        <5>3. g[2] = "exec_statement_table"
          <6>1. Len(f) \in Nat /\ Len(f) > 1 /\ \A i \in 1..(Len(f) - 1) : g[i] = f[i + 1]
            BY <1>1, <1>12, GoodTail
          <6>2. 1 \in 1..(Len(f) - 1) /\ f[1] \in Decls
            BY <6>1, <1>12, <1>14 DEF Decls
          <6>3. 1 + 2 <= Len(f) /\ f[1 + 2] = "exec_statement_table"
            BY <6>2 DEF Good
          <6>4. 2 \in 1..(Len(f) - 1) /\ 2 + 1 = 1 + 2
            BY <6>1, <6>3
          <6>5. g[2] = f[2 + 1]
            BY <6>1, <6>4
          <6> QED BY <6>3, <6>4, <6>5
        <5> QED BY <5>1, <5>2, <5>3
      <4>2. Stops(Tail(g)[1], b)
        <5>1. b \notin Names /\ b = "integer"
          BY <2>4, <1>10, <1>11
        <5>2. b \notin Firsts["exec_statement_table"]
          BY <5>1 DEF Firsts
        <5> QED BY <4>1, <5>2, FirstNames DEF Stops
      <4>3. \A k : Read(Tail(g), k, b) = {}
        BY <4>1, <4>2, <1>9, StopsRead
      <4>4. Seen(g, K, a, b) = {}
        BY <4>1, <4>3, <2>4, <1>7a, RuleNames
      <4> QED BY <4>4, <1>8 DEF S
    <3> QED BY <3>1, <2>1, <2>2, <2>3, <2>4, <1>2, <1>3 DEF q
  <2>5. CASE ~(a = "semi" /\ b = "integer")
    <3>1. Refutes(q, a, b)
      BY <2>3, <2>5, <1>11, FirstNames, RuleNames DEF Refutes, Stops, Firsts
    <3>2. S(q) = {}
      BY <3>1, <2>1, <1>4 DEF q
    <3> QED BY <3>2, <2>1, <2>2, <2>3, <2>5, <1>2, <1>3 DEF q
  <2> QED BY <2>4, <2>5
<1>15. CASE x = "exec_statement_tableA"
  <2>1. Rules[x] = {<<>>, <<"semi", "exec_statement", "exec_statement_tableA">>}
    BY <1>15, Rule_exec_statement_tableA
  <2>2. chosen = IF a = "semi" /\ Begins(b)
                 THEN <<"semi", "exec_statement", "exec_statement_tableA">> ELSE <<>>
    BY <1>15 DEF Chosen, a, b, x, chosen
  <2> DEFINE q == <<"semi", "exec_statement", "exec_statement_tableA">>
  <2>3. q # <<>> /\ Len(q) > 1 /\ q[1] = "semi" /\ q[2] = "exec_statement"
    OBVIOUS
  <2> HIDE DEF q
  <2>4. CASE a = "semi" /\ Begins(b)
    <3>1. f[2] = "end" /\ "end" \in Literals
      BY <1>8, <1>12, <1>15 DEF Goes, Execs, Literals, Keywords
    <3>2. S(<<>>) = {}
      BY <3>1, <2>4, <1>5 DEF Stops
    <3> QED BY <3>2, <2>1, <2>2, <2>3, <2>4, <1>2, <1>3 DEF q
  <2>5. CASE ~(a = "semi" /\ Begins(b))
    <3>1. Refutes(q, a, b)
      BY <2>3, <2>5, <1>11, FirstNames, RuleNames DEF Refutes, Stops, Firsts, Begins, IsName
    <3>2. S(q) = {}
      BY <3>1, <2>1, <1>4 DEF q
    <3> QED BY <3>2, <2>1, <2>2, <2>3, <2>5, <1>2, <1>3 DEF q
  <2> QED BY <2>4, <2>5
<1>16. CASE x = "math_expressionA"
  <2>1. Rules[x] = {<<>>, <<"-", "item", "math_expressionA">>}
    BY <1>16, Rule_math_expressionA
  <2>2. chosen = IF a = "-" THEN <<"-", "item", "math_expressionA">> ELSE <<>>
    BY <1>16 DEF Chosen, a, b, x, chosen
  <2> DEFINE q == <<"-", "item", "math_expressionA">>
  <2>3. q # <<>> /\ q[1] = "-"
    OBVIOUS
  <2> HIDE DEF q
  <2>4. CASE a = "-"
    <3>1. f[2] \in {"exec_statement_tableA", "else", "then", "relation_operator", ")"}
           /\ {"else", "then", ")"} \subseteq Literals
      BY <1>8, <1>12, <1>16 DEF Goes, Exprs, Literals, Keywords, Signs
    <3>2. Stops(f[2], a)
      BY <3>1, <2>4, FirstNames DEF Stops, Firsts
    <3>3. S(<<>>) = {}
      BY <3>2, <1>5
    <3> QED BY <3>3, <2>1, <2>2, <2>3, <2>4, <1>2, <1>3 DEF q
  <2>5. CASE a # "-"
    <3>1. S(q) = {}
      BY <2>1, <2>3, <2>5, <1>4, <1>11 DEF q, Refutes, Stops
    <3> QED BY <3>1, <2>1, <2>2, <2>3, <2>5, <1>2, <1>3 DEF q
  <2> QED BY <2>4, <2>5
<1>17. CASE x = "itemA"
  <2>1. Rules[x] = {<<>>, <<"*", "factor", "itemA">>}
    BY <1>17, Rule_itemA
  <2>2. chosen = IF a = "*" THEN <<"*", "factor", "itemA">> ELSE <<>>
    BY <1>17 DEF Chosen, a, b, x, chosen
  <2> DEFINE q == <<"*", "factor", "itemA">>
  <2>3. q # <<>> /\ q[1] = "*"
    OBVIOUS
  <2> HIDE DEF q
  <2>4. CASE a = "*"
    <3>1. f[2] = "math_expressionA"
      BY <1>8, <1>12, <1>17 DEF Goes, Prods
    <3>2. Stops(f[2], a)
      BY <3>1, <2>4, <1>10, <1>11, FirstNames DEF Stops, Firsts
    <3>3. S(<<>>) = {}
      BY <3>2, <1>5
    <3> QED BY <3>3, <2>1, <2>2, <2>3, <2>4, <1>2, <1>3 DEF q
  <2>5. CASE a # "*"
    <3>1. S(q) = {}
      BY <2>1, <2>3, <2>5, <1>4, <1>11 DEF q, Refutes, Stops
    <3> QED BY <3>1, <2>1, <2>2, <2>3, <2>5, <1>2, <1>3 DEF q
  <2> QED BY <2>4, <2>5
<1>18. CASE x = "exec_statement"
  <2>1. Rules[x] = {<<"read_statement">>, <<"write_statement">>, <<"assign_statement">>,
                    <<"condition_statement">>}
    BY <1>18, Rule_exec_statement
  <2>2. chosen = IF Begins(a) THEN <<StatementOf(a)>> ELSE <<"complain">>
    BY <1>18 DEF Chosen, a, b, x, chosen
  <2>3. \A s : <<s>> # <<>> /\ <<s>>[1] = s /\ \A t : <<s>> = <<t>> => s = t
    OBVIOUS
  <2>4. CASE ~Begins(a)
    <3>1. \A q \in Rules[x] : Refutes(q, a, b)
      BY <2>1, <2>3, <2>4, FirstNames DEF Refutes, Stops, Firsts, Begins, IsName
    <3> QED BY <3>1, <2>2, <2>4, <1>7
  <2>5. CASE Begins(a)
    <3>1. /\ a = "read" => StatementOf(a) = "read_statement"
          /\ a = "write" => StatementOf(a) = "write_statement"
          /\ a = "if" => StatementOf(a) = "condition_statement"
          /\ a \in Names => StatementOf(a) = "assign_statement"
          /\ a \in {"read", "write", "if"} \cup Names
      BY <2>5, <1>10, <1>11 DEF StatementOf, Begins, IsName
    <3>2. chosen \in Rules[x] /\ chosen = <<StatementOf(a)>>
      BY <3>1, <2>1, <2>2, <2>5
    <3>3. ASSUME NEW q \in Rules[x], q # chosen PROVE Refutes(q, a, b)
      BY <3>1, <3>2, <3>3, <2>1, <2>3, <1>10, <1>11, FirstNames DEF Refutes, Stops, Firsts
    <3> QED BY <3>2, <3>3, <1>2, <1>3, <1>4
  <2> QED BY <2>4, <2>5
<1>19. CASE x = "factor"
  <2>1. Rules[x] = {<<"use">>, <<"constant">>, <<"func_call">>}
    BY <1>19, Rule_factor
  <2>2. chosen = IF a = "const" THEN <<"constant">>
                 ELSE IF a = "EOF" THEN <<"overrun">>
                 ELSE IF b = "(" THEN <<"func_call">> ELSE <<"use">>
    BY <1>19 DEF Chosen, a, b, x, chosen
  <2>3. \A s : <<s>> # <<>> /\ <<s>>[1] = s /\ \A t : <<s>> = <<t>> => s = t
    OBVIOUS
  <2>4. CASE a = "const"
    <3>1. Refutes(<<"use">>, a, b) /\ Refutes(<<"func_call">>, a, b)
      BY <2>3, <2>4, <1>10, <1>11, FirstNames DEF Refutes, Stops, Firsts
    <3>2. S(<<"use">>) = {} /\ S(<<"func_call">>) = {}
      BY <3>1, <2>1, <1>4
    <3> QED BY <3>2, <2>1, <2>2, <2>4, <1>2, <1>3
  <2>5. CASE a = "EOF"
    <3>1. /\ Refutes(<<"use">>, a, b) /\ Refutes(<<"func_call">>, a, b)
          /\ Refutes(<<"constant">>, a, b)
      BY <2>3, <2>5, <1>10, <1>11, FirstNames DEF Refutes, Stops, Firsts
    <3>2. \A q \in Rules[x] : Refutes(q, a, b)
      BY <3>1, <2>1
    <3> QED BY <3>2, <2>2, <2>5, <1>7
  <2>6. CASE a \notin {"const", "EOF"}
    <3>1. S(<<"constant">>) = {}
      <4>1. Refutes(<<"constant">>, a, b)
        BY <2>3, <2>6, FirstNames DEF Refutes, Stops, Firsts
      <4> QED BY <4>1, <2>1, <1>4
    <3>2. CASE b = "("
      <4> DEFINE g == <<"use">> \o Tail(f)
      <4>1. Good(g) /\ g[1] = "use" /\ Tail(g) = Tail(f)
        <5>1. Good(g) /\ g[1] = "use"
          BY <2>1, <2>3, <1>6
        <5>2. <<"use">> \in Seq(Words) /\ <<"use">> # <<>> /\ Tail(<<"use">>) = <<>>
          BY WordsAre
        <5>3. Tail(f) \in Seq(Words)
          BY <1>8 DEF Good
        <5>4. Tail(g) = Tail(<<"use">>) \o Tail(f)
          BY <5>2, <5>3, FrontOfWords
        <5> QED BY <5>1, <5>2, <5>4, <1>8
      <4>2. f[2] = "itemA"
        BY <1>8, <1>12, <1>19 DEF Goes
      <4>3. Stops(f[2], b)
        BY <4>2, <3>2, FirstNames DEF Stops, Firsts
      <4>4. \A k : Read(Tail(f), k, b) = {}
        BY <4>3, <1>8, <1>9, StopsRead
      <4>5. Seen(g, K, a, b) = {}
        BY <4>1, <4>4, <2>6, <1>7a, RuleNames
      <4>6. S(<<"use">>) = {}
        BY <4>5 DEF S
      <4> QED BY <4>6, <3>1, <3>2, <2>1, <2>2, <2>6, <1>2, <1>3
    <3>3. CASE b # "("
      <4> DEFINE g == <<"func_call">> \o Tail(f)
                 r == <<"identifier", "(", "math_expression", ")">>
      <4>1. Good(g) /\ g[1] = "func_call"
        BY <2>1, <2>3, <1>6
      <4>2. \A q \in Rules[g[1]] : q = r
        BY <4>1, Rule_func_call
      <4>3. Refutes(r, a, b)
        <5>1. r # <<>> /\ Len(r) > 1 /\ r[1] = "identifier" /\ r[2] = "("
          OBVIOUS
        <5> QED BY <5>1, <3>3, <2>6, <1>11, RuleNames DEF Refutes, Stops
      <4>4. Seen(g, K, a, b) = {}
        BY <4>1, <4>2, <4>3, <1>9, RuleNames, AllDie
      <4>5. S(<<"func_call">>) = {}
        BY <4>4 DEF S
      <4> QED BY <4>5, <3>1, <3>3, <2>1, <2>2, <2>6, <1>2, <1>3
    <3> QED BY <3>2, <3>3
  <2> QED BY <2>4, <2>5, <2>6
<1> QED BY <1>12, <1>13, <1>14, <1>15, <1>16, <1>17, <1>18, <1>19, ChosenNames DEF x

-----------------------------------------------------------------------------
(* The invariant: as long as nothing is wrong, what the grammar wants is   *)
(* what the procedures have still to do, read on by the two tokens that    *)
(* the parser sees.                                                        *)

TwoSeen == /\ current \in Tokens /\ now_more_one \in Tokens
           /\ current = "EOF" => now_more_one = "EOF"
Sound(f) == /\ f \in Seq(Words) /\ Good(f) /\ IsFlat(calls, f)
            /\ wanted = Seen(f, table, current, now_more_one)
Clean == TwoSeen /\ calls \in Seq(Seq(Items) \ {<<>>}) /\ \E f : Sound(f)
ParserInv ==
    /\ errors # "none" \/ verdict = "crashed" => wanted = {}
    /\ verdict = "parsing" /\ errors = "none" => Clean
    /\ verdict = "finished" /\ errors = "none" => IsProgram

\* The procedures that do not look before they go on.
LEMMA BodyDomain ==
    DOMAIN Body =
       {"branch_procedure", "declare_statement_table", "var_declare", "func_declare",
        "func_body", "exec_statement_table", "read_statement", "write_statement",
        "assign_statement", "condition_statement", "condition_expression",
        "relation_operator", "math_expression", "item", "constant", "func_call"}
  BY DEF Body

\* What each of them does.
LEMMA Body_branch_procedure ==
    Body["branch_procedure"] =
      <<"begin", "declare_statement_table", "semi", "exec_statement_table", "end">>
  BY DEF Body

LEMMA Body_declare_statement_table ==
    Body["declare_statement_table"] =
      <<"declare_statement", "declare_statement_tableA">>
  BY DEF Body

LEMMA Body_var_declare ==
    Body["var_declare"] =
      <<"integer", "define">>
  BY DEF Body

LEMMA Body_func_declare ==
    Body["func_declare"] =
      <<"integer", "function", "define", "(", "define", ")", "semi", "func_body">>
  BY DEF Body

LEMMA Body_func_body ==
    Body["func_body"] =
      <<"begin", "declare_statement_table", "semi", "exec_statement_table", "end">>
  BY DEF Body

LEMMA Body_exec_statement_table ==
    Body["exec_statement_table"] =
      <<"exec_statement", "exec_statement_tableA">>
  BY DEF Body

LEMMA Body_read_statement ==
    Body["read_statement"] =
      <<"read", "(", "use", ")">>
  BY DEF Body

LEMMA Body_write_statement ==
    Body["write_statement"] =
      <<"write", "(", "use", ")", "semicolon">>
  BY DEF Body

LEMMA Body_assign_statement ==
    Body["assign_statement"] =
      <<"use", ":=", "math_expression">>
  BY DEF Body

LEMMA Body_condition_statement ==
    Body["condition_statement"] =
      <<"if", "condition_expression", "then", "exec_statement", "else", "exec_statement">>
  BY DEF Body

LEMMA Body_condition_expression ==
    Body["condition_expression"] =
      <<"math_expression", "relation_operator", "math_expression">>
  BY DEF Body

LEMMA Body_relation_operator ==
    Body["relation_operator"] =
      <<"relop">>
  BY DEF Body

LEMMA Body_math_expression ==
    Body["math_expression"] =
      <<"item", "math_expressionA">>
  BY DEF Body

LEMMA Body_item ==
    Body["item"] =
      <<"factor", "itemA">>
  BY DEF Body

LEMMA Body_constant ==
    Body["constant"] =
      <<"const">>
  BY DEF Body

LEMMA Body_func_call ==
    Body["func_call"] =
      <<"identifier", "(", "math_expression", ")">>
  BY DEF Body

\* They do what the only rule of theirs says.
LEMMA BodyRules ==
    ASSUME NEW x \in DOMAIN Body
    PROVE  Rules[x] = {Body[x]} /\ x \in DOMAIN Rules
<1>1. x \in DOMAIN Rules
  BY BodyDomain, RuleNames
<1>2. CASE x = "branch_procedure"
  BY <1>2, <1>1, Rule_branch_procedure, Body_branch_procedure
<1>3. CASE x = "declare_statement_table"
  BY <1>3, <1>1, Rule_declare_statement_table, Body_declare_statement_table
<1>4. CASE x = "var_declare"
  BY <1>4, <1>1, Rule_var_declare, Body_var_declare
<1>5. CASE x = "func_declare"
  BY <1>5, <1>1, Rule_func_declare, Body_func_declare
<1>6. CASE x = "func_body"
  BY <1>6, <1>1, Rule_func_body, Body_func_body
<1>7. CASE x = "exec_statement_table"
  BY <1>7, <1>1, Rule_exec_statement_table, Body_exec_statement_table
<1>8. CASE x = "read_statement"
  BY <1>8, <1>1, Rule_read_statement, Body_read_statement
<1>9. CASE x = "write_statement"
  BY <1>9, <1>1, Rule_write_statement, Body_write_statement
<1>10. CASE x = "assign_statement"
  BY <1>10, <1>1, Rule_assign_statement, Body_assign_statement
<1>11. CASE x = "condition_statement"
  BY <1>11, <1>1, Rule_condition_statement, Body_condition_statement
<1>12. CASE x = "condition_expression"
  BY <1>12, <1>1, Rule_condition_expression, Body_condition_expression
<1>13. CASE x = "relation_operator"
  BY <1>13, <1>1, Rule_relation_operator, Body_relation_operator
<1>14. CASE x = "math_expression"
  BY <1>14, <1>1, Rule_math_expression, Body_math_expression
<1>15. CASE x = "item"
  BY <1>15, <1>1, Rule_item, Body_item
<1>16. CASE x = "constant"
  BY <1>16, <1>1, Rule_constant, Body_constant
<1>17. CASE x = "func_call"
  BY <1>17, <1>1, Rule_func_call, Body_func_call
<1> QED BY BodyDomain, <1>1, <1>2, <1>3, <1>4, <1>5, <1>6, <1>7, <1>8,
          <1>9, <1>10, <1>11, <1>12, <1>13, <1>14, <1>15, <1>16, <1>17

\* When no procedure is active, the end of the text is wanted.
LEMMA AtEnd ==
    ASSUME NEW f, IsFlat(<<>>, f)
    PROVE  f = <<"EOF">>
<1>1. PICK s \in [1..(Len(<<>>) + 1) -> Seq(Words)] : s[1] = f /\ s[Len(<<>>) + 1] = <<"EOF">>
  BY DEF IsFlat
<1>2. Len(<<>>) + 1 = 1
  OBVIOUS
<1> QED BY <1>1, <1>2

\* What is to be done next, and what is left behind it.
LEMMA InFront ==
    ASSUME Clean, calls # <<>>
    PROVE  \E f : /\ Sound(f) /\ f # <<>> /\ f[1] = doing /\ doing \in Items /\ f[1] # "EOF"
                  /\ Good(Tail(f)) /\ Tail(f) \in Seq(Words)
                  /\ Rest \in Seq(Seq(Items) \ {<<>>}) /\ IsFlat(Rest, Tail(f))
<1>1. PICK f : Sound(f)
  BY DEF Clean
<1>2. /\ f # <<>> /\ f[1] = doing /\ Tail(f) \in Seq(Words) /\ doing \in Items
      /\ Rest \in Seq(Seq(Items) \ {<<>>}) /\ IsFlat(Rest, Tail(f))
  BY <1>1, FlatRest DEF Clean, Sound, Rest, doing
<1>3. f[1] # "EOF"
  BY <1>2, ItemsAre
<1>4. Good(Tail(f))
  BY <1>1, <1>3, GoodTail DEF Sound
<1> QED BY <1>1, <1>2, <1>3, <1>4

\* The token that is looked for is read.
LEMMA Advanced ==
    ASSUME TwoSeen, NEW f, Sound(f), NEW K, Read(f, table, current) = One(Tail(f), K),
           current # "EOF", Advance
    PROVE  TwoSeen' /\ wanted' = Seen(Tail(f), K, current', now_more_one')
<1>1. PICK t \in IF now_more_one = "EOF" THEN {"EOF"} ELSE {t \in Tokens : MayFollow(t)} :
         /\ ahead' = <<now_more_one, t>>
         /\ wanted' = IF now_more_one = "EOF" THEN wanted ELSE After(wanted, t)
  BY DEF Advance
<1>2. current' = now_more_one /\ now_more_one' = t
  BY <1>1 DEF current, now_more_one
<1>3. t \in Tokens /\ (now_more_one = "EOF" => t = "EOF")
  BY <1>1 DEF Tokens
<1>4. TwoSeen'
  BY <1>2, <1>3 DEF TwoSeen
<1>5. wanted = Read(Tail(f), K, now_more_one)
  BY DEF Sound, Seen, Read
<1>6. wanted' = Seen(Tail(f), K, now_more_one, t)
  BY <1>1, <1>3, <1>5 DEF Seen
<1> QED BY <1>2, <1>4, <1>6

\* What is wrong stays wrong.
LEMMA NothingAdvanced ==
    ASSUME wanted = {}, Advance \/ Stay
    PROVE  wanted' = {}
<1>1. CASE Advance
  <2>1. PICK t : wanted' = IF now_more_one = "EOF" THEN wanted ELSE After(wanted, t)
    BY <1>1 DEF Advance
  <2> QED BY <2>1, AfterNothing
<1>2. CASE Stay
  BY <1>2 DEF Stay
<1> QED BY <1>1, <1>2

\* Nothing can be wanted that the parser does not find.
LEMMA Refuted ==
    ASSUME ParserInv, Parsing,
           errors = "none" => \E f : Sound(f) /\ Seen(f, table, current, now_more_one) = {}
    PROVE  wanted = {}
  BY DEF ParserInv, Sound

\* An item that the current token refutes: nothing was wanted.
LEMMA RefutedItem ==
    ASSUME ParserInv, Parsing,
           \/ doing \in Literals /\ current # doing
           \/ doing \in {"use", "define", "identifier"} /\ ~IsName(current)
           \/ doing \in {"complain", "overrun"}
           \/ doing = "semicolon" /\ current # "semi"
           \/ doing = "use" /\ ~Defined(current)
    PROVE  wanted = {}
<1> SUFFICES ASSUME errors = "none"
             PROVE  \E f : Sound(f) /\ Seen(f, table, current, now_more_one) = {}
  BY Refuted
<1>1. Clean /\ calls # <<>>
  BY DEF ParserInv, Parsing
<1>2. PICK f : Sound(f) /\ f # <<>> /\ f[1] = doing /\ doing \in Items
  BY <1>1, InFront
<1>3. Good(f) /\ current \in Tokens /\ now_more_one \in Tokens
  BY <1>1, <1>2 DEF Sound, Clean, TwoSeen
<1>4. CASE \/ doing \in Literals /\ current # doing
           \/ doing \in {"use", "define", "identifier"} /\ ~IsName(current)
           \/ doing \in {"complain", "overrun"}
  <2>1. doing \in Literals => doing \notin DOMAIN Rules
    BY RuleNames DEF Literals, Keywords, Signs
  <2>2. Read(f, table, current) = {}
    BY <1>2, <1>3, <1>4, <2>1, NotAhead DEF IsName
  <2> QED BY <1>2, <2>2, ReadOrDead
<1>5. CASE doing = "use" /\ ~Defined(current)
  <2>1. "use" \in Words \ DOMAIN Rules
    BY WordsAre, RuleNames
  <2>2. ~Matches(f[1], current, table)
    BY <1>2, <1>3, <1>5, <2>1, MatchesPlain DEF Defined
  <2>3. Read(f, table, current) = {}
    BY <1>2, <1>5, <2>1, <2>2, ReadTerminal
  <2> QED BY <1>2, <2>3, ReadOrDead
<1>6. CASE doing = "semicolon" /\ current # "semi"
  <2>1. \A q \in Rules[f[1]] : q = <<"semi">>
    BY <1>2, <1>6, Rule_semicolon
  <2>2. Refutes(<<"semi">>, current, now_more_one)
    <3>1. <<"semi">> # <<>> /\ <<"semi">>[1] = "semi" /\ "semi" \in Literals
      BY DEF Literals, Signs
    <3> QED BY <1>6, <3>1 DEF Refutes, Stops
  <2>3. f[1] \in DOMAIN Rules
    BY <1>2, <1>6, RuleNames
  <2>4. Seen(f, table, current, now_more_one) = {}
    BY <1>3, <2>1, <2>2, <2>3, AllDie
  <2> QED BY <1>2, <2>4
<1> QED BY <1>4, <1>5, <1>6

\* What is left when an item has been read, once and for all.
LEMMA ReadOn ==
    ASSUME Clean, calls # <<>>, current # "EOF", Advance, Continue, NEW K, table' = K,
           \A f : f # <<>> /\ f[1] = doing /\ doing \in Items /\ Good(f) =>
                     Read(f, table, current) = One(Tail(f), K)
    PROVE  Clean'
<1>1. PICK f : /\ Sound(f) /\ f # <<>> /\ f[1] = doing /\ doing \in Items /\ f[1] # "EOF"
               /\ Good(Tail(f)) /\ Tail(f) \in Seq(Words)
               /\ Rest \in Seq(Seq(Items) \ {<<>>}) /\ IsFlat(Rest, Tail(f))
  BY InFront
<1>2. Read(f, table, current) = One(Tail(f), K)
  BY <1>1 DEF Sound
<1>3. TwoSeen' /\ wanted' = Seen(Tail(f), K, current', now_more_one')
  BY <1>1, <1>2, Advanced DEF Clean
<1>4. calls' = Rest
  BY DEF Continue
<1>5. Sound(Tail(f))'
  BY <1>1, <1>3, <1>4 DEF Sound
<1> QED BY <1>1, <1>3, <1>4, <1>5 DEF Clean

\* An item that the current token matches is read, and declares nothing.
LEMMA PlainRead ==
    ASSUME TwoSeen, current # "EOF", NEW f, f # <<>>, Good(f), f[1] \in Items,
           \/ f[1] \in Literals /\ f[1] = current
           \/ f[1] = "identifier" /\ IsName(current)
           \/ f[1] = "use" /\ IsName(current) /\ Defined(current)
    PROVE  Read(f, table, current) = One(Tail(f), table)
<1>1. f[1] \in Words \ DOMAIN Rules
  BY WordsAre, RuleNames DEF Literals, Keywords, Signs
<1>2. Matches(f[1], current, table)
  BY <1>1, MatchesPlain DEF TwoSeen, IsName, Defined
<1>3. f[1] # "define"
  BY DEF Literals, Keywords, Signs
<1> QED BY <1>1, <1>2, <1>3, ReadTerminal

\* Where there is an identifier, it is found and not the end of the text.
LEMMA NamesEnd ==
    /\ IsName(current) => current # "EOF" /\ Found = current /\ Found # None
    /\ ~IsName(current) => Found = None
<1>1. "EOF" \in Words
  BY WordsAre
<1> QED BY <1>1, NamesApart DEF IsName, Found

\* A call, or a choice, changes nothing that is wanted.
LEMMA Invoked ==
    ASSUME Clean, Invoke
    PROVE  Clean'
<1> DEFINE p == IF doing \in DOMAIN Body THEN Body[doing] ELSE Chosen[doing]
<1>1. calls # <<>> /\ doing \in DOMAIN Body \cup DOMAIN Chosen
      /\ calls' = Active(p) \o Rest /\ Stay /\ table' = table
  BY DEF Invoke, Parsing
<1>2. PICK f : /\ Sound(f) /\ f # <<>> /\ f[1] = doing /\ doing \in Items /\ f[1] # "EOF"
               /\ Good(Tail(f)) /\ Tail(f) \in Seq(Words)
               /\ Rest \in Seq(Seq(Items) \ {<<>>}) /\ IsFlat(Rest, Tail(f))
  BY <1>1, InFront
<1>3. Good(f) /\ current \in Tokens /\ now_more_one \in Tokens
  BY <1>2 DEF Sound, Clean, TwoSeen
<1>4. /\ Belongs(p, f[1])
      /\ Seen(f, table, current, now_more_one) = Seen(p \o Tail(f), table, current, now_more_one)
  <2>1. CASE doing \in DOMAIN Body
    <3>1. p = Body[doing] /\ Rules[f[1]] = {p} /\ f[1] \in DOMAIN Rules
      BY <1>2, <2>1, BodyRules
    <3> HIDE DEF p
    <3>2. Belongs(p, f[1])
      BY <3>1, RulesBelong
    <3> QED BY <1>3, <3>1, <3>2, OneLives
  <2>2. CASE doing \notin DOMAIN Body
    BY <1>1, <1>2, <1>3, <2>2, ChoosesRight
  <2> QED BY <2>1, <2>2
<1> HIDE DEF p
<1>5. p \in Seq(Items)
  BY <1>4 DEF Belongs
<1>6. Good(p \o Tail(f))
  BY <1>2, <1>3, <1>4, GoodReplace
<1>7. /\ p \o Tail(f) \in Seq(Words) /\ calls' \in Seq(Seq(Items) \ {<<>>})
      /\ IsFlat(calls', p \o Tail(f))
  BY <1>1, <1>2, <1>5, FlatCall
<1>8. ahead' = ahead /\ wanted' = wanted
  BY <1>1 DEF Stay
<1>9. current' = current /\ now_more_one' = now_more_one
  BY <1>8 DEF current, now_more_one
<1>10. TwoSeen'
  BY <1>9 DEF Clean, TwoSeen
<1>0. PICK q : q = p \o Tail(f)
  OBVIOUS
<1>11. wanted' = Seen(q, table', current', now_more_one')
  <2>1. wanted = Seen(f, table, current, now_more_one)
    BY <1>2 DEF Sound
  <2> QED BY <1>0, <1>1, <1>4, <1>8, <1>9, <2>1
<1>12. q \in Seq(Words) /\ Good(q) /\ IsFlat(calls', q)
  BY <1>0, <1>6, <1>7
<1>13. Sound(q)'
  BY <1>11, <1>12 DEF Sound
<1> QED BY <1>7, <1>10, <1>13 DEF Clean

\* Before the first step.
LEMMA InitInv == ParseInit => ParserInv
<1> SUFFICES ASSUME ParseInit PROVE ParserInv
  OBVIOUS
<1> DEFINE f == <<"branch_procedure", "EOF">>
<1>1. f \in Seq(Words) /\ Len(f) = 2 /\ f[1] = "branch_procedure" /\ f[2] = "EOF"
  BY WordsAre
<1>2. Good(f)
  <2>1. \A i \in 1..(Len(f) - 1) : i = 1
    BY <1>1
  <2> HIDE DEF f
  <2> QED BY <1>1, <2>1 DEF Good, Goes, Decls, Execs, Stats, Exprs, Prods
<1>3. IsFlat(calls, f) /\ calls \in Seq(Seq(Items) \ {<<>>})
  <2> DEFINE p == <<"branch_procedure">>
  <2>1. calls = <<p>>
    BY DEF ParseInit
  <2>2. p \in Seq(Items) /\ p # <<>> /\ p \in Seq(Words)
    BY ItemsAre, WordsAre
  <2>3. f = p \o <<"EOF">> /\ <<"EOF">> \in Seq(Words)
    BY WordsAre
  <2> HIDE DEF p, f
  <2>4. calls \in Seq(Seq(Items) \ {<<>>}) /\ Len(calls) = 1 /\ calls[1] = p
    BY <2>1, <2>2
  <2> DEFINE s == [k \in 1..2 |-> IF k = 1 THEN f ELSE <<"EOF">>]
  <2>5. s \in [1..2 -> Seq(Words)] /\ s[1] = f /\ s[2] = <<"EOF">>
    BY <1>1, <2>3
  <2> HIDE DEF s
  <2>6. ASSUME NEW k \in 1..Len(calls) PROVE s[k] = calls[k] \o s[k + 1]
    <3>1. k = 1 /\ k + 1 = 2
      BY <2>4
    <3> QED BY <2>3, <2>4, <2>5, <3>1
  <2>7. Len(calls) + 1 = 2
    BY <2>4
  <2> QED BY <2>4, <2>5, <2>6, <2>7 DEF IsFlat
<1>4. TwoSeen
  BY DEF ParseInit, TwoTokens, TwoSeen, current, now_more_one
<1>5. Program = One(f, table)
  BY DEF Program, One, ParseInit
<1>6. wanted = Seen(f, table, current, now_more_one)
  BY <1>5 DEF ParseInit, Seen, Read, current, now_more_one
<1> HIDE DEF f
<1>7. Clean
  BY <1>1, <1>2, <1>3, <1>4, <1>6 DEF Clean, Sound
<1> QED BY <1>7 DEF ParserInv, ParseInit

\* Each step.
LEMMA StepInv ==
    ASSUME ParserInv, ParseNext
    PROVE  ParserInv'
<1>1. CASE Invoke
  <2>1. UNCHANGED <<errors, verdict, wanted>> /\ verdict = "parsing"
    BY <1>1 DEF Invoke, Stay, Parsing
  <2>2. errors = "none" => Clean'
    BY <1>1, <2>1, Invoked DEF ParserInv
  <2> QED BY <2>1, <2>2 DEF ParserInv
<1>2. CASE Accept
  <2>1. Parsing /\ UNCHANGED <<errors, verdict, table>> /\ Advance /\ Continue
        /\ doing \in Tokens /\ doing = current
    BY <1>2 DEF Accept, Continue
  <2>2. errors # "none" => wanted' = {}
    BY <2>1, NothingAdvanced DEF ParserInv
  <2>3. ASSUME errors = "none" PROVE Clean'
    <3>1. Clean /\ calls # <<>>
      BY <2>1, <2>3 DEF ParserInv, Parsing
    <3>2. doing \in Items
      BY <3>1, InFront
    <3>3. doing \in Literals /\ current # "EOF"
      BY <2>1, <3>2, NamesApart, ItemsAre DEF Tokens, Literals, Items
    <3>4. \A f : f # <<>> /\ f[1] = doing /\ doing \in Items /\ Good(f) =>
                     Read(f, table, current) = One(Tail(f), table)
      BY <2>1, <3>1, <3>3, PlainRead DEF Clean
    <3> QED BY <2>1, <3>1, <3>3, <3>4, ReadOn
  <2> QED BY <2>1, <2>2, <2>3 DEF ParserInv, Parsing
<1>3. CASE Miss
  <2>1. Parsing /\ Stay /\ errors' = "written" /\ verdict' = verdict
        /\ doing \in Tokens /\ doing # current
    BY <1>3 DEF Miss, Complain, Leave
  <2>2. wanted = {}
    <3> SUFFICES ASSUME errors = "none" PROVE wanted = {}
      BY DEF ParserInv
    <3>1. doing \in Items
      BY <2>1, InFront DEF ParserInv, Parsing
    <3>2. doing \in Literals
      BY <2>1, <3>1, NamesApart DEF Tokens, Literals, Items
    <3> QED BY <2>1, <3>2, RefutedItem
  <2> QED BY <2>1, <2>2 DEF ParserInv, Parsing, Stay
<1>4. CASE NoChoice
  <2>1. Parsing /\ doing = "complain" /\ Stay /\ errors' = "written" /\ verdict' = verdict
    BY <1>4 DEF NoChoice, Complain, Continue, Doing
  <2>2. wanted = {}
    BY <2>1, RefutedItem
  <2> QED BY <2>1, <2>2 DEF ParserInv, Parsing, Stay
<1>5. CASE Callee
  <2>1. Parsing /\ doing = "identifier" /\ Identifier /\ Continue /\ UNCHANGED <<table, verdict>>
    BY <1>5 DEF Callee, Continue, Doing
  <2>2. CASE IsName(current)
    <3>1. Advance /\ errors' = errors /\ current # "EOF"
      BY <2>1, <2>2, NamesEnd DEF Identifier
    <3>2. errors # "none" => wanted' = {}
      BY <3>1, NothingAdvanced DEF ParserInv
    <3>3. ASSUME errors = "none" PROVE Clean'
      <4>1. Clean /\ calls # <<>>
        BY <2>1, <3>3 DEF ParserInv, Parsing
      <4>2. \A f : f # <<>> /\ f[1] = doing /\ doing \in Items /\ Good(f) =>
                     Read(f, table, current) = One(Tail(f), table)
        BY <2>1, <2>2, <3>1, <4>1, PlainRead DEF Clean
      <4> QED BY <2>1, <3>1, <4>1, <4>2, ReadOn
    <3> QED BY <2>1, <3>1, <3>2, <3>3 DEF ParserInv, Parsing
  <2>3. CASE ~IsName(current)
    <3>1. Stay /\ errors' = "written"
      BY <2>1, <2>3 DEF Identifier, Complain
    <3>2. wanted = {}
      BY <2>1, <2>3, RefutedItem
    <3> QED BY <2>1, <3>1, <3>2 DEF ParserInv, Parsing, Stay
  <2> QED BY <2>2, <2>3
<1>6. CASE Define
  <2>1. Parsing /\ doing = "define" /\ Identifier /\ Continue /\ UNCHANGED verdict
        /\ table' = table \cup {Found}
    BY <1>6 DEF Define, Continue, Doing
  <2>2. CASE IsName(current)
    <3>1. Advance /\ errors' = errors /\ current # "EOF" /\ Found = current
      BY <2>1, <2>2, NamesEnd DEF Identifier
    <3>2. errors # "none" => wanted' = {}
      BY <3>1, NothingAdvanced DEF ParserInv
    <3>3. ASSUME errors = "none" PROVE Clean'
      <4>1. Clean /\ calls # <<>>
        BY <2>1, <3>3 DEF ParserInv, Parsing
      <4>2. \A f : f # <<>> /\ f[1] = doing /\ doing \in Items /\ Good(f) =>
                     Read(f, table, current) = One(Tail(f), table \cup {current})
        <5>1. "define" \in Words \ DOMAIN Rules
          BY WordsAre, RuleNames
        <5>2. Matches("define", current, table)
          BY <2>2 DEF Matches, IsName
        <5> QED BY <2>1, <5>1, <5>2, ReadTerminal
      <4> QED BY <2>1, <3>1, <4>1, <4>2, ReadOn
    <3> QED BY <2>1, <3>1, <3>2, <3>3 DEF ParserInv, Parsing
  <2>3. CASE ~IsName(current)
    <3>1. Stay /\ errors' = "written"
      BY <2>1, <2>3 DEF Identifier, Complain
    <3>2. wanted = {}
      BY <2>1, <2>3, RefutedItem
    <3> QED BY <2>1, <3>1, <3>2 DEF ParserInv, Parsing, Stay
  <2> QED BY <2>2, <2>3
<1>7. CASE Use
  <2>1. Parsing /\ doing = "use" /\ Continue /\ UNCHANGED <<table, verdict>>
        /\ (Advance \/ Stay) /\ (IsName(current) => Advance)
        /\ errors' = IF IsName(current) /\ Defined(current) THEN errors ELSE "written"
    BY <1>7 DEF Use, Continue, Doing
  <2>2. CASE IsName(current) /\ Defined(current)
    <3>1. Advance /\ errors' = errors /\ current # "EOF"
      BY <2>1, <2>2, NamesEnd
    <3>2. errors # "none" => wanted' = {}
      BY <3>1, NothingAdvanced DEF ParserInv
    <3>3. ASSUME errors = "none" PROVE Clean'
      <4>1. Clean /\ calls # <<>>
        BY <2>1, <3>3 DEF ParserInv, Parsing
      <4>2. \A f : f # <<>> /\ f[1] = doing /\ doing \in Items /\ Good(f) =>
                     Read(f, table, current) = One(Tail(f), table)
        BY <2>1, <2>2, <3>1, <4>1, PlainRead DEF Clean
      <4> QED BY <2>1, <3>1, <4>1, <4>2, ReadOn
    <3> QED BY <2>1, <3>1, <3>2, <3>3 DEF ParserInv, Parsing
  <2>3. CASE ~(IsName(current) /\ Defined(current))
    <3>1. wanted = {}
      BY <2>1, <2>3, RefutedItem
    <3>2. wanted' = {}
      BY <2>1, <3>1, NothingAdvanced
    <3> QED BY <2>1, <2>3, <3>2 DEF ParserInv, Parsing
  <2> QED BY <2>2, <2>3
<1>8. CASE UseNone
  <2>1. Parsing /\ doing = "use" /\ ~IsName(current) /\ wanted' = wanted /\ verdict' = "crashed"
    BY <1>8, NamesEnd DEF UseNone, Crash, Doing
  <2>2. wanted = {}
    BY <2>1, RefutedItem
  <2> QED BY <2>1, <2>2 DEF ParserInv
<1>9. CASE WriteEnds
  <2>1. Parsing /\ doing = "semicolon" /\ current = "semi" /\ Advance /\ Continue
        /\ UNCHANGED <<table, errors, verdict>>
    BY <1>9 DEF WriteEnds, Continue, Doing
  <2>2. errors # "none" => wanted' = {}
    BY <2>1, NothingAdvanced DEF ParserInv
  <2>3. ASSUME errors = "none" PROVE Clean'
    <3>1. Clean /\ calls # <<>>
      BY <2>1, <2>3 DEF ParserInv, Parsing
    <3>2. ASSUME NEW f, f # <<>>, f[1] = doing, doing \in Items, Good(f)
          PROVE  Read(f, table, current) = One(Tail(f), table)
      <4> DEFINE p == <<"semi">>
      <4>1. f[1] = "semicolon" /\ f[1] \in DOMAIN Rules /\ f[1] # "EOF"
        BY <2>1, <3>2, RuleNames
      <4>2. Rules[f[1]] = {p} /\ p # <<>> /\ p[1] = "semi" /\ p \in Seq(Words) /\ Tail(p) = <<>>
        BY <4>1, Rule_semicolon, WordsAre
      <4> HIDE DEF p
      <4>3. Ready5(f) /\ ~Settled(f)
        BY <3>2, <4>1, AllReady DEF Settled
      <4>4. \A y : y \in Read(f, table, current) <=> \E g \in Leads(f) : y \in Read(g, table, current)
        BY <4>3, SeenByRules
      <4>5. Leads(f) = {p \o Tail(f)}
        BY <4>2 DEF Leads
      <4>6. Read(f, table, current) = Read(p \o Tail(f), table, current)
        BY <4>4, <4>5
      <4>7. Tail(f) \in Seq(Words)
        BY <3>2, <4>1, GoodTail
      <4>8. p \o Tail(f) # <<>> /\ (p \o Tail(f))[1] = "semi" /\ Tail(p \o Tail(f)) = Tail(f)
        <5>1. p \o Tail(f) # <<>> /\ (p \o Tail(f))[1] = "semi"
              /\ Tail(p \o Tail(f)) = Tail(p) \o Tail(f)
          BY <4>2, <4>7, FrontOfWords
        <5>2. \A g \in Seq(Words) : <<>> \o g = g
          BY ConcatEmptySeq
        <5>3. Tail(p) \o Tail(f) = Tail(f)
          BY <4>2, <4>7, <5>2
        <5> QED BY <5>1, <5>3
      <4>9. "semi" \in Words \ DOMAIN Rules /\ "semi" \in Literals
        BY WordsAre, RuleNames DEF Literals, Signs
      <4>10. Matches("semi", current, table)
        BY <2>1 DEF Matches
      <4>11. Read(p \o Tail(f), table, current) = One(Tail(f), table)
        BY <4>8, <4>9, <4>10, ReadTerminal
      <4> QED BY <4>6, <4>11
    <3> QED BY <2>1, <3>1, <3>2, ReadOn
  <2> QED BY <2>1, <2>2, <2>3 DEF ParserInv, Parsing
<1>10. CASE WriteCrashes
  <2>1. Parsing /\ doing = "semicolon" /\ current # "semi" /\ wanted' = wanted /\ verdict' = "crashed"
    BY <1>10 DEF WriteCrashes, Crash, Doing
  <2>2. wanted = {}
    BY <2>1, RefutedItem
  <2> QED BY <2>1, <2>2 DEF ParserInv
<1>11. CASE Overrun
  <2>1. Parsing /\ doing = "overrun" /\ wanted' = wanted /\ verdict' = "crashed"
    BY <1>11 DEF Overrun, Crash, Doing
  <2>2. wanted = {}
    BY <2>1, RefutedItem
  <2> QED BY <2>1, <2>2 DEF ParserInv
<1>12. CASE EndFiles
  <2>1. verdict = "parsing" /\ calls = <<>> /\ verdict' = "finished" /\ wanted' = wanted
        /\ errors' = IF errors = "none" /\ current # "EOF" THEN "late" ELSE errors
    BY <1>12 DEF EndFiles
  <2>2. CASE errors # "none"
    BY <2>1, <2>2 DEF ParserInv
  <2>3. CASE errors = "none"
    <3>1. PICK f : Sound(f) /\ TwoSeen
      BY <2>1, <2>3 DEF ParserInv, Clean
    <3>2. f = <<"EOF">>
      BY <2>1, <3>1, AtEnd DEF Sound
    <3>3. f # <<>> /\ f[1] = "EOF" /\ Tail(f) = <<>> /\ Good(f)
      BY <3>1, <3>2 DEF Sound
    <3>4. "EOF" \in Words \ DOMAIN Rules /\ "EOF" \in Literals
      BY WordsAre, RuleNames DEF Literals
    <3>5. wanted = Seen(f, table, current, now_more_one)
      BY <3>1 DEF Sound
    <3>6. CASE current = "EOF"
      <4>1. Matches(f[1], current, table)
        BY <3>3, <3>6 DEF Matches
      <4>2. Read(f, table, current) = One(<<>>, table)
        BY <3>3, <3>4, <4>1, ReadTerminal
      <4>3. wanted = One(<<>>, table)
        BY <3>5, <3>6, <4>2 DEF Seen
      <4>4. wanted' = {[todo |-> <<>>, known |-> table]}
        BY <2>1, <4>3 DEF One
      <4>5. IsProgram'
        BY <4>4 DEF IsProgram, Complete
      <4> QED BY <2>1, <2>3, <3>6, <4>5 DEF ParserInv
    <3>7. CASE current # "EOF"
      <4>1. Read(f, table, current) = {}
        BY <3>1, <3>3, <3>4, <3>7, NotAhead DEF TwoSeen
      <4>2. wanted = {}
        BY <3>5, <4>1, ReadOrDead
      <4> QED BY <2>1, <2>3, <3>7, <4>2 DEF ParserInv
    <3> QED BY <3>6, <3>7
  <2> QED BY <2>2, <2>3
<1> QED BY <1>1, <1>2, <1>3, <1>4, <1>5, <1>6, <1>7, <1>8, <1>9, <1>10, <1>11, <1>12 DEF ParseNext

\* JudgesPrograms: the parser finishes without a report on programs of the grammar only, in
\* which every variable is declared before it is used; it reports something, or falls over,
\* only when no such program begins with the tokens it has seen.  At any nesting.
THEOREM ParserJudges == ParseSpec => []JudgesPrograms
<1>1. ParseInit => ParserInv
  BY InitInv
<1>2. ParserInv /\ [ParseNext]_psvars => ParserInv'
  <2> SUFFICES ASSUME ParserInv, [ParseNext]_psvars PROVE ParserInv'
    OBVIOUS
  <2>1. CASE ParseNext
    BY <2>1, StepInv
  <2>2. CASE UNCHANGED psvars
    BY <2>2 DEF psvars, ParserInv, Clean, Sound, TwoSeen, current, now_more_one, IsProgram, Complete
  <2> QED BY <2>1, <2>2
<1>3. ParserInv => JudgesPrograms
  BY DEF ParserInv, JudgesPrograms
<1> QED BY <1>1, <1>2, <1>3, PTL DEF ParseSpec
=============================================================================
