----------------------------- MODULE SourcesProofs -----------------------------
(***************************************************************************)
(* Theorems about Sources, for every sources.list, every directory and     *)
(* files of any length.                                                    *)
(***************************************************************************)
EXTENDS Sources, LeastNumbers, SequenceTheorems, FiniteSetTheorems, TLAPS

-----------------------------------------------------------------------------
(* Lines                                                                   *)

LEMMA LineKinds ==
    ASSUME NEW lines \in Seq(StanzaLines), NEW i \in 1 .. Len(lines)
    PROVE  /\ lines[i].kind \in {"blank", "comment", "field", "more"}
           /\ lines[i].kind = "field" => lines[i].name \in Fields
           /\ lines[i].kind \in {"field", "more"} => lines[i].words \in Seq(Words)
           /\ WordsOf(lines[i]) \in Seq(Words)
  <1>1. lines[i] \in StanzaLines
    OBVIOUS
  <1>2. <<>> \in Seq(Words)
    OBVIOUS
  <1>3. PICK line \in StanzaLines : line = lines[i]
    BY <1>1
  <1>4. CASE line \in [kind : {"blank", "comment"}]
    BY <1>2, <1>3, <1>4 DEF WordsOf
  <1>5. CASE line \in [kind : {"field"}, name : Fields, words : Seq(Words)]
    BY <1>3, <1>5 DEF WordsOf
  <1>6. CASE line \in [kind : {"more"}, words : Seq(Words)]
    BY <1>3, <1>6 DEF WordsOf
  <1> QED BY <1>3, <1>4, <1>5, <1>6 DEF StanzaLines

(* The lines left after n of them.                                         *)
LEMMA LinesLeft ==
    ASSUME NEW S, NEW lines \in Seq(S), NEW n \in 0 .. Len(lines)
    PROVE  LET left == SubSeq(lines, n + 1, Len(lines))
           IN  /\ left = <<>> <=> n = Len(lines)
               /\ n < Len(lines) =>
                     /\ Head(left) = lines[n + 1]
                     /\ Tail(left) = SubSeq(lines, (n + 1) + 1, Len(lines))
  <1> DEFINE left == SubSeq(lines, n + 1, Len(lines))
  <1>1. left \in Seq(S) /\ Len(left) = Len(lines) - n
        /\ \A i \in 1 .. Len(left) : left[i] = lines[n + i]
    OBVIOUS
  <1>2. left = <<>> <=> n = Len(lines)
    <2>1. Len(lines) \in Nat /\ n \in Nat
      OBVIOUS
    <2> HIDE DEF left
    <2>2. left = <<>> <=> Len(left) = 0
      BY <1>1, EmptySeq
    <2> QED BY <1>1, <2>1, <2>2
  <1>3. ASSUME n < Len(lines)
        PROVE  /\ Head(left) = lines[n + 1]
               /\ Tail(left) = SubSeq(lines, (n + 1) + 1, Len(lines))
    <2> DEFINE rest == SubSeq(lines, (n + 1) + 1, Len(lines))
    <2>1. rest \in Seq(S) /\ Len(rest) = Len(lines) - (n + 1)
          /\ \A i \in 1 .. Len(rest) : rest[i] = lines[n + 1 + i]
      BY <1>3
    <2>2. left # <<>>
      BY <1>2, <1>3
    <2>3. Head(left) = left[1] /\ Tail(left) \in Seq(S) /\ Len(Tail(left)) = Len(left) - 1
          /\ \A i \in 1 .. Len(Tail(left)) : Tail(left)[i] = left[i + 1]
      BY <1>1, <2>2, HeadTailProperties
    <2> HIDE DEF left, rest
    <2>4. Len(Tail(left)) = Len(rest) /\ \A i \in 1 .. Len(rest) : Tail(left)[i] = rest[i]
      BY <1>1, <1>3, <2>1, <2>3
    <2>5. Tail(left) = rest
      BY <2>1, <2>3, <2>4, SeqEqual
    <2> QED BY <1>1, <1>3, <2>3, <2>5 DEF rest
  <1> QED BY <1>2, <1>3

-----------------------------------------------------------------------------
(* Values of fields                                                        *)

LEMMA GreatestIs ==
    ASSUME NEW T \in SUBSET Nat, NEW m \in T, \A k \in T : k <= m
    PROVE  Greatest(T) = m
  <1> DEFINE IsLast(n) == \A k \in T : k <= n
  <1>1. IsLast(m) /\ \A n \in T : IsLast(n) => n = m
    OBVIOUS
  <1> HIDE DEF IsLast
  <1>2. (CHOOSE n \in T : IsLast(n)) = m
    BY <1>1
  <1> QED BY <1>2, Zenon DEF Greatest, IsLast

LEMMA GatheredExists ==
    ASSUME NEW lines, Len(lines) \in Nat, NEW first \in 1 .. Len(lines)
    PROVE  Gathered(lines, first) =
              [k \in first .. Len(lines) |->
                  IF k = first THEN WordsOf(lines[k])
                  ELSE Gathered(lines, first)[k - 1] \o WordsOf(lines[k])]
  <1> DEFINE n == Len(lines) - first
             Goes(g, m) ==
                g = [k \in first .. first + m |->
                        IF k = first THEN WordsOf(lines[k]) ELSE g[k - 1] \o WordsOf(lines[k])]
             T == {m \in 0 .. n : \E g : Goes(g, m)}
  <1>0. n \in Nat
    OBVIOUS
  <1>1. 0 \in T
    <2>1. first .. first + 0 = {first}
      OBVIOUS
    <2>2. Goes([k \in first .. first + 0 |-> WordsOf(lines[first])], 0)
      BY <2>1
    <2> HIDE DEF Goes
    <2> QED BY <1>0, <2>2
  <1>2. ASSUME NEW m \in 0 .. n - 1, m \in T
        PROVE  m + 1 \in T
    <2>1. PICK g : Goes(g, m)
      BY <1>2
    <2> DEFINE new == first + m + 1
               h == [k \in first .. first + (m + 1) |->
                        IF k = new THEN g[first + m] \o WordsOf(lines[new]) ELSE g[k]]
    <2>2. \A k \in first .. first + m : h[k] = g[k]
      OBVIOUS
    <2>3. \A k \in first .. first + (m + 1) :
             h[k] = IF k = first THEN WordsOf(lines[k]) ELSE h[k - 1] \o WordsOf(lines[k])
      <3> SUFFICES ASSUME NEW k \in first .. first + (m + 1)
                   PROVE  h[k] = IF k = first THEN WordsOf(lines[k])
                                 ELSE h[k - 1] \o WordsOf(lines[k])
        OBVIOUS
      <3>1. CASE k = new
        <4>1. first \in Nat /\ m \in Nat
          BY <1>0
        <4>2. k - 1 = first + m /\ k # first /\ first + m \in first .. first + m
          BY <3>1, <4>1
        <4>3. h[k - 1] = g[first + m]
          BY <2>2, <4>2
        <4>4. h[k] = g[first + m] \o WordsOf(lines[new])
          BY <3>1
        <4> QED BY <3>1, <4>2, <4>3, <4>4
      <3>2. CASE k \in first .. first + m
        <4>1. g[k] = IF k = first THEN WordsOf(lines[k]) ELSE g[k - 1] \o WordsOf(lines[k])
          BY <2>1, <3>2
        <4>2. h[k] = g[k] /\ (k # first => h[k - 1] = g[k - 1])
          BY <2>2, <3>2
        <4> QED BY <4>1, <4>2
      <3> QED BY <3>1, <3>2
    <2>4. Goes(h, m + 1)
      <3> DEFINE r == [k \in first .. first + (m + 1) |->
                          IF k = first THEN WordsOf(lines[k])
                          ELSE h[k - 1] \o WordsOf(lines[k])]
      <3>1. \A k \in first .. first + (m + 1) : h[k] = r[k]
        BY <2>3
      <3>2. h = r
        BY <3>1
      <3> QED BY <3>2
    <2>5. m + 1 \in 0 .. n
      BY <1>0
    <2> HIDE DEF Goes, h, n
    <2> QED BY <2>4, <2>5
  <1>3. n \in T
    <2> HIDE DEF T
    <2>1. T \in SUBSET (0 .. n)
      BY DEF T
    <2>2. T = 0 .. n
      <3> HIDE DEF n
      <3> QED BY <1>0, <1>1, <1>2, <2>1, UpTo
    <2> QED BY <1>0, <2>2
  <1>4. PICK g : Goes(g, n)
    BY <1>3
  <1>5. first + n = Len(lines)
    OBVIOUS
  <1>6. g = [k \in first .. Len(lines) |->
                IF k = first THEN WordsOf(lines[k]) ELSE g[k - 1] \o WordsOf(lines[k])]
    BY <1>4, <1>5
  <1> QED BY <1>6 DEF Gathered

LEMMA GatheredByLine ==
    ASSUME NEW lines, Len(lines) \in Nat, NEW first \in 1 .. Len(lines)
    PROVE  /\ Gathered(lines, first)[first] = WordsOf(lines[first])
           /\ \A k \in first + 1 .. Len(lines) :
                 Gathered(lines, first)[k] = Gathered(lines, first)[k - 1] \o WordsOf(lines[k])
  <1> DEFINE g == Gathered(lines, first)
  <1>1. g = [k \in first .. Len(lines) |->
                IF k = first THEN WordsOf(lines[k]) ELSE g[k - 1] \o WordsOf(lines[k])]
    BY GatheredExists
  <1> HIDE DEF g
  <1>2. first \in first .. Len(lines)
        /\ \A k \in first + 1 .. Len(lines) : k \in first .. Len(lines) /\ k # first
    OBVIOUS
  <1>3. g[first] = WordsOf(lines[first])
    BY <1>1, <1>2
  <1>4. \A k \in first + 1 .. Len(lines) : g[k] = g[k - 1] \o WordsOf(lines[k])
    BY <1>1, <1>2
  <1> QED BY <1>3, <1>4 DEF g

LEMMA GatheredType ==
    ASSUME NEW lines \in Seq(StanzaLines), NEW first \in 1 .. Len(lines),
           NEW k \in first .. Len(lines)
    PROVE  Gathered(lines, first)[k] \in Seq(Words)
  <1> DEFINE n == Len(lines) - first
             T == {m \in 0 .. n : Gathered(lines, first)[first + m] \in Seq(Words)}
  <1>1. n \in Nat /\ T \in SUBSET (0 .. n)
    OBVIOUS
  <1>2. Len(lines) \in Nat
    OBVIOUS
  <1>3. 0 \in T
    <2>1. first + 0 = first
      OBVIOUS
    <2>2. Gathered(lines, first)[first] \in Seq(Words)
      BY <1>2, GatheredByLine, LineKinds
    <2> QED BY <1>1, <2>1, <2>2
  <1>4. ASSUME NEW m \in 0 .. n - 1, m \in T PROVE m + 1 \in T
    <2>1. first + (m + 1) \in first + 1 .. Len(lines) /\ (first + (m + 1)) - 1 = first + m
          /\ first + (m + 1) \in 1 .. Len(lines) /\ m + 1 \in 0 .. n
      BY <1>1
    <2>2. Gathered(lines, first)[first + (m + 1)] =
             Gathered(lines, first)[first + m] \o WordsOf(lines[first + (m + 1)])
      BY <1>2, <2>1, GatheredByLine
    <2>3. /\ Gathered(lines, first)[first + m] \in Seq(Words)
          /\ WordsOf(lines[first + (m + 1)]) \in Seq(Words)
      BY <1>4, <2>1, LineKinds
    <2>4. Gathered(lines, first)[first + (m + 1)] \in Seq(Words)
      BY <2>2, <2>3, ConcatProperties
    <2> QED BY <2>1, <2>4
  <1>5. T = 0 .. n
    <2> HIDE DEF T, n
    <2> QED BY <1>1, <1>3, <1>4, UpTo
  <1>6. k - first \in 0 .. n /\ first + (k - first) = k
    OBVIOUS
  <1>7. Gathered(lines, first)[first + (k - first)] \in Seq(Words)
    BY <1>5, <1>6
  <1> QED BY <1>6, <1>7

Starts(lines, s, n, name) ==
    {i \in s .. n : lines[i].kind = "field" /\ lines[i].name = name}

Mine(lines, first, n) ==
    {i \in first .. n :
        \A j \in first + 1 .. i : lines[j].kind \in {"more", "comment"}}

LEMMA ValueAt ==
    ASSUME NEW lines, NEW s \in Nat, NEW n \in Nat, NEW name,
           NEW first \in Starts(lines, s, n, name),
           \A i \in Starts(lines, s, n, name) : i <= first,
           NEW last \in Mine(lines, first, n), \A i \in Mine(lines, first, n) : i <= last
    PROVE  Value(lines, <<s, n>>, name) = Gathered(lines, first)[last]
  <1>1. Starts(lines, s, n, name) \in SUBSET Nat
    BY DEF Starts
  <1>2. Greatest(Starts(lines, s, n, name)) = first
    BY <1>1, GreatestIs
  <1>3. Mine(lines, first, n) \in SUBSET Nat
    BY <1>1 DEF Mine
  <1>4. Greatest(Mine(lines, first, n)) = last
    BY <1>3, GreatestIs
  <1>5. <<s, n>>[1] = s /\ <<s, n>>[2] = n
    OBVIOUS
  <1>6. Value(lines, <<s, n>>, name) =
           IF Starts(lines, s, n, name) = {} THEN <<>>
           ELSE Gathered(lines, Greatest(Starts(lines, s, n, name)))
                   [Greatest(Mine(lines, Greatest(Starts(lines, s, n, name)), n))]
    BY <1>5, Zenon DEF Value, Starts, Mine
  <1> QED BY <1>2, <1>4, <1>6

LEMMA NoValue ==
    ASSUME NEW lines, NEW s, NEW n, NEW name, ~HasField(lines, <<s, n>>, name)
    PROVE  Value(lines, <<s, n>>, name) = <<>>
  <1>1. <<s, n>>[1] = s /\ <<s, n>>[2] = n
    OBVIOUS
  <1>2. Starts(lines, s, n, name) = {}
    BY <1>1 DEF HasField, Starts
  <1>3. Value(lines, <<s, n>>, name) =
           IF Starts(lines, s, n, name) = {} THEN <<>>
           ELSE Gathered(lines, Greatest(Starts(lines, s, n, name)))
                   [Greatest(Mine(lines, Greatest(Starts(lines, s, n, name)), n))]
    BY <1>1, Zenon DEF Value, Starts, Mine
  <1> QED BY <1>2, <1>3

LEMMA ValueFound ==
    ASSUME NEW lines, NEW s \in Nat, NEW n \in Nat, NEW name,
           HasField(lines, <<s, n>>, name)
    PROVE  \E first \in Starts(lines, s, n, name) : \E last \in Mine(lines, first, n) :
              /\ \A i \in Starts(lines, s, n, name) : i <= first
              /\ \A i \in Mine(lines, first, n) : i <= last
  <1>1. Starts(lines, s, n, name) # {} /\ Starts(lines, s, n, name) \in SUBSET (0 .. n)
    <2>1. <<s, n>>[1] = s /\ <<s, n>>[2] = n
      OBVIOUS
    <2> QED BY <2>1 DEF HasField, Starts
  <1>2. PICK first \in Starts(lines, s, n, name) :
           \A i \in Starts(lines, s, n, name) : i <= first
    BY <1>1, GreatestElement
  <1>3. first \in Mine(lines, first, n)
    <2>1. first \in first .. n /\ first + 1 .. first = {}
      BY <1>1
    <2> QED BY <2>1 DEF Mine
  <1>4. Mine(lines, first, n) \in SUBSET (0 .. n)
    BY <1>1 DEF Mine
  <1>5. PICK last \in Mine(lines, first, n) : \A i \in Mine(lines, first, n) : i <= last
    BY <1>3, <1>4, GreatestElement
  <1> QED BY <1>2, <1>5

LEMMA ValueType ==
    ASSUME NEW lines \in Seq(StanzaLines), NEW n \in 0 .. Len(lines),
           NEW s \in 1 .. n + 1, NEW name
    PROVE  Value(lines, <<s, n>>, name) \in Seq(Words)
  <1>1. CASE ~HasField(lines, <<s, n>>, name)
    <2>1. <<>> \in Seq(Words)
      OBVIOUS
    <2> QED BY <1>1, <2>1, NoValue
  <1>2. CASE HasField(lines, <<s, n>>, name)
    <2>0. s \in Nat /\ n \in Nat
      OBVIOUS
    <2>1. PICK first \in Starts(lines, s, n, name) : \E last \in Mine(lines, first, n) :
              /\ \A i \in Starts(lines, s, n, name) : i <= first
              /\ \A i \in Mine(lines, first, n) : i <= last
      BY <1>2, <2>0, ValueFound
    <2>2. PICK last \in Mine(lines, first, n) : \A i \in Mine(lines, first, n) : i <= last
      BY <2>1
    <2>3. Value(lines, <<s, n>>, name) = Gathered(lines, first)[last]
      BY <2>0, <2>1, <2>2, ValueAt
    <2>4. first \in 1 .. Len(lines) /\ last \in first .. Len(lines)
      BY DEF Starts, Mine
    <2> QED BY <2>3, <2>4, GatheredType
  <1> QED BY <1>1, <1>2

(* Nothing was read of the stanza.                                         *)
LEMMA EmptyStretch ==
    ASSUME NEW lines, NEW n \in Nat, NEW name
    PROVE  /\ ~HasField(lines, <<n + 1, n>>, name)
           /\ Value(lines, <<n + 1, n>>, name) = <<>>
           /\ ~Continues(lines, n + 1, n, name)
  <1>1. <<n + 1, n>>[1] = n + 1 /\ <<n + 1, n>>[2] = n /\ n + 1 .. n = {}
    OBVIOUS
  <1>2. ~HasField(lines, <<n + 1, n>>, name) /\ ~Continues(lines, n + 1, n, name)
    BY <1>1 DEF HasField, Continues
  <1> QED BY <1>2, NoValue

(* One more line that is a field.                                          *)
LEMMA FieldRead ==
    ASSUME NEW lines \in Seq(StanzaLines), NEW n \in 0 .. Len(lines) - 1,
           NEW s \in 1 .. n + 1, NEW name, lines[n + 1].kind = "field"
    PROVE  /\ HasField(lines, <<s, n + 1>>, name)
                 <=> HasField(lines, <<s, n>>, name) \/ lines[n + 1].name = name
           /\ Value(lines, <<s, n + 1>>, name) =
                 IF lines[n + 1].name = name THEN lines[n + 1].words
                 ELSE Value(lines, <<s, n>>, name)
           /\ Continues(lines, s, n + 1, name) <=> lines[n + 1].name = name
  <1>0. /\ s \in Nat /\ n \in Nat /\ n + 1 \in Nat /\ n + 1 \in 1 .. Len(lines)
        /\ Len(lines) \in Nat /\ n + 1 \in s .. n + 1
        /\ \A i : i \in s .. n + 1 <=> i \in s .. n \/ i = n + 1
    OBVIOUS
  <1>1. HasField(lines, <<s, n + 1>>, name)
           <=> HasField(lines, <<s, n>>, name) \/ lines[n + 1].name = name
    <2>1. /\ <<s, n>>[1] = s /\ <<s, n>>[2] = n
          /\ <<s, n + 1>>[1] = s /\ <<s, n + 1>>[2] = n + 1
      OBVIOUS
    <2> QED BY <1>0, <2>1 DEF HasField
  <1>2. Continues(lines, s, n + 1, name) <=> lines[n + 1].name = name
    <2>1. (n + 1) + 1 .. n + 1 = {}
      OBVIOUS
    <2>2. \A i \in s .. n : n + 1 \in i + 1 .. n + 1
      OBVIOUS
    <2> QED BY <1>0, <2>1, <2>2 DEF Continues
  <1>3. CASE lines[n + 1].name = name
    <2>1. n + 1 \in Starts(lines, s, n + 1, name)
          /\ \A i \in Starts(lines, s, n + 1, name) : i <= n + 1
      BY <1>0, <1>3 DEF Starts
    <2>2. Mine(lines, n + 1, n + 1) = {n + 1}
      <3>1. n + 1 .. n + 1 = {n + 1} /\ (n + 1) + 1 .. n + 1 = {}
        OBVIOUS
      <3> QED BY <3>1 DEF Mine
    <2>3. n + 1 \in Mine(lines, n + 1, n + 1) /\ \A i \in Mine(lines, n + 1, n + 1) : i <= n + 1
      BY <1>0, <2>2
    <2> DEFINE m == n + 1
    <2>m. Value(lines, <<s, m>>, name) = Gathered(lines, m)[m]
      <3> HIDE DEF m
      <3>1. /\ m \in Nat /\ m \in Starts(lines, s, m, name)
            /\ \A i \in Starts(lines, s, m, name) : i <= m
            /\ m \in Mine(lines, m, m) /\ \A i \in Mine(lines, m, m) : i <= m
        BY <1>0, <2>1, <2>3 DEF m
      <3> QED BY <1>0, <3>1, ValueAt
    <2>4. Gathered(lines, n + 1)[n + 1] = lines[n + 1].words
      BY <1>0, GatheredByLine DEF WordsOf
    <2> QED BY <1>1, <1>2, <1>3, <2>m, <2>4
  <1>4. CASE lines[n + 1].name # name
    <2>1. Starts(lines, s, n + 1, name) = Starts(lines, s, n, name)
      BY <1>0, <1>4 DEF Starts
    <2>2. CASE ~HasField(lines, <<s, n>>, name)
      BY <1>1, <1>2, <1>4, <2>2, NoValue
    <2>3. CASE HasField(lines, <<s, n>>, name)
      <3>1. PICK first \in Starts(lines, s, n, name) : \E last \in Mine(lines, first, n) :
              /\ \A i \in Starts(lines, s, n, name) : i <= first
              /\ \A i \in Mine(lines, first, n) : i <= last
        BY <1>0, <2>3, ValueFound
      <3>2. PICK last \in Mine(lines, first, n) : \A i \in Mine(lines, first, n) : i <= last
        BY <3>1
      <3>3. Mine(lines, first, n + 1) = Mine(lines, first, n)
        <4>1. first \in s .. n
          BY DEF Starts
        <4>2. n + 1 \in first + 1 .. n + 1
          BY <4>1
        <4>3. n + 1 \notin Mine(lines, first, n + 1)
          BY <4>2 DEF Mine
        <4>4. \A i : i \in first .. n + 1 <=> i \in first .. n \/ i = n + 1
          BY <4>1
        <4> QED BY <4>3, <4>4 DEF Mine
      <3>4. Value(lines, <<s, n>>, name) = Gathered(lines, first)[last]
        BY <1>0, <3>1, <3>2, ValueAt
      <3>5. Value(lines, <<s, n + 1>>, name) = Gathered(lines, first)[last]
        BY <1>0, <2>1, <3>1, <3>2, <3>3, ValueAt
      <3> QED BY <1>1, <1>2, <1>4, <3>4, <3>5
    <2> QED BY <2>2, <2>3
  <1> QED BY <1>3, <1>4

(* One more line that is indented or a comment.                            *)
LEMMA MoreRead ==
    ASSUME NEW lines \in Seq(StanzaLines), NEW n \in 0 .. Len(lines) - 1,
           NEW s \in 1 .. n + 1, NEW name, lines[n + 1].kind \in {"more", "comment"}
    PROVE  /\ HasField(lines, <<s, n + 1>>, name) <=> HasField(lines, <<s, n>>, name)
           /\ Value(lines, <<s, n + 1>>, name) =
                 IF Continues(lines, s, n, name)
                 THEN Value(lines, <<s, n>>, name) \o WordsOf(lines[n + 1])
                 ELSE Value(lines, <<s, n>>, name)
           /\ Continues(lines, s, n + 1, name) <=> Continues(lines, s, n, name)
  <1>0. /\ s \in Nat /\ n \in Nat /\ n + 1 \in Nat /\ n + 1 \in 1 .. Len(lines)
        /\ Len(lines) \in Nat /\ n + 1 \in s .. n + 1
        /\ \A i : i \in s .. n + 1 <=> i \in s .. n \/ i = n + 1
    OBVIOUS
  <1>1. HasField(lines, <<s, n + 1>>, name) <=> HasField(lines, <<s, n>>, name)
    <2>1. /\ <<s, n>>[1] = s /\ <<s, n>>[2] = n
          /\ <<s, n + 1>>[1] = s /\ <<s, n + 1>>[2] = n + 1
      OBVIOUS
    <2> QED BY <1>0, <2>1 DEF HasField
  <1>2. Continues(lines, s, n + 1, name) <=> Continues(lines, s, n, name)
    <2>1. \A i \in s .. n : \A j : j \in i + 1 .. n + 1 <=> j \in i + 1 .. n \/ j = n + 1
      OBVIOUS
    <2> QED BY <1>0, <2>1 DEF Continues
  <1>3. Starts(lines, s, n + 1, name) = Starts(lines, s, n, name)
    BY <1>0 DEF Starts
  <1>4. CASE ~HasField(lines, <<s, n>>, name)
    <2>1. ~Continues(lines, s, n, name)
      <3>1. <<s, n>>[1] = s /\ <<s, n>>[2] = n
        OBVIOUS
      <3> QED BY <1>4, <3>1 DEF HasField, Continues
    <2> QED BY <1>1, <1>2, <1>4, <2>1, NoValue
  <1>5. CASE HasField(lines, <<s, n>>, name)
    <2>1. PICK first \in Starts(lines, s, n, name) : \E last \in Mine(lines, first, n) :
            /\ \A i \in Starts(lines, s, n, name) : i <= first
            /\ \A i \in Mine(lines, first, n) : i <= last
      BY <1>0, <1>5, ValueFound
    <2>2. PICK last \in Mine(lines, first, n) : \A i \in Mine(lines, first, n) : i <= last
      BY <2>1
    <2>3. Value(lines, <<s, n>>, name) = Gathered(lines, first)[last]
      BY <1>0, <2>1, <2>2, ValueAt
    <2>4. /\ first \in s .. n /\ first \in 1 .. Len(lines) /\ first \in Nat
          /\ \A i : i \in first .. n + 1 <=> i \in first .. n \/ i = n + 1
          /\ \A i : i \in first + 1 .. n + 1 <=> i \in first + 1 .. n \/ i = n + 1
      BY DEF Starts
    <2>5. CASE Continues(lines, s, n, name)
      <3>1. PICK i \in s .. n :
               /\ lines[i].kind = "field" /\ lines[i].name = name
               /\ \A j \in i + 1 .. n : lines[j].kind \in {"more", "comment"}
        BY <2>5 DEF Continues
      <3>2. i = first
        <4>1. i \in Starts(lines, s, n, name)
          BY <3>1 DEF Starts
        <4>2. i <= first /\ lines[first].kind = "field"
          BY <2>1, <4>1 DEF Starts
        <4>3. ~(i < first)
          <5> SUFFICES ASSUME i < first PROVE FALSE
            OBVIOUS
          <5>1. first \in i + 1 .. n
            BY <2>4
          <5> QED BY <3>1, <4>2, <5>1
        <4> QED BY <2>4, <4>2, <4>3
      <3>3. \A j \in first + 1 .. n + 1 : lines[j].kind \in {"more", "comment"}
        BY <2>4, <3>1, <3>2
      <3>4. n \in Mine(lines, first, n)
        <4>1. n \in first .. n
          BY <2>4
        <4> QED BY <2>4, <3>3, <4>1 DEF Mine
      <3>5. last = n
        <4>1. n <= last /\ last \in first .. n
          BY <2>2, <3>4 DEF Mine
        <4> QED BY <1>0, <2>4, <4>1
      <3>6. n + 1 \in Mine(lines, first, n + 1) /\ \A j \in Mine(lines, first, n + 1) : j <= n + 1
        <4>1. n + 1 \in first .. n + 1
          BY <2>4
        <4> QED BY <2>4, <3>3, <4>1 DEF Mine
      <3>7. Value(lines, <<s, n + 1>>, name) = Gathered(lines, first)[n + 1]
        BY <1>0, <1>3, <2>1, <3>6, ValueAt
      <3>8. n + 1 \in first + 1 .. Len(lines) /\ (n + 1) - 1 = n
        BY <2>4
      <3>9. Gathered(lines, first)[n + 1] = Gathered(lines, first)[n] \o WordsOf(lines[n + 1])
        BY <1>0, <2>4, <3>8, GatheredByLine
      <3> QED BY <1>1, <1>2, <2>3, <2>5, <3>5, <3>7, <3>9
    <2>6. CASE ~Continues(lines, s, n, name)
      <3>1. PICK j \in first + 1 .. n : lines[j].kind \notin {"more", "comment"}
        BY <2>6 DEF Continues, Starts
      <3>2. n + 1 \notin Mine(lines, first, n + 1)
        BY <2>4, <3>1 DEF Mine
      <3>3. Mine(lines, first, n + 1) = Mine(lines, first, n)
        BY <2>4, <3>2 DEF Mine
      <3>4. Value(lines, <<s, n + 1>>, name) = Gathered(lines, first)[last]
        BY <1>0, <1>3, <2>1, <2>2, <3>3, ValueAt
      <3> QED BY <1>1, <1>2, <2>3, <2>6, <3>4
    <2> QED BY <2>5, <2>6
  <1> QED BY <1>4, <1>5

-----------------------------------------------------------------------------
(* Facts                                                                   *)

(* Noted, of any facts.                                                    *)
FactsAre(sources, met, third, twice) ==
    /\ IsFiniteSet(sources)
    /\ met = {s.words : s \in sources}
    /\ ToSet(third) = {words \in met : ThirdParty(words)}
    /\ ToSet(twice) \subseteq met
    /\ \A words \in met :
          Cardinality({s \in sources : s.words = words}) =
             1 + Cardinality({i \in DOMAIN twice : twice[i] = words})

LEMMA NotedIs == \A sources : Noted(sources) <=> FactsAre(sources, seen, thirdParty, duplicates)
  BY DEF Noted, FactsAre

LEMMA Appended ==
    ASSUME NEW S, NEW q \in Seq(S), NEW word \in S
    PROVE  /\ ToSet(Append(q, word)) = ToSet(q) \cup {word}
           /\ Append(q, word) \in Seq(S)
  <1>1. /\ Append(q, word) \in Seq(S) /\ Len(Append(q, word)) = Len(q) + 1
        /\ Append(q, word)[Len(q) + 1] = word
        /\ \A i \in 1 .. Len(q) : Append(q, word)[i] = q[i]
    OBVIOUS
  <1>2. 1 .. Len(q) + 1 = (1 .. Len(q)) \cup {Len(q) + 1}
    OBVIOUS
  <1>3. DOMAIN q = 1 .. Len(q) /\ DOMAIN Append(q, word) = 1 .. Len(q) + 1
    BY <1>1
  <1> QED BY <1>1, <1>2, <1>3 DEF ToSet

Indices(q, v) == {i \in DOMAIN q : q[i] = v}

Naming(sources, words) == {s \in sources : s.words = words}

LEMMA AppendedCount ==
    ASSUME NEW S, NEW q \in Seq(S), NEW word \in S, NEW v
    PROVE  /\ Cardinality(Indices(q, v)) \in Nat
           /\ Cardinality(Indices(Append(q, word), v)) =
                 IF v = word THEN Cardinality(Indices(q, v)) + 1
                 ELSE Cardinality(Indices(q, v))
  <1> DEFINE r == Append(q, word)
             old == {i \in 1 .. Len(q) : q[i] = v}
  <1>1. /\ r \in Seq(S) /\ Len(r) = Len(q) + 1 /\ r[Len(q) + 1] = word
        /\ \A i \in 1 .. Len(q) : r[i] = q[i]
    OBVIOUS
  <1>2. /\ \A i : i \in 1 .. Len(q) + 1 <=> i \in 1 .. Len(q) \/ i = Len(q) + 1
        /\ Len(q) + 1 \notin 1 .. Len(q) /\ Len(q) \in Nat
    OBVIOUS
  <1>3. DOMAIN q = 1 .. Len(q) /\ DOMAIN r = 1 .. Len(q) + 1
    BY <1>1
  <1> HIDE DEF r
  <1>4. IsFiniteSet(1 .. Len(q))
    BY <1>2, FS_Interval
  <1>5. IsFiniteSet(old)
    BY <1>4, FS_Subset
  <1>6. Cardinality(old) \in Nat
    BY <1>5, FS_CardinalityType
  <1>7. Indices(q, v) = old
    BY <1>3 DEF Indices
  <1>8. CASE v = word
    <2>1. Indices(r, v) = old \cup {Len(q) + 1}
      BY <1>1, <1>2, <1>3, <1>8 DEF Indices
    <2>2. Len(q) + 1 \notin old
      BY <1>2
    <2>3. Cardinality(old \cup {Len(q) + 1}) = Cardinality(old) + 1
      <3> HIDE DEF old
      <3> QED BY <1>5, <2>2, FS_AddElement
    <2> QED BY <1>6, <1>7, <1>8, <2>1, <2>3 DEF r
  <1>9. CASE v # word
    <2>1. Indices(r, v) = old
      BY <1>1, <1>2, <1>3, <1>9 DEF Indices
    <2> QED BY <1>6, <1>7, <1>9, <2>1 DEF r
  <1> QED BY <1>8, <1>9

(* One more enabled source.                                                *)
LEMMA OneMore ==
    ASSUME NEW S, NEW met \in SUBSET Seq(Words), NEW third \in Seq(Seq(Words)),
           NEW twice \in Seq(Seq(Words)), FactsAre(S, met, third, twice),
           NEW e, e \notin S, e.words \in Seq(Words)
    PROVE  FactsAre(S \cup {e}, met \cup {e.words},
                    IF ThirdParty(e.words) THEN Append(third, e.words) ELSE third,
                    IF e.words \in met THEN Append(twice, e.words) ELSE twice)
  <1> DEFINE more == met \cup {e.words}
             t == IF ThirdParty(e.words) THEN Append(third, e.words) ELSE third
             d == IF e.words \in met THEN Append(twice, e.words) ELSE twice
  <1>1. IsFiniteSet(S) /\ IsFiniteSet(S \cup {e})
    BY FS_AddElement DEF FactsAre
  <1>2. more = {s.words : s \in S \cup {e}}
    BY DEF FactsAre
  <1>3. ToSet(t) = {words \in more : ThirdParty(words)}
    <2>1. ToSet(Append(third, e.words)) = ToSet(third) \cup {e.words}
      BY Appended
    <2> QED BY <2>1 DEF FactsAre
  <1>4. ToSet(d) \subseteq more
    <2>1. ToSet(Append(twice, e.words)) = ToSet(twice) \cup {e.words}
      BY Appended
    <2> QED BY <2>1 DEF FactsAre
  <1>5. ASSUME NEW words \in more
        PROVE  Cardinality(Naming(S \cup {e}, words)) = 1 + Cardinality(Indices(d, words))
    <2>1. IsFiniteSet(Naming(S, words)) /\ Cardinality(Naming(S, words)) \in Nat
      <3>1. Naming(S, words) \in SUBSET S
        BY DEF Naming
      <3> QED BY <1>1, <3>1, FS_Subset, FS_CardinalityType
    <2>2. words \in met => Cardinality(Naming(S, words)) = 1 + Cardinality(Indices(twice, words))
      BY DEF FactsAre, Naming, Indices
    <2>3. /\ Cardinality(Indices(twice, words)) \in Nat
          /\ Cardinality(Indices(Append(twice, e.words), words)) =
                IF words = e.words THEN Cardinality(Indices(twice, words)) + 1
                ELSE Cardinality(Indices(twice, words))
      BY AppendedCount
    <2>4. CASE words # e.words
      <3>1. Naming(S \cup {e}, words) = Naming(S, words)
        BY <2>4 DEF Naming
      <3>2. words \in met /\ Cardinality(Indices(d, words)) = Cardinality(Indices(twice, words))
        BY <2>3, <2>4
      <3> QED BY <2>2, <3>1, <3>2
    <2>5. CASE words = e.words
      <3>1. Naming(S \cup {e}, words) = Naming(S, words) \cup {e} /\ e \notin Naming(S, words)
        BY <2>5 DEF Naming
      <3>2. Cardinality(Naming(S, words) \cup {e}) = Cardinality(Naming(S, words)) + 1
        BY <2>1, <3>1, FS_AddElement
      <3>a. Cardinality(Naming(S \cup {e}, words)) = Cardinality(Naming(S, words)) + 1
        BY <3>1, <3>2, Zenon
      <3>3. CASE words \in met
        <4>1. Cardinality(Indices(d, words)) = Cardinality(Indices(twice, words)) + 1
          BY <2>3, <2>5, <3>3
        <4> HIDE DEF d
        <4> QED BY <2>1, <2>2, <2>3, <3>a, <3>3, <4>1
      <3>4. CASE words \notin met
        <4>1. Naming(S, words) = {} /\ Indices(d, words) = {}
          <5>1. words \notin ToSet(twice)
            BY <3>4 DEF FactsAre
          <5>2. Indices(d, words) = {}
            BY <2>5, <3>4, <5>1 DEF ToSet, Indices
          <5>3. Naming(S, words) = {}
            BY <3>4 DEF FactsAre, Naming
          <5> QED BY <5>2, <5>3
        <4>2. Cardinality(Naming(S, words)) = 0 /\ Cardinality(Indices(d, words)) = 0
          BY <4>1, FS_EmptySet, Zenon
        <4> HIDE DEF d
        <4> QED BY <3>a, <4>2
      <3> QED BY <3>3, <3>4
    <2> QED BY <2>4, <2>5
  <1> HIDE DEF t, d, more
  <1>6. FactsAre(S \cup {e}, more, t, d)
    BY <1>1, <1>2, <1>3, <1>4, <1>5 DEF FactsAre, Naming, Indices
  <1> QED BY <1>6 DEF t, d, more

(* Enabled or not, a source is noted as it should be.                      *)
LEMMA SourceNoted ==
    ASSUME Types, NEW S, FactsAre(S, seen, thirdParty, duplicates),
           NEW e, e \notin S, e.words \in Seq(Words), NEW off \in BOOLEAN,
           NoteSource(e.words, off)
    PROVE  /\ FactsAre(IF off THEN S ELSE S \cup {e}, seen', thirdParty', duplicates')
           /\ seen' \in SUBSET Seq(Words)
           /\ thirdParty' \in Seq(Seq(Words)) /\ duplicates' \in Seq(Seq(Words))
  <1>1. /\ seen \in SUBSET Seq(Words) /\ thirdParty \in Seq(Seq(Words))
        /\ duplicates \in Seq(Seq(Words))
    BY DEF Types
  <1>2. CASE off
    BY <1>1, <1>2 DEF NoteSource
  <1>3. CASE ~off
    <2>1. /\ seen' = seen \cup {e.words}
          /\ thirdParty' = IF ThirdParty(e.words) THEN Append(thirdParty, e.words) ELSE thirdParty
          /\ duplicates' = IF e.words \in seen THEN Append(duplicates, e.words) ELSE duplicates
      BY <1>3 DEF NoteSource, Classify
    <2>2. FactsAre(S \cup {e}, seen', thirdParty', duplicates')
      BY <1>1, <2>1, OneMore
    <2>3. /\ Append(thirdParty, e.words) \in Seq(Seq(Words))
          /\ Append(duplicates, e.words) \in Seq(Seq(Words))
      BY <1>1, Appended
    <2> QED BY <1>1, <1>3, <2>1, <2>2, <2>3
  <1> QED BY <1>2, <1>3

-----------------------------------------------------------------------------
(* The sources of a file, in the order of its lines                        *)

Before(place, file, s) == {e \in EnabledIn(place, file) : e.at[2] < s}

(* What the stanza of lines s to n declares.                               *)
Declared(place, lines, s, n) ==
    IF HasField(lines, <<s, n>>, "URIs") /\ ~Disabled(lines, <<s, n>>)
    THEN {[at |-> <<place, s>>,
           words |-> Value(lines, <<s, n>>, "URIs") \o Value(lines, <<s, n>>, "Suites")]}
    ELSE {}

LEMMA BoundsArePairs ==
    ASSUME NEW lines, Len(lines) \in Nat, NEW b \in StanzaBounds(lines)
    PROVE  b = <<b[1], b[2]>> /\ b[1] \in 1 .. Len(lines) /\ b[2] \in 1 .. Len(lines)
  BY DEF StanzaBounds

LEMMA WhereEnabled ==
    ASSUME NEW place, NEW file, Len(file.lines) \in Nat, NEW e \in EnabledIn(place, file)
    PROVE  e.at[1] = place /\ e.at[2] \in 1 .. Len(file.lines)
  <1>1. CASE file.format = "list"
    <2>1. PICK i \in 1 .. Len(file.lines) :
             e = [at |-> <<place, i>>, words |-> file.lines[i].words]
      BY <1>1 DEF EnabledIn
    <2>2. e.at = <<place, i>>
      BY <2>1
    <2> QED BY <2>2
  <1>2. CASE file.format # "list"
    <2>1. PICK b \in StanzaBounds(file.lines) :
             e = [at |-> <<place, b[1]>>, words |-> Value(file.lines, b, "URIs")
                                                    \o Value(file.lines, b, "Suites")]
      BY <1>2 DEF EnabledIn
    <2>2. e.at = <<place, b[1]>>
      BY <2>1
    <2> QED BY <2>2, BoundsArePairs
  <1> QED BY <1>1, <1>2

LEMMA BeforeAll ==
    ASSUME NEW place, NEW file, Len(file.lines) \in Nat
    PROVE  /\ Before(place, file, 1) = {}
           /\ Before(place, file, Len(file.lines) + 1) = EnabledIn(place, file)
  <1>1. \A e \in EnabledIn(place, file) : e.at[2] \in 1 .. Len(file.lines)
    BY WhereEnabled
  <1> QED BY <1>1 DEF Before

LEMMA ListLineMore ==
    ASSUME NEW place, NEW file, file.format = "list", NEW n \in 0 .. Len(file.lines) - 1,
           Len(file.lines) \in Nat
    PROVE  Before(place, file, (n + 1) + 1) =
              Before(place, file, n + 1) \cup
              IF file.lines[n + 1].kind = "deb" /\ ~file.lines[n + 1].off
              THEN {[at |-> <<place, n + 1>>, words |-> file.lines[n + 1].words]} ELSE {}
  <1> DEFINE lines == file.lines
             Source(i) == [at |-> <<place, i>>, words |-> lines[i].words]
             On(i) == lines[i].kind = "deb" /\ ~lines[i].off
  <1>1. EnabledIn(place, file) = {Source(i) : i \in {j \in 1 .. Len(lines) : On(j)}}
    BY DEF EnabledIn
  <1>2. \A i : Source(i).at[2] = i
    OBVIOUS
  <1> HIDE DEF Source, On, lines
  <1>3. n + 1 \in 1 .. Len(lines)
    BY DEF lines
  <1>4. \A i \in 1 .. Len(lines) : i < (n + 1) + 1 <=> i < n + 1 \/ i = n + 1
    BY DEF lines
  <1>5. ASSUME NEW e
        PROVE  e \in Before(place, file, (n + 1) + 1)
                  <=> e \in Before(place, file, n + 1) \/ (On(n + 1) /\ e = Source(n + 1))
    <2>1. ASSUME e \in Before(place, file, (n + 1) + 1)
          PROVE  e \in Before(place, file, n + 1) \/ (On(n + 1) /\ e = Source(n + 1))
      <3>1. PICK i \in 1 .. Len(lines) : On(i) /\ e = Source(i)
        BY <1>1, <2>1 DEF Before
      <3>2. i < n + 1 \/ i = n + 1
        BY <1>2, <1>4, <2>1, <3>1 DEF Before
      <3> QED BY <1>2, <2>1, <3>1, <3>2 DEF Before
    <2>2. ASSUME On(n + 1), e = Source(n + 1)
          PROVE  e \in Before(place, file, (n + 1) + 1)
      <3>1. e.at[2] = n + 1 /\ e \in EnabledIn(place, file)
        BY <1>1, <1>2, <1>3, <2>2
      <3>2. n + 1 < (n + 1) + 1
        OBVIOUS
      <3> QED BY <3>1, <3>2 DEF Before
    <2>3. ASSUME e \in Before(place, file, n + 1)
          PROVE  e \in Before(place, file, (n + 1) + 1)
      <3>1. PICK i \in 1 .. Len(lines) : On(i) /\ e = Source(i)
        BY <1>1, <2>3 DEF Before
      <3> QED BY <1>2, <1>4, <2>3, <3>1 DEF Before
    <2> QED BY <2>1, <2>2, <2>3
  <1> QED BY <1>5 DEF On, Source, lines

(* The stretch that ends with line n is the stanza that begins at s.       *)
LEMMA StretchIsStanza ==
    ASSUME NEW lines, Len(lines) \in Nat, NEW n \in 0 .. Len(lines), NEW s,
           Stretch(lines, s, n), n = Len(lines) \/ lines[n + 1].kind = "blank"
    PROVE  /\ s <= n => <<s, n>> \in StanzaBounds(lines)
           /\ \A b \in StanzaBounds(lines) :
                 s <= b[1] /\ b[1] <= n + 1 => b = <<s, n>> /\ s <= n
  <1>0. s \in 1 .. n + 1 /\ n \in Nat
    BY DEF Stretch
  <1>1. ASSUME s <= n PROVE <<s, n>> \in StanzaBounds(lines)
    <2>1. <<s, n>>[1] = s /\ <<s, n>>[2] = n
      OBVIOUS
    <2>2. s \in 1 .. Len(lines) /\ n \in 1 .. Len(lines)
      BY <1>0, <1>1
    <2> QED BY <1>0, <1>1, <2>1, <2>2 DEF StanzaBounds, Stretch
  <1>2. ASSUME NEW b \in StanzaBounds(lines), s <= b[1], b[1] <= n + 1
        PROVE  b = <<s, n>> /\ s <= n
    <2>1. /\ b = <<b[1], b[2]>> /\ b[1] \in 1 .. Len(lines) /\ b[2] \in 1 .. Len(lines)
          /\ b[1] <= b[2]
          /\ \A i \in b[1] .. b[2] : lines[i].kind # "blank"
          /\ b[1] > 1 => lines[b[1] - 1].kind = "blank"
          /\ b[2] < Len(lines) => lines[b[2] + 1].kind = "blank"
      BY BoundsArePairs DEF StanzaBounds
    <2>2. b[1] = s
      <3> SUFFICES ASSUME b[1] # s PROVE FALSE
        OBVIOUS
      <3>1. b[1] - 1 \in s .. n /\ b[1] > 1
        BY <1>0, <1>2, <2>1
      <3> QED BY <2>1, <3>1 DEF Stretch
    <2>3. s <= n
      <3> SUFFICES ASSUME ~(s <= n) PROVE FALSE
        OBVIOUS
      <3>1. s = n + 1
        BY <1>0
      <3>2. n # Len(lines)
        BY <2>1, <2>2, <3>1
      <3>3. n + 1 \in b[1] .. b[2]
        BY <2>1, <2>2, <3>1
      <3> QED BY <2>1, <3>2, <3>3
    <2>4. ~(b[2] < n)
      <3> SUFFICES ASSUME b[2] < n PROVE FALSE
        OBVIOUS
      <3>1. b[2] + 1 \in s .. n /\ b[2] < Len(lines)
        BY <1>0, <2>1, <2>2
      <3> QED BY <2>1, <3>1 DEF Stretch
    <2>5. ~(b[2] > n)
      <3> SUFFICES ASSUME b[2] > n PROVE FALSE
        OBVIOUS
      <3>1. n + 1 \in b[1] .. b[2] /\ n # Len(lines)
        BY <1>0, <2>1, <2>2, <2>3
      <3> QED BY <2>1, <3>1
    <2> QED BY <1>0, <2>1, <2>2, <2>3, <2>4, <2>5
  <1> QED BY <1>1, <1>2

LEMMA StanzaMore ==
    ASSUME NEW place, NEW file, file.format # "list", Len(file.lines) \in Nat,
           NEW n \in 0 .. Len(file.lines), NEW s,
           Stretch(file.lines, s, n), n = Len(file.lines) \/ file.lines[n + 1].kind = "blank"
    PROVE  Before(place, file, (n + 1) + 1) =
              Before(place, file, s) \cup Declared(place, file.lines, s, n)
  <1> DEFINE lines == file.lines
             Source(b) == [at |-> <<place, b[1]>>, words |-> Value(file.lines, b, "URIs")
                                                    \o Value(file.lines, b, "Suites")]
             On(b) == HasField(lines, b, "URIs") /\ ~Disabled(lines, b)
  <1>0. s \in 1 .. n + 1 /\ n \in Nat
    BY DEF Stretch
  <1>1. EnabledIn(place, file) = {Source(b) : b \in {c \in StanzaBounds(lines) : On(c)}}
    BY DEF EnabledIn
  <1>2. \A b : Source(b).at[2] = b[1]
    OBVIOUS
  <1>3. Declared(place, lines, s, n) = IF On(<<s, n>>) THEN {Source(<<s, n>>)} ELSE {}
    <2>1. <<s, n>>[1] = s
      OBVIOUS
    <2> QED BY <2>1 DEF Declared
  <1>4. On(<<s, n>>) => s <= n
    <2>1. <<s, n>>[1] = s /\ <<s, n>>[2] = n
      OBVIOUS
    <2> QED BY <1>0, <2>1 DEF HasField
  <1> HIDE DEF Source, On
  <1>5. /\ s <= n => <<s, n>> \in StanzaBounds(lines)
        /\ \A b \in StanzaBounds(lines) :
              s <= b[1] /\ b[1] <= n + 1 => b = <<s, n>> /\ s <= n
    BY StretchIsStanza
  <1>6. \A b \in StanzaBounds(lines) :
           b[1] < (n + 1) + 1 <=> b[1] < s \/ (s <= b[1] /\ b[1] <= n + 1)
    BY <1>0, BoundsArePairs
  <1>7. ASSUME NEW e
        PROVE  e \in Before(place, file, (n + 1) + 1)
                  <=> e \in Before(place, file, s) \/ (On(<<s, n>>) /\ e = Source(<<s, n>>))
    <2>1. ASSUME e \in Before(place, file, (n + 1) + 1)
          PROVE  e \in Before(place, file, s) \/ (On(<<s, n>>) /\ e = Source(<<s, n>>))
      <3>1. PICK b \in StanzaBounds(lines) : On(b) /\ e = Source(b)
        BY <1>1, <2>1 DEF Before
      <3>2. b[1] < (n + 1) + 1
        BY <1>2, <2>1, <3>1 DEF Before
      <3>3. CASE b[1] < s
        BY <1>2, <2>1, <3>1, <3>3 DEF Before
      <3>4. CASE s <= b[1] /\ b[1] <= n + 1
        <4>1. b = <<s, n>>
          BY <1>5, <3>4
        <4> QED BY <3>1, <4>1
      <3> QED BY <1>6, <3>2, <3>3, <3>4
    <2>2. ASSUME On(<<s, n>>), e = Source(<<s, n>>)
          PROVE  e \in Before(place, file, (n + 1) + 1)
      <3>1. <<s, n>> \in StanzaBounds(lines)
        BY <1>4, <1>5, <2>2
      <3>2. e \in EnabledIn(place, file) /\ e.at[2] = s
        <4>1. <<s, n>>[1] = s
          OBVIOUS
        <4> QED BY <1>1, <1>2, <2>2, <3>1, <4>1
      <3>3. s < (n + 1) + 1
        BY <1>0
      <3> QED BY <3>2, <3>3 DEF Before
    <2>3. ASSUME e \in Before(place, file, s)
          PROVE  e \in Before(place, file, (n + 1) + 1)
      <3>1. PICK b \in StanzaBounds(lines) : On(b) /\ e = Source(b)
        BY <1>1, <2>3 DEF Before
      <3>2. b[1] < s
        BY <1>2, <2>3, <3>1 DEF Before
      <3>3. b[1] < (n + 1) + 1
        BY <1>6, <3>2
      <3> QED BY <1>2, <2>3, <3>1, <3>3 DEF Before
    <2> QED BY <2>1, <2>2, <2>3
  <1> QED BY <1>3, <1>7

-----------------------------------------------------------------------------
(* The places of the files                                                 *)

Given == main \in MainLists /\ dir \in Directories

LEMMA GivenRemains == Spec => []Given
  <1>1. Init => Given
    BY DEF Init, Given
  <1>2. Given /\ [Next]_vars => Given'
    BY DEF Given, Next, vars, facts, InspectLine, ReadStanzaLine, EndFile, NextFile,
           Terminated
  <1> QED BY <1>1, <1>2, PTL DEF Spec

LEMMA PlacesDiffer ==
    /\ \A name : <<name>> # MainPlace /\ <<name>>[1] = name
    /\ \A a, b : <<a>> = <<b>> => a = b
  BY DEF MainPlace

LEMMA FilesOfPlaces ==
    ASSUME Given, NEW place \in Places
    PROVE  LET file == FileAt(place)
           IN  /\ \/ file.format = "list" /\ file.lines \in Seq(ListLines)
                  \/ file.format = "sources" /\ file.lines \in Seq(StanzaLines)
               /\ Len(file.lines) \in Nat
               /\ file = [format |-> file.format, lines |-> file.lines]
  <1>1. FileAt(place) \in Files
    <2>1. CASE place = MainPlace
      <3>1. main \in [format : {"list"}, lines : Seq(ListLines)]
        BY InputAssumption DEF Given
      <3> QED BY <2>1, <3>1 DEF FileAt, Files
    <2>2. CASE place # MainPlace
      <3>1. PICK name \in DOMAIN dir : place = <<name>>
        BY <2>2 DEF Places
      <3>2. dir[name] \in Files
        BY InputAssumption DEF Given
      <3>3. FileAt(place) = dir[name]
        BY <2>2, <3>1, PlacesDiffer DEF FileAt
      <3> QED BY <3>2, <3>3
    <2> QED BY <2>1, <2>2
  <1>2. PICK file : file = FileAt(place)
    OBVIOUS
  <1>3. CASE file \in [format : {"list"}, lines : Seq(ListLines)]
    BY <1>2, <1>3
  <1>4. CASE file \in [format : {"sources"}, lines : Seq(StanzaLines)]
    BY <1>2, <1>4
  <1> QED BY <1>1, <1>2, <1>3, <1>4 DEF Files

LEMMA FilesStay ==
    ASSUME main' = main, dir' = dir
    PROVE  /\ Places' = Places
           /\ \A place : FileAt(place)' = FileAt(place)
           /\ \A places : EnabledAt(places)' = EnabledAt(places)
  BY DEF Places, FileAt, EnabledAt

LEMMA EnabledOfMore ==
    ASSUME NEW places, NEW place
    PROVE  /\ EnabledAt({}) = {}
           /\ EnabledAt(places \cup {place}) =
                 EnabledAt(places) \cup EnabledIn(place, FileAt(place))
  BY DEF EnabledAt

(* A source that stands in this file, on this line or after, is in none of *)
(* the other files and not before the line.                                *)
LEMMA NotMetYet ==
    ASSUME Given, NEW places \in SUBSET Places, NEW place \in Places, NEW s,
           NEW e \in EnabledAt(places \ {place}) \cup Before(place, FileAt(place), s)
    PROVE  e.at # <<place, s>>
  <1>1. CASE e \in EnabledAt(places \ {place})
    <2>1. PICK other \in places \ {place} : e \in EnabledIn(other, FileAt(other))
      BY <1>1 DEF EnabledAt
    <2>2. e.at[1] = other
      BY <2>1, FilesOfPlaces, WhereEnabled
    <2> QED BY <2>2
  <1>2. CASE e \in Before(place, FileAt(place), s)
    <2>1. e.at[2] \in Nat /\ e.at[2] < s
      BY <1>2, FilesOfPlaces, WhereEnabled DEF Before
    <2>2. e.at[2] # s
      BY <2>1
    <2> QED BY <2>2
  <1> QED BY <1>1, <1>2

-----------------------------------------------------------------------------
(* Steps                                                                   *)

(* The end of a stanza notes what the stanza declares.                     *)
LEMMA StanzaNoted ==
    ASSUME Types, NEW place, NEW lines \in Seq(StanzaLines), NEW n \in 0 .. Len(lines),
           NEW s \in 1 .. n + 1, StanzaSoFar(lines, s, n),
           NEW S, FactsAre(S, seen, thirdParty, duplicates), \A e \in S : e.at # <<place, s>>,
           InspectStanza
    PROVE  /\ FactsAre(S \cup Declared(place, lines, s, n), seen', thirdParty', duplicates')
           /\ seen' \in SUBSET Seq(Words)
           /\ thirdParty' \in Seq(Seq(Words)) /\ duplicates' \in Seq(Seq(Words))
  <1> DEFINE uris == Value(lines, <<s, n>>, "URIs")
             suites == Value(lines, <<s, n>>, "Suites")
             off == "Enabled" \in DOMAIN stanza /\ stanza["Enabled"] = <<"no">>
             e == [at |-> <<place, s>>, words |-> uris \o suites]
  <1>1. /\ "URIs" \in DOMAIN stanza <=> HasField(lines, <<s, n>>, "URIs")
        /\ "URIs" \in DOMAIN stanza => stanza["URIs"] = uris
        /\ FieldOrNothing("Suites") = suites
    BY DEF StanzaSoFar, Fields, FieldOrNothing
  <1>2. off <=> Disabled(lines, <<s, n>>)
    <2>1. <<>> # <<"no">>
      OBVIOUS
    <2>2. Value(lines, <<s, n>>, "Enabled") =
             IF "Enabled" \in DOMAIN stanza THEN stanza["Enabled"] ELSE <<>>
      BY DEF StanzaSoFar, Fields, FieldOrNothing
    <2> QED BY <2>1, <2>2 DEF Disabled
  <1>3. CASE "URIs" \notin DOMAIN stanza
    <2>1. Declared(place, lines, s, n) = {}
      BY <1>1, <1>3 DEF Declared
    <2>2. UNCHANGED <<seen, thirdParty, duplicates>>
      BY <1>3 DEF InspectStanza, facts
    <2> QED BY <2>1, <2>2 DEF Types
  <1>4. CASE "URIs" \in DOMAIN stanza
    <2>1. uris \o suites \in Seq(Words)
      <3>1. uris \in Seq(Words) /\ suites \in Seq(Words)
        BY ValueType
      <3> HIDE DEF uris, suites
      <3> QED BY <3>1, ConcatProperties
    <2>2. NoteSource(uris \o suites, off)
      BY <1>1, <1>4 DEF InspectStanza
    <2>3. S \cup Declared(place, lines, s, n) = IF off THEN S ELSE S \cup {e}
      BY <1>1, <1>2, <1>4 DEF Declared
    <2>4. e.words = uris \o suites /\ e \notin S /\ off \in BOOLEAN
      OBVIOUS
    <2> HIDE DEF uris, suites, off, e
    <2>5. NoteSource(e.words, off) /\ e.words \in Seq(Words)
      BY <2>1, <2>2, <2>4
    <2> QED BY <2>3, <2>4, <2>5, SourceNoted
  <1> QED BY <1>3, <1>4

LEMMA OtherLines ==
    ASSUME NEW format, NEW left, current = [format |-> format, lines |-> left],
           current' = [current EXCEPT !.lines = Tail(@)]
    PROVE  current' = [format |-> format, lines |-> Tail(left)]
  OBVIOUS

LEMMA NextLine ==
    ASSUME NEW S, NEW lines \in Seq(S), NEW n \in 0 .. Len(lines), NEW format,
           current = [format |-> format, lines |-> SubSeq(lines, n + 1, Len(lines))],
           current.lines # <<>>, current' = [current EXCEPT !.lines = Tail(@)]
    PROVE  /\ n \in 0 .. Len(lines) - 1
           /\ n + 1 \in 0 .. Len(lines) /\ n + 1 \in 1 .. Len(lines)
           /\ Head(current.lines) = lines[n + 1]
           /\ current' = [format |-> format,
                          lines |-> SubSeq(lines, (n + 1) + 1, Len(lines))]
  <1> DEFINE left == SubSeq(lines, n + 1, Len(lines))
  <1>1. current = [format |-> format, lines |-> left]
    OBVIOUS
  <1>2. /\ left = <<>> <=> n = Len(lines)
        /\ n < Len(lines) =>
              Head(left) = lines[n + 1] /\ Tail(left) = SubSeq(lines, (n + 1) + 1, Len(lines))
    BY LinesLeft
  <1>3. Len(lines) \in Nat
    BY LenProperties
  <1>4. current' = [format |-> format, lines |-> Tail(left)]
    BY <1>1, OtherLines
  <1> HIDE DEF left
  <1>5. current.lines = left
    BY <1>1
  <1>6. n # Len(lines)
    BY <1>2, <1>5, Zenon
  <1>7. n < Len(lines) /\ n \in 0 .. Len(lines) - 1
        /\ n + 1 \in 0 .. Len(lines) /\ n + 1 \in 1 .. Len(lines)
    BY <1>3, <1>6
  <1> QED BY <1>2, <1>4, <1>5, <1>7, Zenon

(* What has to hold after a step for a file still to be read.              *)
LEMMA StillInFile ==
    ASSUME Given, main' = main, dir' = dir, unread' = unread, Types',
           NEW place \in Met, NEW file, file = FileAt(place),
           NEW n \in 0 .. Len(file.lines), NEW s \in 1 .. n + 1,
           current' = [format |-> file.format,
                       lines |-> SubSeq(file.lines, n + 1, Len(file.lines))],
           IF file.format = "list" THEN s = n + 1 /\ stanza' = NoStanza /\ key' = NoKey
           ELSE Stretch(file.lines, s, n) /\ StanzaSoFar(file.lines, s, n)',
           FactsAre(EnabledAt(Met \ {place}) \cup Before(place, file, s),
                    seen', thirdParty', duplicates')
    PROVE  IInv'
  <1>1. Met' = Met /\ FileAt(place)' = file /\ EnabledAt(Met \ {place})' = EnabledAt(Met \ {place})
    BY FilesStay DEF Met
  <1>2. Noted(EnabledAt(Met \ {place}) \cup {e \in EnabledIn(place, file) : e.at[2] < s})'
    BY <1>1 DEF Noted, FactsAre, Before
  <1>3. InFile(place, n, s)'
    BY <1>1, <1>2 DEF InFile
  <1> QED BY <1>1, <1>3 DEF IInv

LEMMA InspectLineKeeps ==
    ASSUME Given, Types, NEW place \in Met, NEW n \in 0 .. Len(FileAt(place).lines),
           NEW s \in 1 .. n + 1, InFile(place, n, s), InspectLine
    PROVE  IInv'
  <1> DEFINE file == FileAt(place)
             lines == file.lines
             line == lines[n + 1]
             S == EnabledAt(Met \ {place}) \cup Before(place, file, n + 1)
             e == [at |-> <<place, n + 1>>, words |-> line.words]
  <1>1. /\ place \in Places /\ Met \in SUBSET Places
        /\ Len(lines) \in Nat
    BY FilesOfPlaces DEF Met
  <1>2. /\ current = [format |-> file.format, lines |-> SubSeq(lines, n + 1, Len(lines))]
        /\ file.format = "list"
    BY DEF InFile, InspectLine
  <1>3. s = n + 1 /\ stanza = NoStanza /\ key = NoKey
        /\ FactsAre(S, seen, thirdParty, duplicates)
    BY <1>2, NotedIs DEF InFile, Before
  <1>4. lines \in Seq(ListLines)
    BY <1>1, <1>2, FilesOfPlaces
  <1>5. /\ n \in 0 .. Len(lines) - 1 /\ n + 1 \in 0 .. Len(lines) /\ n + 1 \in 1 .. Len(lines)
        /\ Head(current.lines) = line
        /\ current' = [format |-> file.format,
                       lines |-> SubSeq(lines, (n + 1) + 1, Len(lines))]
    <2>1. current.lines # <<>> /\ current' = [current EXCEPT !.lines = Tail(@)]
      BY DEF InspectLine
    <2> QED BY <1>2, <1>4, <2>1, NextLine
  <1>7. /\ FactsAre(EnabledAt(Met \ {place}) \cup Before(place, file, (n + 1) + 1),
                    seen', thirdParty', duplicates')
        /\ seen' \in SUBSET Seq(Words)
        /\ thirdParty' \in Seq(Seq(Words)) /\ duplicates' \in Seq(Seq(Words))
    <2>1. Before(place, file, (n + 1) + 1) =
              Before(place, file, n + 1) \cup
              IF line.kind = "deb" /\ ~line.off THEN {e} ELSE {}
      BY <1>1, <1>2, <1>5, ListLineMore
    <2>2. CASE line.kind = "deb"
      <3>1. line \in ListLines
        BY <1>4, <1>5
      <3>2. line.off \in BOOLEAN /\ line.words \in Seq(Words)
        BY <2>2, <3>1 DEF ListLines
      <3>3. NoteSource(line.words, line.off)
        BY <1>5, <2>2 DEF InspectLine
      <3>4. e \notin S
        <4>1. e.at = <<place, n + 1>>
          OBVIOUS
        <4>2. \A other \in S : other.at # <<place, n + 1>>
          BY <1>1, NotMetYet
        <4> HIDE DEF S, e
        <4> QED BY <4>1, <4>2
      <3>5. e.words = line.words
        OBVIOUS
      <3> HIDE DEF S, e, line
      <3>6. /\ FactsAre(IF line.off THEN S ELSE S \cup {e}, seen', thirdParty', duplicates')
            /\ seen' \in SUBSET Seq(Words)
            /\ thirdParty' \in Seq(Seq(Words)) /\ duplicates' \in Seq(Seq(Words))
        BY <1>3, <3>2, <3>3, <3>4, <3>5, SourceNoted
      <3>7. (IF line.off THEN S ELSE S \cup {e}) =
               EnabledAt(Met \ {place}) \cup Before(place, file, (n + 1) + 1)
        BY <2>1, <2>2 DEF S
      <3> QED BY <3>6, <3>7, Zenon
    <2>3. CASE line.kind # "deb"
      <3>1. UNCHANGED <<seen, thirdParty, duplicates>>
        BY <1>5, <2>3 DEF InspectLine, facts
      <3> QED BY <1>3, <2>1, <2>3, <3>1 DEF Types
    <2> QED BY <2>2, <2>3
  <1>8. UNCHANGED <<main, dir, unread, stanza, key>>
    BY DEF InspectLine
  <1>9. Types'
    BY <1>7, <1>8 DEF Types
  <1>10. n + 1 + 1 \in 1 .. (n + 1) + 1
    BY <1>5
  <1> HIDE DEF file, lines
  <1>11. file = FileAt(place) /\ lines = file.lines
    BY DEF file, lines
  <1> QED BY <1>2, <1>3, <1>5, <1>7, <1>8, <1>9, <1>10, <1>11, StillInFile

LEMMA FieldSet ==
    ASSUME Types, NEW f \in Fields, NEW words \in Seq(Words), stanza' = SetField(f, words)
    PROVE  /\ \A name : /\ name \in DOMAIN stanza' <=> name \in DOMAIN stanza \/ name = f
                        /\ FieldOrNothing(name)' =
                              IF name = f THEN words ELSE FieldOrNothing(name)
           /\ DOMAIN stanza' \subseteq Fields
           /\ \A name \in DOMAIN stanza' : stanza'[name] \in Seq(Words)
  BY DEF SetField, FieldOrNothing, Types

(* Each line leaves the stanza as the lines so far say.                    *)
LEMMA FieldKeeps ==
    ASSUME Types, NEW lines \in Seq(StanzaLines), NEW n \in 0 .. Len(lines) - 1,
           NEW s \in 1 .. n + 1, StanzaSoFar(lines, s, n), lines[n + 1].kind = "field",
           key' = lines[n + 1].name, stanza' = SetField(lines[n + 1].name, lines[n + 1].words)
    PROVE  /\ StanzaSoFar(lines, s, n + 1)'
           /\ DOMAIN stanza' \subseteq Fields
           /\ \A name \in DOMAIN stanza' : stanza'[name] \in Seq(Words)
           /\ key' \in Fields
  <1>1. n + 1 \in 1 .. Len(lines)
    OBVIOUS
  <1>2. lines[n + 1].name \in Fields /\ lines[n + 1].words \in Seq(Words)
    BY <1>1, LineKinds
  <1> DEFINE f == lines[n + 1].name
  <1>3. /\ \A name : /\ name \in DOMAIN stanza' <=> name \in DOMAIN stanza \/ name = f
                     /\ FieldOrNothing(name)' =
                           IF name = f THEN lines[n + 1].words ELSE FieldOrNothing(name)
        /\ DOMAIN stanza' \subseteq Fields
        /\ \A name \in DOMAIN stanza' : stanza'[name] \in Seq(Words)
    BY <1>2, FieldSet
  <1>4. ASSUME NEW name \in Fields \ {"Other"}
        PROVE  /\ name \in DOMAIN stanza' <=> HasField(lines, <<s, n + 1>>, name)
               /\ FieldOrNothing(name)' = Value(lines, <<s, n + 1>>, name)
               /\ key' = name <=> Continues(lines, s, n + 1, name)
    <2>1. /\ name \in DOMAIN stanza <=> HasField(lines, <<s, n>>, name)
          /\ FieldOrNothing(name) = Value(lines, <<s, n>>, name)
      BY DEF StanzaSoFar
    <2>2. /\ HasField(lines, <<s, n + 1>>, name)
                 <=> HasField(lines, <<s, n>>, name) \/ f = name
          /\ Value(lines, <<s, n + 1>>, name) =
                 IF f = name THEN lines[n + 1].words ELSE Value(lines, <<s, n>>, name)
          /\ Continues(lines, s, n + 1, name) <=> f = name
      BY FieldRead
    <2> QED BY <1>3, <2>1, <2>2
  <1>5. StanzaSoFar(lines, s, n + 1)'
    BY <1>4 DEF StanzaSoFar
  <1> QED BY <1>2, <1>3, <1>5

LEMMA MoreKeeps ==
    ASSUME Types, NEW lines \in Seq(StanzaLines), NEW n \in 0 .. Len(lines) - 1,
           NEW s \in 1 .. n + 1, StanzaSoFar(lines, s, n),
           lines[n + 1].kind \in {"more", "comment"},
           \/ /\ lines[n + 1].kind = "comment"
              /\ UNCHANGED <<stanza, key>>
           \/ /\ key # NoKey /\ lines[n + 1].kind = "more"
              /\ key' = key /\ stanza' = SetField(key, FieldOrNothing(key) \o lines[n + 1].words)
           \/ /\ key = NoKey /\ lines[n + 1].kind = "more"
              /\ key' = "Other" /\ stanza' = SetField("Other", lines[n + 1].words)
    PROVE  /\ StanzaSoFar(lines, s, n + 1)'
           /\ DOMAIN stanza' \subseteq Fields
           /\ \A name \in DOMAIN stanza' : stanza'[name] \in Seq(Words)
           /\ key' \in Fields \cup {NoKey}
  <1>1. n + 1 \in 1 .. Len(lines) /\ n \in 0 .. Len(lines)
    OBVIOUS
  <1>2. /\ lines[n + 1].kind = "more" => lines[n + 1].words \in Seq(Words)
        /\ WordsOf(lines[n + 1]) = IF lines[n + 1].kind = "more" THEN lines[n + 1].words ELSE <<>>
    BY <1>1, LineKinds DEF WordsOf
  <1>3. ASSUME NEW name \in Fields \ {"Other"}
        PROVE  /\ name \in DOMAIN stanza <=> HasField(lines, <<s, n + 1>>, name)
               /\ Value(lines, <<s, n + 1>>, name) =
                     IF key = name THEN FieldOrNothing(name) \o WordsOf(lines[n + 1])
                     ELSE FieldOrNothing(name)
               /\ Continues(lines, s, n + 1, name) <=> key = name
               /\ FieldOrNothing(name) \in Seq(Words)
               /\ key = name => name \in DOMAIN stanza
    <2>1. /\ name \in DOMAIN stanza <=> HasField(lines, <<s, n>>, name)
          /\ FieldOrNothing(name) = Value(lines, <<s, n>>, name)
          /\ key = name <=> Continues(lines, s, n, name)
      BY DEF StanzaSoFar
    <2>2. Value(lines, <<s, n>>, name) \in Seq(Words)
      BY <1>1, ValueType
    <2>3. Continues(lines, s, n, name) => HasField(lines, <<s, n>>, name)
      <3>1. <<s, n>>[1] = s /\ <<s, n>>[2] = n
        OBVIOUS
      <3> QED BY <3>1 DEF Continues, HasField
    <2>4. /\ HasField(lines, <<s, n + 1>>, name) <=> HasField(lines, <<s, n>>, name)
          /\ Value(lines, <<s, n + 1>>, name) =
                IF Continues(lines, s, n, name)
                THEN Value(lines, <<s, n>>, name) \o WordsOf(lines[n + 1])
                ELSE Value(lines, <<s, n>>, name)
          /\ Continues(lines, s, n + 1, name) <=> Continues(lines, s, n, name)
      BY MoreRead
    <2> QED BY <2>1, <2>2, <2>3, <2>4
  <1>4. "Other" \in Fields /\ NoKey \notin Fields
    BY DEF Fields, NoKey
  <1>5. CASE lines[n + 1].kind = "comment"
    <2>1. stanza' = stanza /\ key' = key
      BY <1>5
    <2>2. \A name \in Fields \ {"Other"} : FieldOrNothing(name) \o WordsOf(lines[n + 1]) =
                                               FieldOrNothing(name)
      BY <1>2, <1>3, <1>5, ConcatEmptySeq
    <2>3. \A name : FieldOrNothing(name)' = FieldOrNothing(name)
      BY <2>1 DEF FieldOrNothing
    <2>4. StanzaSoFar(lines, s, n + 1)'
      BY <1>3, <2>1, <2>2, <2>3 DEF StanzaSoFar
    <2> QED BY <2>1, <2>4 DEF Types
  <1>6. CASE key # NoKey /\ lines[n + 1].kind = "more"
    <2>1. key \in Fields /\ key' = key
      BY <1>6 DEF Types
    <2>2. FieldOrNothing(key) \in Seq(Words)
      <3>1. <<>> \in Seq(Words)
        OBVIOUS
      <3> QED BY <3>1 DEF FieldOrNothing, Types
    <2>3. FieldOrNothing(key) \o lines[n + 1].words \in Seq(Words)
      BY <1>2, <1>6, <2>2, ConcatProperties
    <2>4. stanza' = SetField(key, FieldOrNothing(key) \o lines[n + 1].words)
      BY <1>6
    <2>5. /\ \A name : /\ name \in DOMAIN stanza' <=> name \in DOMAIN stanza \/ name = key
                       /\ FieldOrNothing(name)' =
                             IF name = key THEN FieldOrNothing(key) \o lines[n + 1].words
                             ELSE FieldOrNothing(name)
          /\ DOMAIN stanza' \subseteq Fields
          /\ \A name \in DOMAIN stanza' : stanza'[name] \in Seq(Words)
      BY <2>1, <2>3, <2>4, FieldSet
    <2>6. StanzaSoFar(lines, s, n + 1)'
      BY <1>2, <1>3, <1>6, <2>1, <2>5 DEF StanzaSoFar
    <2> QED BY <2>1, <2>5, <2>6
  <1>7. CASE key = NoKey /\ lines[n + 1].kind = "more"
    <2>1. key' = "Other" /\ stanza' = SetField("Other", lines[n + 1].words)
      BY <1>7
    <2>2. /\ \A name : /\ name \in DOMAIN stanza' <=> name \in DOMAIN stanza \/ name = "Other"
                       /\ FieldOrNothing(name)' =
                             IF name = "Other" THEN lines[n + 1].words ELSE FieldOrNothing(name)
          /\ DOMAIN stanza' \subseteq Fields
          /\ \A name \in DOMAIN stanza' : stanza'[name] \in Seq(Words)
      BY <1>2, <1>4, <1>7, <2>1, FieldSet
    <2>3. StanzaSoFar(lines, s, n + 1)'
      BY <1>3, <1>4, <1>7, <2>1, <2>2 DEF StanzaSoFar
    <2> QED BY <1>4, <2>1, <2>2, <2>3
  <1> QED BY <1>5, <1>6, <1>7

LEMMA ReadStanzaLineKeeps ==
    ASSUME Given, Types, NEW place \in Met, NEW n \in 0 .. Len(FileAt(place).lines),
           NEW s \in 1 .. n + 1, InFile(place, n, s), ReadStanzaLine
    PROVE  IInv'
  <1>file. PICK file : file = FileAt(place)
    OBVIOUS
  <1> DEFINE lines == file.lines
             line == lines[n + 1]
             S == EnabledAt(Met \ {place}) \cup Before(place, file, s)
  <1>1. place \in Places /\ Met \in SUBSET Places /\ Len(lines) \in Nat
    BY <1>file, FilesOfPlaces DEF Met
  <1>2. /\ current = [format |-> file.format, lines |-> SubSeq(lines, n + 1, Len(lines))]
        /\ file.format = "sources" /\ file.format # "list"
    BY <1>file DEF InFile, ReadStanzaLine
  <1>3. /\ Stretch(lines, s, n) /\ StanzaSoFar(lines, s, n)
        /\ FactsAre(S, seen, thirdParty, duplicates)
    BY <1>file, <1>2, NotedIs DEF InFile, Before
  <1>4. lines \in Seq(StanzaLines)
    BY <1>file, <1>1, <1>2, FilesOfPlaces
  <1>left. n \in 0 .. Len(lines) /\ current.lines # <<>>
           /\ current' = [current EXCEPT !.lines = Tail(@)]
    BY <1>file DEF ReadStanzaLine
  <1>5. /\ n \in 0 .. Len(lines) - 1 /\ n + 1 \in 0 .. Len(lines) /\ n + 1 \in 1 .. Len(lines)
        /\ Head(current.lines) = line
        /\ current' = [format |-> file.format,
                       lines |-> SubSeq(lines, (n + 1) + 1, Len(lines))]
    BY <1>2, <1>4, <1>left, NextLine
  <1>7. UNCHANGED <<main, dir, unread>>
    BY DEF ReadStanzaLine
  <1>8. CASE line.kind = "blank"
    <2>1. InspectStanza /\ stanza' = NoStanza /\ key' = NoKey
      BY <1>5, <1>8 DEF ReadStanzaLine, EndStanza
    <2>2. /\ FactsAre(S \cup Declared(place, lines, s, n), seen', thirdParty', duplicates')
          /\ seen' \in SUBSET Seq(Words)
          /\ thirdParty' \in Seq(Seq(Words)) /\ duplicates' \in Seq(Seq(Words))
      <3>1. \A e \in S : e.at # <<place, s>>
        BY <1>file, <1>1, NotMetYet
      <3>2. n \in 0 .. Len(lines)
        BY <1>file
      <3> HIDE DEF S, lines
      <3> QED BY <1>3, <1>4, <2>1, <3>1, <3>2, StanzaNoted
    <2>3. S \cup Declared(place, lines, s, n) =
             EnabledAt(Met \ {place}) \cup Before(place, file, (n + 1) + 1)
      <3>1. Before(place, file, (n + 1) + 1) =
               Before(place, file, s) \cup Declared(place, file.lines, s, n)
        <4>1. n \in 0 .. Len(file.lines)
          BY <1>file
        <4> QED BY <1>1, <1>2, <1>3, <1>8, <4>1, StanzaMore
      <3> QED BY <3>1
    <2>4. Stretch(lines, (n + 1) + 1, n + 1)
      <3>1. (n + 1) + 1 \in 1 .. (n + 1) + 1 /\ ((n + 1) + 1) - 1 = n + 1
            /\ (n + 1) + 1 .. n + 1 = {}
        BY <1>5
      <3> QED BY <1>8, <3>1 DEF Stretch
    <2>5. StanzaSoFar(lines, (n + 1) + 1, n + 1)'
      <3>1. NoKey \notin Fields /\ DOMAIN NoStanza = {}
        BY DEF NoKey, Fields, NoStanza
      <3>2. n + 1 \in Nat
        BY <1>5
      <3> QED BY <2>1, <3>1, <3>2, EmptyStretch DEF StanzaSoFar, FieldOrNothing
    <2>6. Types'
      BY <1>7, <2>1, <2>2 DEF Types, NoStanza
    <2>7. (n + 1) + 1 \in 1 .. (n + 1) + 1
      BY <1>5
    <2>8. FactsAre(EnabledAt(Met \ {place}) \cup Before(place, file, (n + 1) + 1),
                   seen', thirdParty', duplicates')
      BY <2>2, <2>3, Zenon
    <2> QED BY <1>file, <1>2, <1>5, <1>7, <2>4, <2>5, <2>6, <2>7, <2>8, StillInFile
  <1>9. CASE line.kind # "blank"
    <2>1. UNCHANGED <<seen, thirdParty, duplicates>>
      BY <1>5, <1>9 DEF ReadStanzaLine, facts
    <2>2. /\ StanzaSoFar(lines, s, n + 1)'
          /\ DOMAIN stanza' \subseteq Fields
          /\ \A name \in DOMAIN stanza' : stanza'[name] \in Seq(Words)
          /\ key' \in Fields \cup {NoKey}
      <3>1. CASE line.kind = "field"
        <4>1. key' = line.name /\ stanza' = SetField(line.name, line.words)
          BY <1>5, <3>1 DEF ReadStanzaLine
        <4> HIDE DEF lines
        <4> QED BY <1>3, <1>4, <1>5, <3>1, <4>1, FieldKeeps
      <3>2. CASE line.kind # "field"
        <4>1. line.kind \in {"more", "comment"}
          BY <1>4, <1>5, <1>9, <3>2, LineKinds
        <4>2. \/ /\ line.kind = "comment"
                 /\ UNCHANGED <<stanza, key>>
              \/ /\ key # NoKey /\ line.kind = "more"
                 /\ key' = key /\ stanza' = SetField(key, FieldOrNothing(key) \o line.words)
              \/ /\ key = NoKey /\ line.kind = "more"
                 /\ key' = "Other" /\ stanza' = SetField("Other", line.words)
          BY <1>5, <4>1 DEF ReadStanzaLine
        <4> HIDE DEF lines
        <4> QED BY <1>3, <1>4, <1>5, <4>1, <4>2, MoreKeeps
      <3> QED BY <3>1, <3>2
    <2>3. Stretch(lines, s, n + 1) /\ s \in 1 .. (n + 1) + 1
      <3>1. \A i : i \in s .. n + 1 => i \in s .. n \/ i = n + 1
        BY <1>5
      <3>2. s \in 1 .. (n + 1) + 1
        BY <1>5
      <3> QED BY <1>3, <1>9, <3>1, <3>2 DEF Stretch
    <2>4. Types'
      BY <1>7, <2>1, <2>2 DEF Types
    <2>5. FactsAre(S, seen', thirdParty', duplicates')
      BY <1>3, <2>1
    <2> QED BY <1>file, <1>2, <1>5, <1>7, <2>2, <2>3, <2>4, <2>5, StillInFile
  <1> QED BY <1>8, <1>9

LEMMA EndFileKeeps ==
    ASSUME Given, Types, NEW place \in Met, NEW n \in 0 .. Len(FileAt(place).lines),
           NEW s \in 1 .. n + 1, InFile(place, n, s), EndFile
    PROVE  IInv'
  <1> DEFINE file == FileAt(place)
             lines == file.lines
             S == EnabledAt(Met \ {place}) \cup Before(place, file, s)
  <1>1. place \in Places /\ Met \in SUBSET Places /\ Len(lines) \in Nat
    BY FilesOfPlaces DEF Met
  <1>2. /\ current = [format |-> file.format, lines |-> SubSeq(lines, n + 1, Len(lines))]
        /\ current.lines = <<>> /\ current.format = file.format
    BY DEF InFile, EndFile
  <1>3. n = Len(lines)
    <2>1. \E T : lines \in Seq(T)
      BY <1>1, FilesOfPlaces
    <2>2. n \in 0 .. Len(lines)
      OBVIOUS
    <2> HIDE DEF lines
    <2> QED BY <1>2, <2>1, <2>2, LinesLeft
  <1>4. FactsAre(S, seen, thirdParty, duplicates)
    BY NotedIs DEF InFile, Before
  <1>5. /\ UNCHANGED <<main, dir, unread>> /\ current' = Idle
        /\ stanza' = NoStanza /\ key' = NoKey
    BY DEF EndFile, FinishFile, EndStanza, ForgetStanza
  <1>6. EnabledAt(Met) = EnabledAt(Met \ {place}) \cup EnabledIn(place, file)
    <2>1. Met = (Met \ {place}) \cup {place}
      OBVIOUS
    <2>2. EnabledAt((Met \ {place}) \cup {place}) =
             EnabledAt(Met \ {place}) \cup EnabledIn(place, file)
      BY EnabledOfMore
    <2> QED BY <2>1, <2>2, Zenon
  <1>7. /\ FactsAre(EnabledAt(Met), seen', thirdParty', duplicates')
        /\ seen' \in SUBSET Seq(Words)
        /\ thirdParty' \in Seq(Seq(Words)) /\ duplicates' \in Seq(Seq(Words))
    <2>1. CASE file.format = "list"
      <3>1. s = n + 1
        BY <2>1 DEF InFile
      <3>2. UNCHANGED <<seen, thirdParty, duplicates>>
        BY <1>2, <2>1 DEF EndFile, FinishFile, ForgetStanza, facts
      <3>3. S = EnabledAt(Met)
        BY <1>1, <1>3, <1>6, <3>1, BeforeAll
      <3>4. FactsAre(EnabledAt(Met), seen, thirdParty, duplicates)
        BY <1>4, <3>3, Zenon
      <3> QED BY <3>2, <3>4 DEF Types
    <2>2. CASE file.format = "sources"
      <3>1. /\ Stretch(lines, s, n) /\ StanzaSoFar(lines, s, n)
            /\ InspectStanza /\ lines \in Seq(StanzaLines)
        BY <1>1, <1>2, <2>2, FilesOfPlaces DEF InFile, EndFile, FinishFile, EndStanza
      <3>2. /\ FactsAre(S \cup Declared(place, lines, s, n), seen', thirdParty', duplicates')
            /\ seen' \in SUBSET Seq(Words)
            /\ thirdParty' \in Seq(Seq(Words)) /\ duplicates' \in Seq(Seq(Words))
        <4>1. \A e \in S : e.at # <<place, s>>
          BY <1>1, NotMetYet
        <4>2. n \in 0 .. Len(lines)
          OBVIOUS
        <4> HIDE DEF S, lines
        <4> QED BY <1>4, <3>1, <4>1, <4>2, StanzaNoted
      <3>3. Before(place, file, (n + 1) + 1) =
               Before(place, file, s) \cup Declared(place, lines, s, n)
        BY <1>1, <1>3, <2>2, <3>1, StanzaMore
      <3>4. Before(place, file, (n + 1) + 1) = EnabledIn(place, file)
        <4>1. \A e \in EnabledIn(place, file) : e.at[2] \in 1 .. Len(lines)
          BY <1>1, WhereEnabled
        <4>2. \A i \in 1 .. Len(lines) : i < (n + 1) + 1
          BY <1>1, <1>3
        <4> HIDE DEF lines
        <4> QED BY <4>1, <4>2 DEF Before
      <3>5. S \cup Declared(place, lines, s, n) = EnabledAt(Met)
        BY <1>6, <3>3, <3>4
      <3> QED BY <3>2, <3>5, Zenon
    <2> QED BY <1>1, <2>1, <2>2, FilesOfPlaces
  <1>8. Types'
    BY <1>5, <1>7 DEF Types, NoStanza
  <1>9. Met' = Met /\ EnabledAt(Met)' = EnabledAt(Met)
    BY <1>5, FilesStay DEF Met
  <1>10. BetweenFiles'
    BY <1>5, <1>7, <1>9 DEF BetweenFiles, Noted, FactsAre
  <1> QED BY <1>8, <1>10 DEF IInv

LEMMA NoFacts == FactsAre({}, {}, <<>>, <<>>)
  <1>1. IsFiniteSet({})
    BY FS_EmptySet
  <1> QED BY <1>1 DEF FactsAre, ToSet

(* Of a file that is just opened nothing is noted, nor read.               *)
LEMMA FileOpened ==
    ASSUME NEW file, Len(file.lines) \in Nat, NEW S, file.lines \in Seq(S),
           file = [format |-> file.format, lines |-> file.lines], NEW place
    PROVE  /\ file = [format |-> file.format,
                      lines |-> SubSeq(file.lines, 0 + 1, Len(file.lines))]
           /\ Stretch(file.lines, 1, 0)
           /\ \A others : others \cup Before(place, file, 1) = others
  <1>1. SubSeq(file.lines, 0 + 1, Len(file.lines)) = file.lines
    <2>1. \A q \in Seq(S) : SubSeq(q, 0 + 1, Len(q)) = q
      OBVIOUS
    <2> QED BY <2>1
  <1>2. Stretch(file.lines, 1, 0)
    BY DEF Stretch
  <1>3. Before(place, file, 1) = {}
    BY BeforeAll
  <1> QED BY <1>1, <1>2, <1>3

LEMMA NoStanzaSoFar ==
    ASSUME stanza = NoStanza, key = NoKey, NEW lines
    PROVE  StanzaSoFar(lines, 1, 0)
  <1>1. NoKey \notin Fields /\ DOMAIN NoStanza = {} /\ 0 + 1 = 1 /\ 0 \in Nat
    BY DEF NoKey, Fields, NoStanza
  <1>2. \A name : /\ ~HasField(lines, <<0 + 1, 0>>, name)
                  /\ Value(lines, <<0 + 1, 0>>, name) = <<>>
                  /\ ~Continues(lines, 0 + 1, 0, name)
    BY <1>1, EmptyStretch
  <1> QED BY <1>1, <1>2 DEF StanzaSoFar, FieldOrNothing

LEMMA NextFileKeeps ==
    ASSUME Given, Types, BetweenFiles, NextFile
    PROVE  IInv'
  <1>1. PICK name \in unread : current' = dir[name] /\ unread' = unread \ {name}
    BY DEF NextFile
  <1>2. UNCHANGED <<main, dir, stanza, key, seen, thirdParty, duplicates>>
    BY DEF NextFile, facts
  <1>3. PICK place : place = <<name>>
    OBVIOUS
  <1>4. /\ place \in Places /\ place # MainPlace /\ FileAt(place) = dir[name]
        /\ place \notin Met /\ place \in Met' /\ Met' \ {place} = Met
    <2>1. name \in DOMAIN dir
      BY DEF Types
    <2>2. place \in Places /\ place # MainPlace /\ place[1] = name
      BY <1>3, <2>1, PlacesDiffer DEF Places
    <2>3. FileAt(place) = dir[name]
      BY <2>2 DEF FileAt
    <2>4. place \notin Met
      BY <1>3 DEF Met
    <2>5. Met' = Places \ {<<other>> : other \in unread \ {name}}
      BY <1>1, <1>2, FilesStay DEF Met
    <2>6. \A other : <<other>> = place => other = name
      BY <1>3, PlacesDiffer
    <2>7. place \in Met' /\ Met' \ {place} = Met
      BY <1>1, <1>3, <2>2, <2>5, <2>6 DEF Met
    <2> QED BY <2>2, <2>3, <2>4, <2>7
  <1>5. PICK file : file = FileAt(place)
    OBVIOUS
  <1>6. /\ FileAt(place)' = file
        /\ EnabledAt(Met \ {place})' = EnabledAt(Met)
    <2>1. FileAt(place)' = FileAt(place) /\ \A places : EnabledAt(places)' = EnabledAt(places)
      BY <1>2, FilesStay
    <2>2. (Met \ {place})' = Met
      BY <1>4
    <2> QED BY <1>5, <2>1, <2>2
  <1>7. /\ Len(file.lines) \in Nat
        /\ \E S : file.lines \in Seq(S)
        /\ file = [format |-> file.format, lines |-> file.lines]
    BY <1>4, <1>5, FilesOfPlaces
  <1>8. /\ current' = [format |-> file.format,
                       lines |-> SubSeq(file.lines, 0 + 1, Len(file.lines))]
        /\ Stretch(file.lines, 1, 0)
        /\ EnabledAt(Met) \cup Before(place, file, 1) = EnabledAt(Met)
    <2>1. PICK S : file.lines \in Seq(S)
      BY <1>7
    <2>2. current' = file
      BY <1>1, <1>4, <1>5
    <2>3. /\ file = [format |-> file.format,
                     lines |-> SubSeq(file.lines, 0 + 1, Len(file.lines))]
          /\ Stretch(file.lines, 1, 0)
          /\ \A others : others \cup Before(place, file, 1) = others
      BY <1>7, <2>1, FileOpened
    <2> QED BY <2>2, <2>3
  <1>9. stanza' = NoStanza /\ key' = NoKey /\ StanzaSoFar(file.lines, 1, 0)'
    <2>1. stanza = NoStanza /\ key = NoKey
      BY DEF BetweenFiles
    <2>2. StanzaSoFar(file.lines, 1, 0)
      BY <2>1, NoStanzaSoFar
    <2> QED BY <1>2, <2>1, <2>2 DEF StanzaSoFar, FieldOrNothing
  <1>10. FactsAre(EnabledAt(Met) \cup Before(place, file, 1), seen', thirdParty', duplicates')
    <2>1. FactsAre(EnabledAt(Met), seen, thirdParty, duplicates)
      BY NotedIs DEF BetweenFiles
    <2> QED BY <1>2, <1>8, <2>1
  <1>11. Noted(EnabledAt(Met \ {place}) \cup {e \in EnabledIn(place, file) : e.at[2] < 1})'
    BY <1>6, <1>10 DEF Noted, FactsAre, Before
  <1>12. InFile(place, 0, 1)'
    BY <1>6, <1>8, <1>9, <1>11 DEF InFile
  <1>13. Types'
    BY <1>1, <1>2 DEF Types
  <1>14. 0 \in 0 .. Len(FileAt(place)'.lines) /\ 1 \in 1 .. 0 + 1
    BY <1>6, <1>7
  <1> QED BY <1>4, <1>12, <1>13, <1>14 DEF IInv

LEMMA InitiallyIInv == Init => IInv
  <1> SUFFICES ASSUME Init PROVE IInv
    OBVIOUS
  <1>1. Given
    BY DEF Init, Given
  <1>2. Met = {MainPlace} /\ MainPlace \in Places /\ FileAt(MainPlace) = main
    <2>1. unread = DOMAIN dir
      BY DEF Init
    <2> QED BY <2>1, PlacesDiffer DEF Met, Places, FileAt
  <1>3. /\ Len(main.lines) \in Nat
        /\ \E S : main.lines \in Seq(S)
        /\ main = [format |-> main.format, lines |-> main.lines]
    BY <1>1, <1>2, FilesOfPlaces
  <1>4. /\ current = [format |-> main.format,
                      lines |-> SubSeq(main.lines, 0 + 1, Len(main.lines))]
        /\ Stretch(main.lines, 1, 0)
        /\ EnabledAt({}) \cup Before(MainPlace, main, 1) = EnabledAt({})
    BY <1>3, FileOpened DEF Init
  <1>5. EnabledAt(Met \ {MainPlace}) \cup Before(MainPlace, main, 1) = {}
    <2>1. Met \ {MainPlace} = {}
      BY <1>2
    <2>2. EnabledAt({}) = {}
      BY EnabledOfMore
    <2> QED BY <1>4, <2>1, <2>2
  <1>6. stanza = NoStanza /\ key = NoKey /\ StanzaSoFar(main.lines, 1, 0)
    BY NoStanzaSoFar DEF Init
  <1>7. Noted(EnabledAt(Met \ {MainPlace})
                 \cup {e \in EnabledIn(MainPlace, main) : e.at[2] < 1})
    <2>1. FactsAre(EnabledAt(Met \ {MainPlace}) \cup Before(MainPlace, main, 1),
                   seen, thirdParty, duplicates)
      BY <1>5, NoFacts DEF Init
    <2> QED BY <2>1, NotedIs DEF Before
  <1>8. InFile(MainPlace, 0, 1)
    BY <1>2, <1>4, <1>6, <1>7 DEF InFile
  <1>9. Types
    <2>1. <<>> \in Seq(Seq(Words)) /\ DOMAIN NoStanza = {}
      BY DEF NoStanza
    <2> QED BY <2>1 DEF Init, Types
  <1>10. 0 \in 0 .. Len(FileAt(MainPlace).lines) /\ 1 \in 1 .. 0 + 1 /\ MainPlace \in Met
    BY <1>2, <1>3
  <1> QED BY <1>8, <1>9, <1>10 DEF IInv

LEMMA StandingStill ==
    ASSUME IInv, UNCHANGED vars
    PROVE  IInv'
  <1>1. /\ UNCHANGED <<main, dir, unread, current, stanza, key>>
        /\ UNCHANGED <<seen, thirdParty, duplicates>>
    BY DEF vars, facts
  <1>2. /\ Met' = Met
        /\ \A place : FileAt(place)' = FileAt(place)
        /\ \A places : EnabledAt(places)' = EnabledAt(places)
    BY <1>1, FilesStay DEF Met
  <1>3. \A sources : Noted(sources)' <=> Noted(sources)
    BY <1>1 DEF Noted
  <1>4. Types'
    BY <1>1 DEF IInv, Types
  <1>5. ASSUME BetweenFiles PROVE BetweenFiles'
    <2>1. EnabledAt(Met)' = EnabledAt(Met)
      BY <1>2
    <2>2. Noted(EnabledAt(Met))'
      BY <1>3, <1>5, <2>1 DEF BetweenFiles
    <2> QED BY <1>1, <1>5, <2>2 DEF BetweenFiles
  <1>6. ASSUME NEW place \in Met, NEW n \in 0 .. Len(FileAt(place).lines), NEW s \in 1 .. n + 1,
               InFile(place, n, s)
        PROVE  InFile(place, n, s)'
    <2>1. PICK file : file = FileAt(place)
      OBVIOUS
    <2>2. FileAt(place)' = file /\ EnabledAt(Met \ {place})' = EnabledAt(Met \ {place})
      BY <1>2, <2>1
    <2>3. Noted(EnabledAt(Met \ {place}) \cup {e \in EnabledIn(place, file) : e.at[2] < s})'
      BY <1>3, <1>6, <2>1, <2>2 DEF InFile
    <2>4. StanzaSoFar(file.lines, s, n) => StanzaSoFar(file.lines, s, n)'
      BY <1>1 DEF StanzaSoFar, FieldOrNothing
    <2> QED BY <1>1, <1>6, <2>1, <2>2, <2>3, <2>4 DEF InFile
  <1>7. CASE BetweenFiles
    BY <1>4, <1>5, <1>7 DEF IInv
  <1>8. CASE \E place \in Met : \E n \in 0 .. Len(FileAt(place).lines) : \E s \in 1 .. n + 1 :
                InFile(place, n, s)
    <2>1. PICK place \in Met : \E n \in 0 .. Len(FileAt(place).lines) : \E s \in 1 .. n + 1 :
             InFile(place, n, s)
      BY <1>8
    <2>2. PICK n \in 0 .. Len(FileAt(place).lines) : \E s \in 1 .. n + 1 : InFile(place, n, s)
      BY <2>1
    <2>3. PICK s \in 1 .. n + 1 : InFile(place, n, s)
      BY <2>2
    <2>4. InFile(place, n, s)'
      BY <1>6, <2>3
    <2>5. place \in Met' /\ n \in 0 .. Len(FileAt(place)'.lines)
      BY <1>2
    <2> QED BY <1>4, <2>4, <2>5 DEF IInv
  <1> QED BY <1>7, <1>8 DEF IInv

(* A file that is open is not the idle one, and has somewhere its place.   *)
LEMMA OpenFile ==
    ASSUME Given, NEW place \in Met, NEW n, NEW s, InFile(place, n, s)
    PROVE  current # Idle /\ current.format \in {"list", "sources"}
  <1>1. current.format \in {"list", "sources"}
    BY FilesOfPlaces DEF InFile, Met
  <1>2. Idle.format = "none"
    BY DEF Idle
  <1> QED BY <1>1, <1>2

LEMMA NextKeeps ==
    ASSUME Given, IInv, Next
    PROVE  IInv'
  <1>1. Types
    BY DEF IInv
  <1>2. CASE BetweenFiles
    <2>1. current.format = "none" /\ current = Idle
      BY <1>2 DEF BetweenFiles, Idle
    <2>2. NextFile \/ UNCHANGED vars
      BY <2>1 DEF Next, InspectLine, ReadStanzaLine, EndFile, Terminated
    <2> QED BY <1>1, <1>2, <2>2, NextFileKeeps, StandingStill
  <1>3. ASSUME NEW place \in Met, NEW n \in 0 .. Len(FileAt(place).lines), NEW s \in 1 .. n + 1,
               InFile(place, n, s)
        PROVE  IInv'
    <2>1. current # Idle
      BY <1>3, OpenFile
    <2>2. InspectLine \/ ReadStanzaLine \/ EndFile
      BY <2>1 DEF Next, NextFile, Terminated, Done
    <2> QED BY <1>1, <1>3, <2>2, InspectLineKeeps, ReadStanzaLineKeeps, EndFileKeeps
  <1> QED BY <1>2, <1>3 DEF IInv

-----------------------------------------------------------------------------
(* Theorems                                                                *)

(* At every step the facts are those of the files and stanzas behind, and  *)
(* the open stanza is what the lines since its beginning say.              *)
THEOREM SourcesInvariance == Spec => []IInv
  <1>1. Init => IInv
    BY InitiallyIInv
  <1>2. Given /\ IInv /\ [Next]_vars => IInv'
    BY NextKeeps, StandingStill
  <1>3. Spec => []Given
    BY GivenRemains
  <1> QED BY <1>1, <1>2, <1>3, PTL DEF Spec

(* The fields, the open key and the facts have their types, and nothing is *)
(* reported that was not met.                                              *)
THEOREM SourcesTypeCorrect == Spec => []TypeOK
  <1>1. IInv => TypeOK
    <2> SUFFICES ASSUME IInv PROVE TypeOK
      OBVIOUS
    <2>1. Types
      BY DEF IInv
    <2>2. \E sources : Noted(sources)
      BY DEF IInv, BetweenFiles, InFile
    <2>3. ToSet(duplicates) \cup ToSet(thirdParty) \subseteq seen
      BY <2>2 DEF Noted
    <2> QED BY <2>1, <2>3 DEF Types, TypeOK
  <1> QED BY <1>1, SourcesInvariance, PTL

(* When the last file was read, every enabled source was noted.            *)
LEMMA AllNoted ==
    ASSUME Given, IInv, Done
    PROVE  Noted(Enabled)
  <1>1. BetweenFiles
    <2>1. ASSUME NEW place \in Met, NEW n, NEW s, InFile(place, n, s) PROVE FALSE
      BY <2>1, OpenFile DEF Done
    <2> QED BY <2>1 DEF IInv
  <1>2. Met = Places
    BY DEF Done, Met
  <1> QED BY <1>1, <1>2 DEF BetweenFiles, Enabled

(* third_party_sources: exactly the words of the enabled sources outside   *)
(* Ubuntu, whatever the files and the order of the directory.              *)
THEOREM ThirdPartyReported == Spec => []ThirdPartyExact
  <1>1. Given /\ IInv => ThirdPartyExact
    <2> SUFFICES ASSUME Given, IInv, Done
                 PROVE  ToSet(thirdParty) =
                           {s.words : s \in {e \in Enabled : ThirdParty(e.words)}}
      BY DEF ThirdPartyExact
    <2>1. Noted(Enabled)
      BY AllNoted
    <2> QED BY <2>1 DEF Noted
  <1> QED BY <1>1, SourcesInvariance, GivenRemains, PTL

(* duplicate_sources: once for each enabled source beyond the first of its *)
(* kind, in any file, and none of anything else.                           *)
THEOREM DuplicatesReported == Spec => []DuplicatesExact
  <1>1. Given /\ IInv => DuplicatesExact
    <2> SUFFICES ASSUME Given, IInv, Done,
                        NEW words \in {e.words : e \in Enabled} \cup ToSet(duplicates)
                 PROVE  Cardinality({e \in Enabled : e.words = words}) =
                           1 + Cardinality({i \in DOMAIN duplicates : duplicates[i] = words})
      BY DEF DuplicatesExact
    <2>1. Noted(Enabled)
      BY AllNoted
    <2>2. words \in seen
      BY <2>1 DEF Noted
    <2> QED BY <2>1, <2>2 DEF Noted
  <1> QED BY <1>1, SourcesInvariance, GivenRemains, PTL

=============================================================================
