--------------------------- MODULE CommandLineProofs ---------------------------
(***************************************************************************)
(* The option loop means what the line says, for lines of any length.      *)
(***************************************************************************)
EXTENDS CommandLine, LeastNumbers, SequenceTheorems, TLAPS

-----------------------------------------------------------------------------
(* The loop                                                                *)

(* The recursive definition defines a function: it is built word by word.  *)
LEMMA ReadingExists ==
    ASSUME NEW words, Len(words) \in Nat
    PROVE  Reading(words) =
              [k \in 0 .. Len(words) |->
                  IF k = 0 THEN Defaults ELSE ReadWord(words, Reading(words)[k - 1], k)]
  <1> DEFINE n == Len(words)
             Goes(g, m) ==
                g = [k \in 0 .. m |-> IF k = 0 THEN Defaults ELSE ReadWord(words, g[k - 1], k)]
             T == {m \in 0 .. n : \E g : Goes(g, m)}
  <1>1. 0 \in T
    <2>1. 0 .. 0 = {0}
      OBVIOUS
    <2>2. Goes([k \in 0 .. 0 |-> Defaults], 0)
      BY <2>1
    <2> HIDE DEF Goes
    <2> QED BY <2>2
  <1>2. ASSUME NEW m \in 0 .. n - 1, m \in T
        PROVE  m + 1 \in T
    <2>1. PICK g : Goes(g, m)
      BY <1>2
    <2> DEFINE h == [k \in 0 .. m + 1 |->
                        IF k = m + 1 THEN ReadWord(words, g[m], m + 1) ELSE g[k]]
    <2>2. \A k \in 0 .. m : h[k] = g[k]
      OBVIOUS
    <2>3. \A k \in 0 .. m + 1 :
             h[k] = IF k = 0 THEN Defaults ELSE ReadWord(words, h[k - 1], k)
      <3> SUFFICES ASSUME NEW k \in 0 .. m + 1
                   PROVE  h[k] = IF k = 0 THEN Defaults ELSE ReadWord(words, h[k - 1], k)
        OBVIOUS
      <3>1. CASE k = m + 1
        <4>1. k - 1 = m /\ k # 0 /\ h[m] = g[m] /\ h[k] = ReadWord(words, g[m], m + 1)
          BY <3>1, <2>2
        <4> QED BY <3>1, <4>1
      <3>2. CASE k \in 0 .. m
        <4>1. g[k] = IF k = 0 THEN Defaults ELSE ReadWord(words, g[k - 1], k)
          BY <2>1, <3>2
        <4>2. h[k] = g[k] /\ (k # 0 => h[k - 1] = g[k - 1])
          BY <2>2, <3>2
        <4> QED BY <4>1, <4>2
      <3> QED BY <3>1, <3>2
    <2>4. Goes(h, m + 1)
      <3> DEFINE r == [k \in 0 .. m + 1 |->
                          IF k = 0 THEN Defaults ELSE ReadWord(words, h[k - 1], k)]
      <3>1. \A k \in 0 .. m + 1 : h[k] = r[k]
        BY <2>3
      <3>2. h = r
        BY <3>1
      <3> QED BY <3>2
    <2>5. m + 1 \in 0 .. n
      OBVIOUS
    <2> HIDE DEF Goes, h, n
    <2> QED BY <2>4, <2>5
  <1>3. n \in T
    <2> HIDE DEF T
    <2>1. T \in SUBSET (0 .. n)
      BY DEF T
    <2> QED BY <1>1, <1>2, <2>1, UpTo
  <1>4. \E g : Goes(g, n)
    BY <1>3
  <1> QED BY <1>4 DEF Reading

-----------------------------------------------------------------------------
(* Words that are values                                                   *)

(* A word is a value if and only if the word before it takes one and is no *)
(* value itself.                                                           *)
LEMMA ValueFollows ==
    ASSUME NEW words, NEW k \in Nat \ {0}
    PROVE  IsValue(words, k + 1) <=> words[k] \in Valued /\ ~IsValue(words, k)
  <1> DEFINE Row(first, last) ==
                /\ \A j \in first .. last : words[j] \in Valued
                /\ first = 1 \/ words[first - 1] \notin Valued
  <1>1. IsValue(words, k + 1) <=>
           \E first \in 1 .. k : (k + 1 - first) % 2 = 1 /\ Row(first, k)
    BY DEF IsValue
  <1>2. IsValue(words, k) <=>
           \E first \in 1 .. k - 1 : (k - first) % 2 = 1 /\ Row(first, k - 1)
    BY DEF IsValue
  <1>3. ASSUME NEW f \in 1 .. k, NEW g \in 1 .. k - 1, Row(f, k), Row(g, k - 1)
        PROVE  f = g
    <2>1. ~(f < g)
      <3> SUFFICES ASSUME f < g PROVE FALSE
        OBVIOUS
      <3>1. g - 1 \in f .. k /\ g # 1
        OBVIOUS
      <3> QED BY <3>1, <1>3
    <2>2. ~(g < f)
      <3> SUFFICES ASSUME g < f PROVE FALSE
        OBVIOUS
      <3>1. f - 1 \in g .. k - 1 /\ f # 1
        OBVIOUS
      <3> QED BY <3>1, <1>3
    <2> QED BY <2>1, <2>2
  <1>4. ASSUME IsValue(words, k + 1) PROVE words[k] \in Valued /\ ~IsValue(words, k)
    <2> HIDE DEF Row
    <2>1. PICK f \in 1 .. k : (k + 1 - f) % 2 = 1 /\ Row(f, k)
      BY <1>1, <1>4
    <2>2. words[k] \in Valued
      <3>1. k \in f .. k
        OBVIOUS
      <3> QED BY <2>1, <3>1 DEF Row
    <2>3. ASSUME NEW g \in 1 .. k - 1, (k - g) % 2 = 1, Row(g, k - 1) PROVE FALSE
      <3>1. f = g
        BY <1>3, <2>1, <2>3
      <3> QED BY <2>1, <2>3, <3>1
    <2> QED BY <1>2, <2>2, <2>3
  <1>5. ASSUME words[k] \in Valued, ~IsValue(words, k) PROVE IsValue(words, k + 1)
    <2> DEFINE T == {f \in 1 .. k : \A j \in f .. k : words[j] \in Valued}
    <2>1. k \in T /\ T \in SUBSET Nat
      <3>1. k .. k = {k}
        OBVIOUS
      <3> QED BY <1>5, <3>1
    <2>2. PICK f \in T : \A g \in T : f <= g
      <3> HIDE DEF T
      <3> QED BY <2>1, LeastElement
    <2>3. f = 1 \/ words[f - 1] \notin Valued
      <3> SUFFICES ASSUME f # 1, words[f - 1] \in Valued PROVE FALSE
        OBVIOUS
      <3>1. f - 1 \in 1 .. k /\ \A j \in f - 1 .. k : j = f - 1 \/ j \in f .. k
        OBVIOUS
      <3>2. f - 1 \in T
        BY <3>1
      <3> QED BY <2>2, <3>2
    <2>4. Row(f, k)
      BY <2>3
    <2>5. CASE (k + 1 - f) % 2 = 1
      BY <1>1, <2>4, <2>5
    <2>6. CASE (k + 1 - f) % 2 # 1
      <3>1. (k - f) % 2 = 1
        BY <2>6
      <3>2. f \in 1 .. k - 1 /\ Row(f, k - 1)
        BY <2>4, <3>1
      <3> QED BY <1>2, <1>5, <3>1, <3>2
    <2> QED BY <2>5, <2>6
  <1> QED BY <1>4, <1>5

LEMMA FirstIsNoValue == \A words : ~IsValue(words, 1)
  BY DEF IsValue

-----------------------------------------------------------------------------
(* What has been read after k words                                        *)

OK(words, k) ==
    \/ IsValue(words, k)
    \/ words[k] \in Flags
    \/ words[k] \in Valued /\ k < Len(words)

GivenBefore(words, flag, k) == \E j \in 1 .. k : words[j] = flag /\ ~IsValue(words, j)

ValuesBefore(words, option, k) ==
    {j \in 1 .. k : IsValue(words, j) /\ words[j - 1] = option}

LastValue(words, option, default, k, value) ==
    LET places == ValuesBefore(words, option, k)
    IN  IF places = {} THEN value = default
        ELSE \E m \in places : value = words[m] /\ \A j \in places : j <= m

(* A reading is right after k words.                                       *)
Reads(words, k, seen) ==
    /\ seen.legal <=> \A j \in 1 .. k : OK(words, j)
    /\ seen.legal =>
          /\ seen.waiting = IF k < Len(words) /\ IsValue(words, k + 1) THEN words[k] ELSE ""
          /\ seen.force <=> GivenBefore(words, "--force", k)
          /\ seen.verbose <=> GivenBefore(words, "--verbose", k)
          /\ LastValue(words, "--target", "26.04", k, seen.target)
          /\ LastValue(words, "--format", "text", k, seen.format)
          /\ LastValue(words, "--output", "", k, seen.output)

Readings(words) ==
    LET texts == {words[k] : k \in 1 .. Len(words)} \cup {"26.04", "text", ""}
    IN  [target : texts, format : texts, output : texts, force : BOOLEAN,
         verbose : BOOLEAN, waiting : Valued \cup {""}, legal : BOOLEAN]

LEMMA ValueStored ==
    ASSUME NEW words, NEW k \in Nat \ {0}, NEW option, NEW default,
           IsValue(words, k), words[k - 1] = option
    PROVE  LastValue(words, option, default, k, words[k])
  <1>1. k \in ValuesBefore(words, option, k)
    BY DEF ValuesBefore
  <1>2. \A j \in ValuesBefore(words, option, k) : j <= k
    BY DEF ValuesBefore
  <1> QED BY <1>1, <1>2 DEF LastValue

LEMMA ValueKept ==
    ASSUME NEW words, NEW k \in Nat \ {0}, NEW option, NEW default, NEW value,
           ~(IsValue(words, k) /\ words[k - 1] = option),
           LastValue(words, option, default, k - 1, value)
    PROVE  LastValue(words, option, default, k, value)
  <1>1. ValuesBefore(words, option, k) = ValuesBefore(words, option, k - 1)
    BY DEF ValuesBefore
  <1> QED BY <1>1 DEF LastValue

LEMMA FlagRead ==
    ASSUME NEW words, NEW k \in Nat \ {0}, NEW flag
    PROVE  GivenBefore(words, flag, k) <=>
              GivenBefore(words, flag, k - 1) \/ (words[k] = flag /\ ~IsValue(words, k))
  <1>1. \A j \in Nat : j \in 1 .. k <=> j \in 1 .. k - 1 \/ j = k
    OBVIOUS
  <1> QED BY <1>1 DEF GivenBefore

-----------------------------------------------------------------------------
(* The loop reads what is written                                          *)

LEMMA StartReads ==
    ASSUME NEW words, Len(words) \in Nat
    PROVE  Defaults \in Readings(words) /\ Reads(words, 0, Defaults)
  <1>1. 1 .. 0 = {}
    OBVIOUS
  <1>2. Defaults \in Readings(words)
    BY DEF Defaults, Readings
  <1>3. \A option : ValuesBefore(words, option, 0) = {}
    BY <1>1 DEF ValuesBefore
  <1>4. \A flag : ~GivenBefore(words, flag, 0)
    BY <1>1 DEF GivenBefore
  <1>5. ~IsValue(words, 0 + 1)
    <2>1. 0 + 1 = 1
      OBVIOUS
    <2> QED BY <2>1, FirstIsNoValue
  <1>6. /\ Defaults.legal /\ Defaults.waiting = "" /\ ~Defaults.force /\ ~Defaults.verbose
        /\ Defaults.target = "26.04" /\ Defaults.format = "text" /\ Defaults.output = ""
    BY DEF Defaults
  <1>7. \A j \in 1 .. 0 : OK(words, j)
    BY <1>1
  <1>8. /\ LastValue(words, "--target", "26.04", 0, Defaults.target)
        /\ LastValue(words, "--format", "text", 0, Defaults.format)
        /\ LastValue(words, "--output", "", 0, Defaults.output)
    BY <1>3, <1>6 DEF LastValue
  <1> QED BY <1>2, <1>4, <1>5, <1>6, <1>7, <1>8 DEF Reads

LEMMA StepReads ==
    ASSUME NEW words, Len(words) \in Nat, NEW k \in 1 .. Len(words),
           NEW seen \in Readings(words), Reads(words, k - 1, seen)
    PROVE  /\ ReadWord(words, seen, k) \in Readings(words)
           /\ Reads(words, k, ReadWord(words, seen, k))
  <1> DEFINE next == ReadWord(words, seen, k)
             texts == {words[j] : j \in 1 .. Len(words)} \cup {"26.04", "text", ""}
  <1>0. k \in Nat \ {0} /\ (k - 1) + 1 = k /\ k - 1 < Len(words) /\ words[k] \in texts
    <2>1. k \in Nat \ {0} /\ (k - 1) + 1 = k /\ k - 1 < Len(words)
      OBVIOUS
    <2>2. words[k] \in {words[j] : j \in 1 .. Len(words)}
      OBVIOUS
    <2> QED BY <2>1, <2>2
  <1>t. seen \in [target : texts, format : texts, output : texts, force : BOOLEAN,
                  verbose : BOOLEAN, waiting : Valued \cup {""}, legal : BOOLEAN]
    BY DEF Readings
  <1>1. (\A j \in 1 .. k : OK(words, j)) <=> (\A j \in 1 .. k - 1 : OK(words, j)) /\ OK(words, k)
    <2>1. \A j : j \in 1 .. k <=> j \in 1 .. k - 1 \/ j = k
      OBVIOUS
    <2> QED BY <2>1
  <1>2. IsValue(words, k + 1) <=> words[k] \in Valued /\ ~IsValue(words, k)
    BY <1>0, ValueFollows
  <1>3. IsValue(words, k) => words[k - 1] \in Valued
    <2>1. CASE k = 1
      BY <2>1, FirstIsNoValue
    <2>2. CASE k # 1
      <3>1. k - 1 \in Nat \ {0}
        BY <2>2
      <3> QED BY <1>0, <3>1, ValueFollows
    <2> QED BY <2>1, <2>2
  <1>4. "" \notin Valued /\ Valued \cap Flags = {}
    BY DEF Valued, Flags
  <1> HIDE DEF texts
  <1>5. CASE ~seen.legal
    <2>1. next = seen
      BY <1>5 DEF ReadWord
    <2> QED BY <1>1, <1>5, <2>1 DEF Reads
  <1>6. ASSUME seen.legal, IsValue(words, k)
        PROVE  next \in Readings(words) /\ Reads(words, k, next)
    <2>1. seen.waiting = words[k - 1] /\ words[k - 1] \in Valued /\ seen.waiting # ""
      BY <1>0, <1>3, <1>4, <1>6 DEF Reads
    <2>2. next = [Store(seen, words[k - 1], words[k]) EXCEPT !.waiting = ""]
      BY <1>6, <2>1 DEF ReadWord
    <2>3. words[k - 1] \in {"--target", "--format", "--output"}
      BY <2>1 DEF Valued
    <2>4. /\ next \in Readings(words)
          /\ next.legal /\ next.waiting = ""
          /\ next.force = seen.force /\ next.verbose = seen.verbose
          /\ next.target = IF words[k - 1] = "--target" THEN words[k] ELSE seen.target
          /\ next.format = IF words[k - 1] = "--format" THEN words[k] ELSE seen.format
          /\ next.output = IF words[k - 1] = "--output" THEN words[k] ELSE seen.output
      <3>1. CASE words[k - 1] = "--target"
        BY <1>0, <1>t, <1>6, <2>2, <3>1 DEF Store, Readings, texts
      <3>2. CASE words[k - 1] = "--format"
        BY <1>0, <1>t, <1>6, <2>2, <3>2 DEF Store, Readings, texts
      <3>3. CASE words[k - 1] = "--output"
        BY <1>0, <1>t, <1>6, <2>2, <3>3 DEF Store, Readings, texts
      <3> QED BY <2>3, <3>1, <3>2, <3>3
    <2>5. /\ LastValue(words, "--target", "26.04", k, next.target)
          /\ LastValue(words, "--format", "text", k, next.format)
          /\ LastValue(words, "--output", "", k, next.output)
      BY <1>0, <1>6, <2>4, ValueStored, ValueKept DEF Reads
    <2>6. \A flag : GivenBefore(words, flag, k) <=> GivenBefore(words, flag, k - 1)
      BY <1>0, <1>6, FlagRead
    <2>7. OK(words, k)
      BY <1>6 DEF OK
    <2> QED BY <1>1, <1>2, <1>6, <2>4, <2>5, <2>6, <2>7 DEF Reads
  <1>7. ASSUME seen.legal, ~IsValue(words, k)
        PROVE  next \in Readings(words) /\ Reads(words, k, next)
    <2>1. seen.waiting = ""
      BY <1>0, <1>7 DEF Reads
    <2>2. \A value :
             /\ LastValue(words, "--target", "26.04", k - 1, value)
                   => LastValue(words, "--target", "26.04", k, value)
             /\ LastValue(words, "--format", "text", k - 1, value)
                   => LastValue(words, "--format", "text", k, value)
             /\ LastValue(words, "--output", "", k - 1, value)
                   => LastValue(words, "--output", "", k, value)
      BY <1>0, <1>7, ValueKept
    <2>3. \A flag : GivenBefore(words, flag, k)
                       <=> GivenBefore(words, flag, k - 1) \/ words[k] = flag
      BY <1>0, <1>7, FlagRead
    <2>4. CASE words[k] \in Valued /\ k < Len(words)
      <3>1. next = [seen EXCEPT !.waiting = words[k]]
        BY <1>7, <2>1, <2>4 DEF ReadWord
      <3>2. /\ next \in Readings(words) /\ next.legal /\ next.waiting = words[k]
            /\ next.force = seen.force /\ next.verbose = seen.verbose
            /\ next.target = seen.target /\ next.format = seen.format
            /\ next.output = seen.output
        BY <1>t, <1>7, <2>4, <3>1 DEF Readings, texts
      <3>3. words[k] # "--force" /\ words[k] # "--verbose" /\ OK(words, k)
        BY <2>4 DEF Valued, OK
      <3> QED BY <1>1, <1>2, <1>7, <2>2, <2>3, <2>4, <3>2, <3>3 DEF Reads
    <2>5. CASE words[k] \in Flags
      <3>1. next = [seen EXCEPT !.force = @ \/ words[k] = "--force",
                                !.verbose = @ \/ words[k] = "--verbose"]
        BY <1>4, <1>7, <2>1, <2>5 DEF ReadWord
      <3>2. /\ next \in Readings(words) /\ next.legal /\ next.waiting = ""
            /\ next.force <=> seen.force \/ words[k] = "--force"
            /\ next.verbose <=> seen.verbose \/ words[k] = "--verbose"
            /\ next.target = seen.target /\ next.format = seen.format
            /\ next.output = seen.output
        BY <1>t, <1>7, <2>1, <3>1 DEF Readings, texts
      <3>3. words[k] \notin Valued /\ OK(words, k)
        BY <1>4, <2>5 DEF OK
      <3> QED BY <1>1, <1>2, <1>7, <2>2, <2>3, <3>2, <3>3 DEF Reads
    <2>6. CASE ~(words[k] \in Valued /\ k < Len(words)) /\ words[k] \notin Flags
      <3>1. next = [seen EXCEPT !.legal = FALSE]
        BY <1>7, <2>1, <2>6 DEF ReadWord
      <3>2. next \in Readings(words) /\ ~next.legal
        BY <1>t, <3>1 DEF Readings, texts
      <3>3. ~OK(words, k)
        BY <1>7, <2>6 DEF OK
      <3> QED BY <1>1, <3>2, <3>3 DEF Reads
    <2> QED BY <2>4, <2>5, <2>6
  <1> QED BY <1>5, <1>6, <1>7

LEMMA AlwaysReads ==
    ASSUME NEW words, Len(words) \in Nat
    PROVE  ReadOptions(words) \in Readings(words) /\ Reads(words, Len(words), ReadOptions(words))
  <1> DEFINE n == Len(words)
             read == Reading(words)
             T == {k \in 0 .. n : read[k] \in Readings(words) /\ Reads(words, k, read[k])}
  <1>1. read = [k \in 0 .. n |-> IF k = 0 THEN Defaults ELSE ReadWord(words, read[k - 1], k)]
    BY ReadingExists
  <1>2. read[0] = Defaults /\ \A k \in 1 .. n : read[k] = ReadWord(words, read[k - 1], k)
    <2> HIDE DEF read
    <2> QED BY <1>1
  <1>3. 0 \in T
    BY <1>2, StartReads
  <1>4. ASSUME NEW k \in 0 .. n - 1, k \in T PROVE k + 1 \in T
    <2>1. k + 1 \in 1 .. n /\ (k + 1) - 1 = k
      OBVIOUS
    <2>2. read[k + 1] = ReadWord(words, read[k], k + 1)
      BY <1>2, <2>1
    <2>3. read[k] \in Readings(words) /\ Reads(words, (k + 1) - 1, read[k])
      BY <1>4, <2>1
    <2> HIDE DEF read
    <2>4. /\ ReadWord(words, read[k], k + 1) \in Readings(words)
          /\ Reads(words, k + 1, ReadWord(words, read[k], k + 1))
      BY <2>1, <2>3, StepReads
    <2> QED BY <2>1, <2>2, <2>4
  <1>5. T = 0 .. n
    <2> HIDE DEF T
    <2>1. T \in SUBSET (0 .. n)
      BY DEF T
    <2> QED BY <1>3, <1>4, <2>1, UpTo
  <1>6. n \in T
    BY <1>5
  <1> QED BY <1>6 DEF ReadOptions

(* The last value that was stored is the value of the option.              *)
LEMMA LastValueIsValue ==
    ASSUME NEW words \in Seq(STRING), NEW option, NEW default, NEW value,
           LastValue(words, option, default, Len(words), value)
    PROVE  value = Value(words, option, default)
  <1>1. ValuesBefore(words, option, Len(words)) = ValuesOf(words, option)
    BY DEF ValuesBefore, ValuesOf
  <1>2. CASE ValuesOf(words, option) = {}
    BY <1>1, <1>2 DEF LastValue, Value
  <1>3. CASE ValuesOf(words, option) # {}
    <2> DEFINE places == ValuesOf(words, option)
               Latest(m) == \A j \in places : j <= m
    <2>1. PICK m \in places : value = words[m] /\ Latest(m)
      BY <1>1, <1>3 DEF LastValue
    <2>2. \A l, r \in places : Latest(l) /\ Latest(r) => l = r
      <3>1. places \subseteq Nat
        BY DEF ValuesOf
      <3> QED BY <3>1
    <2> HIDE DEF Latest
    <2>3. (CHOOSE l \in places : Latest(l)) = m
      BY <2>1, <2>2
    <2>4. Value(words, option, default) = words[CHOOSE l \in places : Latest(l)]
      BY <1>3, Zenon DEF Value, Latest
    <2> QED BY <2>1, <2>3, <2>4
  <1> QED BY <1>2, <1>3

(* CliApplication's option loop, for every line: it is content with exactly*)
(* the lines in which every word is an option or the value of one, and then*)
(* has each option as the line as a whole gives it.                        *)
THEOREM LoopReadsLine ==
    ASSUME NEW words \in Seq(STRING)
    PROVE  LET seen == ReadOptions(words)
           IN  /\ seen \in Readings(words)
               /\ seen.legal <=> Understood(words)
               /\ seen.legal =>
                     /\ seen.target = Value(words, "--target", "26.04")
                     /\ seen.format = Value(words, "--format", "text")
                     /\ seen.output = Value(words, "--output", "")
                     /\ seen.force = Given(words, "--force")
                     /\ seen.verbose = Given(words, "--verbose")
  <1> DEFINE seen == ReadOptions(words)
  <1>1. Len(words) \in Nat /\ DOMAIN words = 1 .. Len(words)
    OBVIOUS
  <1>2. seen \in Readings(words) /\ Reads(words, Len(words), seen)
    BY <1>1, AlwaysReads
  <1>3. seen.legal \in BOOLEAN /\ seen.force \in BOOLEAN /\ seen.verbose \in BOOLEAN
    BY <1>2 DEF Readings
  <1> HIDE DEF seen
  <1>4. seen.legal <=> Understood(words)
    BY <1>1, <1>2 DEF Reads, Understood, OK
  <1>5. \A flag : GivenBefore(words, flag, Len(words)) <=> Given(words, flag)
    BY <1>1 DEF GivenBefore, Given, IsOption
  <1>6. ASSUME seen.legal
        PROVE  /\ seen.target = Value(words, "--target", "26.04")
               /\ seen.format = Value(words, "--format", "text")
               /\ seen.output = Value(words, "--output", "")
    BY <1>2, <1>6, LastValueIsValue DEF Reads
  <1>7. ASSUME seen.legal
        PROVE  seen.force = Given(words, "--force") /\ seen.verbose = Given(words, "--verbose")
    <2>1. /\ seen.force <=> GivenBefore(words, "--force", Len(words))
          /\ seen.verbose <=> GivenBefore(words, "--verbose", Len(words))
      BY <1>2, <1>7 DEF Reads
    <2>2. Given(words, "--force") \in BOOLEAN /\ Given(words, "--verbose") \in BOOLEAN
      BY DEF Given
    <2> QED BY <1>3, <1>5, <2>1, <2>2
  <1> QED BY <1>2, <1>4, <1>6, <1>7 DEF seen

=============================================================================
