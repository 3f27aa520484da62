------------------------ MODULE SensorSettingsProofs ------------------------
(***************************************************************************)
(* Proofs about SensorSettings: a page that says it is busy has a task to  *)
(* end that, a load that nothing disturbed shows the registers, a register *)
(* holds a byte, and a click that nothing disturbed has done what it says. *)
(*                                                                         *)
(* All rest on which calls a load and a click make, so on what FlattenSeq  *)
(* and Kept build from the tables of fields.  What FlattenSeq returns is   *)
(* proved by taking the least place at which it would be something else.   *)
(* That a click has done what it says rests also on the bytes of each row, *)
(* on the order of the calls, and on that no call undoes an earlier one.   *)
(***************************************************************************)
EXTENDS SensorSettings, SequenceTheorems, WellFoundedInduction, TLAPS

\* A set of naturals has a least element.
LEMMA LeastExists ==
  ASSUME NEW S, S \subseteq Nat, S # {}
  PROVE  \E i \in S : \A j \in S : i <= j
  <1>1. PICK i \in S : \A j \in S : ~ (<<j, i>> \in OpToRel(<, Nat))
    BY Zenon, NatLessThanWellFounded, WFMin
  <1>2. ASSUME NEW j \in S PROVE i <= j
    <2>1. i \in Nat /\ j \in Nat  OBVIOUS
    <2>2. j < i => <<j, i>> \in OpToRel(<, Nat)  BY <2>1 DEF OpToRel
    <2>3. ~ (j < i)  BY Zenon, <1>1, <2>2
    <2>4. QED  BY <2>1, <2>3
  <1>3. QED  BY <1>2

\* The sequences that FlattenSeq builds, one by one.
Joined(f, seqs, n) ==
  \A i \in 1 .. n : f[i] = IF i = 1 THEN seqs[i] ELSE f[i - 1] \o seqs[i]

\* They exist.
LEMMA JoinedExists ==
  ASSUME NEW S, NEW seqs \in Seq(Seq(S)), NEW n \in 1 .. Len(seqs)
  PROVE  \E f \in [1 .. n -> Seq(S)] : Joined(f, seqs, n)
  <1> DEFINE Has(m) == \E f \in [1 .. m -> Seq(S)] : Joined(f, seqs, m)
             bad == {m \in 1 .. Len(seqs) : ~Has(m)}
  <1>1. Len(seqs) \in Nat /\ \A i \in 1 .. Len(seqs) : seqs[i] \in Seq(S)
    BY LenProperties, ElementOfSeq
  <1>2. SUFFICES ASSUME bad # {} PROVE FALSE
    OBVIOUS
  <1>3. bad \subseteq Nat  BY <1>1
  <1>4. PICK m \in bad : \A k \in bad : m <= k
    <2> HIDE DEF bad
    <2>1. QED  BY <1>2, <1>3, LeastExists
  <1>5. m \in Nat /\ m >= 1 /\ m <= Len(seqs) /\ ~Has(m)  BY <1>1, <1>4
  <1>6. CASE m = 1
    <2> DEFINE f == [i \in 1 .. 1 |-> seqs[1]]
    <2>1. f \in [1 .. 1 -> Seq(S)]  BY <1>1, <1>5
    <2>2. Joined(f, seqs, 1)  BY DEF Joined
    <2>3. QED  BY <1>5, <1>6, <2>1, <2>2
  <1>7. CASE m # 1
    <2>1. m - 1 \in 1 .. Len(seqs) /\ ~ (m <= m - 1)  BY <1>1, <1>5, <1>7
    <2>2. Has(m - 1)
      <3>1. m - 1 \notin bad  BY <1>4, <2>1
      <3>2. QED  BY <2>1, <3>1
    <2>3. PICK f \in [1 .. m - 1 -> Seq(S)] : Joined(f, seqs, m - 1)
      BY <2>2
    <2> DEFINE g == [i \in 1 .. m |-> IF i = m THEN f[m - 1] \o seqs[m] ELSE f[i]]
    <2>4. f[m - 1] \in Seq(S) /\ seqs[m] \in Seq(S)
      BY <1>1, <1>5, <2>1, <2>3
    <2>5. f[m - 1] \o seqs[m] \in Seq(S)
      BY <2>4, ConcatProperties
    <2>6. g \in [1 .. m -> Seq(S)]  BY <1>5, <2>3, <2>5
    <2>7. Joined(g, seqs, m)
      <3> SUFFICES ASSUME NEW i \in 1 .. m
                   PROVE  g[i] = IF i = 1 THEN seqs[i] ELSE g[i - 1] \o seqs[i]
        BY DEF Joined
      <3>1. CASE i = m
        <4>1. m - 1 \in 1 .. m /\ m - 1 # m /\ m \in 1 .. m  BY <1>5, <2>1
        <4>2. g[m - 1] = f[m - 1] /\ g[m] = f[m - 1] \o seqs[m]  BY <4>1
        <4>3. QED  BY <1>7, <3>1, <4>2
      <3>2. CASE i # m
        <4>1. i \in 1 .. m - 1 /\ (i # 1 => i - 1 \in 1 .. m - 1)
          BY <1>5, <3>2
        <4>2. f[i] = IF i = 1 THEN seqs[i] ELSE f[i - 1] \o seqs[i]
          BY <2>3, <4>1 DEF Joined
        <4>3. g[i] = f[i]  BY <3>2
        <4>4. i # 1 => g[i - 1] = f[i - 1]  BY <1>5, <4>1
        <4>5. QED  BY <4>2, <4>3, <4>4
      <3>3. QED  BY <3>1, <3>2
    <2>8. QED  BY <1>5, <2>6, <2>7
  <1>8. QED  BY <1>6, <1>7

\* FlattenSeq is the last of them.
LEMMA FlattenJoins ==
  ASSUME NEW S, NEW seqs \in Seq(Seq(S)), Len(seqs) # 0
  PROVE  \E f : Joined(f, seqs, Len(seqs)) /\ FlattenSeq(seqs) = f[Len(seqs)]
  <1> DEFINE n == Len(seqs)
             Step(g) == [i \in 1 .. n |->
                           IF i = 1 THEN seqs[i] ELSE g[i - 1] \o seqs[i]]
  <1>1. n \in Nat /\ n \in 1 .. n  BY LenProperties
  <1>2. PICK f \in [1 .. n -> Seq(S)] : Joined(f, seqs, n)
    BY <1>1, JoinedExists
  <1>3. f = Step(f)  BY <1>2 DEF Joined
  <1> DEFINE flatten == CHOOSE g : g = Step(g)
  <1>4. flatten = Step(flatten)
    <2> HIDE DEF Step
    <2>1. QED  BY <1>3
  <1>5. FlattenSeq(seqs) = flatten[n]
    BY DEF FlattenSeq
  <1>6. Joined(flatten, seqs, n)
    <2> HIDE DEF flatten
    <2>1. QED  BY <1>4 DEF Joined
  <1>7. QED  BY <1>5, <1>6

\* The elements of a concatenation.
LEMMA RangeOfConcat ==
  ASSUME NEW S, NEW s \in Seq(S), NEW t \in Seq(S)
  PROVE  \A x : x \in Range(s \o t) <=> x \in Range(s) \/ x \in Range(t)
  <1>1. /\ Len(s) \in Nat /\ DOMAIN s = 1 .. Len(s)
        /\ Len(t) \in Nat /\ DOMAIN t = 1 .. Len(t)
    BY LenProperties
  <1>2. /\ DOMAIN (s \o t) = 1 .. Len(s) + Len(t)
        /\ \A i \in 1 .. Len(s) + Len(t) :
             (s \o t)[i] = IF i <= Len(s) THEN s[i] ELSE t[i - Len(s)]
    <2>1. s \o t \in Seq(S) /\ Len(s \o t) = Len(s) + Len(t)
      BY ConcatProperties
    <2>2. QED  BY <1>1, <2>1, ConcatProperties, LenProperties
  <1>3. ASSUME NEW x, x \in Range(s \o t)
        PROVE  x \in Range(s) \/ x \in Range(t)
    <2>1. PICK i \in 1 .. Len(s) + Len(t) : x = (s \o t)[i]
      BY <1>2, <1>3 DEF Range
    <2>2. CASE i <= Len(s)  BY <1>1, <1>2, <2>1, <2>2 DEF Range
    <2>3. CASE ~ (i <= Len(s))
      <3>1. i - Len(s) \in 1 .. Len(t)  BY <1>1, <2>3
      <3>2. QED  BY <1>1, <1>2, <2>1, <2>3, <3>1 DEF Range
    <2>4. QED  BY <2>2, <2>3
  <1>4. ASSUME NEW x, x \in Range(s) PROVE x \in Range(s \o t)
    <2>1. PICK i \in 1 .. Len(s) : x = s[i]  BY <1>1, <1>4 DEF Range
    <2>2. i \in 1 .. Len(s) + Len(t) /\ i <= Len(s)  BY <1>1
    <2>3. QED  BY <1>2, <2>1, <2>2 DEF Range
  <1>5. ASSUME NEW x, x \in Range(t) PROVE x \in Range(s \o t)
    <2>1. PICK i \in 1 .. Len(t) : x = t[i]  BY <1>1, <1>5 DEF Range
    <2>2. /\ i + Len(s) \in 1 .. Len(s) + Len(t) /\ ~ (i + Len(s) <= Len(s))
          /\ i + Len(s) - Len(s) = i
      BY <1>1
    <2>3. QED  BY <1>2, <2>1, <2>2 DEF Range
  <1>6. QED  BY <1>3, <1>4, <1>5

\* FlattenSeq gives a sequence of all that is in its parts.
LEMMA FlattenIs ==
  ASSUME NEW S, NEW seqs \in Seq(Seq(S))
  PROVE  /\ FlattenSeq(seqs) \in Seq(S)
         /\ \A x : x \in Range(FlattenSeq(seqs))
                     <=> \E i \in DOMAIN seqs : x \in Range(seqs[i])
  <1> DEFINE n == Len(seqs)
  <1>1. n \in Nat /\ DOMAIN seqs = 1 .. n /\ \A i \in 1 .. n : seqs[i] \in Seq(S)
    BY LenProperties, ElementOfSeq
  <1>2. CASE n = 0
    <2>1. seqs = << >> /\ DOMAIN seqs = {}  BY <1>1, <1>2, EmptySeq
    <2>2. FlattenSeq(seqs) = << >>  BY <1>2, <2>1 DEF FlattenSeq
    <2>3. << >> \in Seq(S) /\ Range(<< >>) = {}  BY EmptySeq DEF Range
    <2>4. QED  BY <2>1, <2>2, <2>3
  <1>3. CASE n # 0
    <2>1. PICK f : Joined(f, seqs, n) /\ FlattenSeq(seqs) = f[n]
      BY <1>3, FlattenJoins
    <2> DEFINE Is(m) == /\ f[m] \in Seq(S)
                        /\ \A x : x \in Range(f[m])
                                    <=> \E i \in 1 .. m : x \in Range(seqs[i])
               bad == {m \in 1 .. n : ~Is(m)}
    <2>2. ASSUME bad # {} PROVE FALSE
      <3>1. bad \subseteq Nat  BY <1>1
      <3>2. PICK m \in bad : \A k \in bad : m <= k
        <4> HIDE DEF bad
        <4>1. QED  BY <2>2, <3>1, LeastExists
      <3>3. m \in Nat /\ m >= 1 /\ m <= n /\ m \in 1 .. n /\ ~Is(m)
        BY <1>1, <3>2
      <3>4. CASE m = 1
        <4>1. f[1] = seqs[1]  BY <2>1, <3>3, <3>4 DEF Joined
        <4>2. 1 .. 1 = {1}  OBVIOUS
        <4>3. Is(1)  BY <1>1, <3>3, <3>4, <4>1, <4>2
        <4>4. QED  BY <3>3, <3>4, <4>3
      <3>5. CASE m # 1
        <4>1. m - 1 \in 1 .. n /\ ~ (m <= m - 1) /\ m - 1 \in Nat
          BY <1>1, <3>3, <3>5
        <4>2. Is(m - 1)
          <5>1. m - 1 \notin bad  BY <3>2, <4>1
          <5>2. QED  BY <4>1, <5>1
        <4>3. f[m] = f[m - 1] \o seqs[m]  BY <2>1, <3>3, <3>5 DEF Joined
        <4>4. seqs[m] \in Seq(S) /\ f[m - 1] \in Seq(S)  BY <1>1, <3>3, <4>2
        <4>5. f[m] \in Seq(S)  BY <4>3, <4>4, ConcatProperties
        <4>6. \A x : x \in Range(f[m])
                       <=> x \in Range(f[m - 1]) \/ x \in Range(seqs[m])
          BY <4>3, <4>4, RangeOfConcat
        <4>7. \A i : i \in 1 .. m <=> i \in 1 .. m - 1 \/ i = m
          BY <3>3, <4>1
        <4>8. \A x : x \in Range(f[m])
                       <=> \E i \in 1 .. m : x \in Range(seqs[i])
          BY <4>2, <4>6, <4>7
        <4>9. QED  BY <3>3, <4>5, <4>8
      <3>6. QED  BY <3>4, <3>5
    <2>3. n \in 1 .. n  BY <1>1, <1>3
    <2>4. Is(n)  BY <2>2, <2>3
    <2>5. QED  BY <1>1, <2>1, <2>4
  <1>4. QED  BY <1>2, <1>3

(***************************************************************************)
(* The tables and the calls.                                               *)
(***************************************************************************)
Address == Nat \X Nat

Placed(x) == x.at \in Seq(Address) /\ Len(x.at) > 0

\* A table of fields: each has a place for every byte.
Table(fields) ==
  fields \in Seq(Range(fields)) /\ \A x \in Range(fields) : Placed(x)

\* A name stands for one field.
Named(fields) ==
  \A x, y \in Range(fields) : x.name # "sync" /\ (x.name = y.name => x = y)

\* The places of a row of a table, whatever addresses it lists.
LEMMA Places ==
  ASSUME NEW bank \in Nat, NEW addrs \in Seq(Nat), Len(addrs) > 0
  PROVE  /\ [i \in DOMAIN addrs |-> <<bank, addrs[i]>>] \in Seq(Address)
         /\ Len([i \in DOMAIN addrs |-> <<bank, addrs[i]>>]) > 0
  <1> DEFINE at == [i \in DOMAIN addrs |-> <<bank, addrs[i]>>]
  <1>1. DOMAIN addrs = 1 .. Len(addrs) /\ Len(addrs) \in Nat
        /\ \A i \in DOMAIN addrs : addrs[i] \in Nat
    BY LenProperties, ElementOfSeq
  <1>2. at \in [1 .. Len(addrs) -> Address]  BY <1>1 DEF Address
  <1>3. at \in Seq(Address)  BY <1>1, <1>2, SeqDef
  <1>4. 1 .. Len(at) = 1 .. Len(addrs) /\ Len(at) \in Nat
    BY <1>1, <1>2, <1>3, LenProperties
  <1>5. QED  BY <1>1, <1>3, <1>4

\* So every row that Read and Write make has its places.
LEMMA ReadOne ==
  ASSUME NEW name, NEW bank \in Nat, NEW a \in Nat
  PROVE  Placed(Read(name, bank, <<a>>))
  <1>1. <<a>> \in Seq(Nat) /\ Len(<<a>>) > 0  OBVIOUS
  <1>2. ASSUME NEW addrs \in Seq(Nat), Len(addrs) > 0
        PROVE  Placed(Read(name, bank, addrs))
    BY <1>2, Places DEF Read, Placed
  <1>3. QED  BY <1>1, <1>2

LEMMA ReadTwo ==
  ASSUME NEW name, NEW bank \in Nat, NEW a \in Nat, NEW b \in Nat
  PROVE  Placed(Read(name, bank, <<a, b>>))
  <1>1. <<a, b>> \in Seq(Nat) /\ Len(<<a, b>>) > 0  OBVIOUS
  <1>2. ASSUME NEW addrs \in Seq(Nat), Len(addrs) > 0
        PROVE  Placed(Read(name, bank, addrs))
    BY <1>2, Places DEF Read, Placed
  <1>3. QED  BY <1>1, <1>2

LEMMA ReadThree ==
  ASSUME NEW name, NEW bank \in Nat, NEW a \in Nat, NEW b \in Nat, NEW c \in Nat
  PROVE  Placed(Read(name, bank, <<a, b, c>>))
  <1>1. <<a, b, c>> \in Seq(Nat) /\ Len(<<a, b, c>>) > 0  OBVIOUS
  <1>2. ASSUME NEW addrs \in Seq(Nat), Len(addrs) > 0
        PROVE  Placed(Read(name, bank, addrs))
    BY <1>2, Places DEF Read, Placed
  <1>3. QED  BY <1>1, <1>2

LEMMA WriteOne ==
  ASSUME NEW name, NEW bank \in Nat, NEW a \in Nat, NEW width, NEW default
  PROVE  Placed(Write(name, bank, <<a>>, width, default))
  <1>1. <<a>> \in Seq(Nat) /\ Len(<<a>>) > 0  OBVIOUS
  <1>2. ASSUME NEW addrs \in Seq(Nat), Len(addrs) > 0
        PROVE  Placed(Write(name, bank, addrs, width, default))
    BY <1>2, Places DEF Write, Placed
  <1>3. QED  BY <1>1, <1>2

LEMMA WriteTwo ==
  ASSUME NEW name, NEW bank \in Nat, NEW a \in Nat, NEW b \in Nat,
         NEW width, NEW default
  PROVE  Placed(Write(name, bank, <<a, b>>, width, default))
  <1>1. <<a, b>> \in Seq(Nat) /\ Len(<<a, b>>) > 0  OBVIOUS
  <1>2. ASSUME NEW addrs \in Seq(Nat), Len(addrs) > 0
        PROVE  Placed(Write(name, bank, addrs, width, default))
    BY <1>2, Places DEF Write, Placed
  <1>3. QED  BY <1>1, <1>2

LEMMA WriteThree ==
  ASSUME NEW name, NEW bank \in Nat, NEW a \in Nat, NEW b \in Nat, NEW c \in Nat,
         NEW width, NEW default
  PROVE  Placed(Write(name, bank, <<a, b, c>>, width, default))
  <1>1. <<a, b, c>> \in Seq(Nat) /\ Len(<<a, b, c>>) > 0  OBVIOUS
  <1>2. ASSUME NEW addrs \in Seq(Nat), Len(addrs) > 0
        PROVE  Placed(Write(name, bank, addrs, width, default))
    BY <1>2, Places DEF Write, Placed
  <1>3. QED  BY <1>1, <1>2

\* The four tables.
LEMMA PajReadsTable == Table(PajReads) /\ Named(PajReads)
  <1>1. \A i \in 1 .. 12 : Placed(PajReads[i])
    BY ReadOne, ReadTwo, ReadThree, SMTT(60) DEF PajReads
  <1>2. PajReads \in Seq(Range(PajReads)) /\ DOMAIN PajReads = 1 .. 12
    BY SMTT(60) DEF PajReads, Range
  <1>3. \A x \in Range(PajReads) : Placed(x)  BY <1>1, <1>2 DEF Range
  <1>4. Named(PajReads)  BY SMTT(90) DEF PajReads, Read, Range, Named
  <1>5. QED  BY <1>2, <1>3, <1>4 DEF Table

LEMMA PagReadsTable == Table(PagReads) /\ Named(PagReads)
  <1>1. \A i \in 1 .. 6 : Placed(PagReads[i])
    BY ReadOne, ReadTwo, ReadThree, SMTT(60) DEF PagReads
  <1>2. PagReads \in Seq(Range(PagReads)) /\ DOMAIN PagReads = 1 .. 6
    BY SMTT(60) DEF PagReads, Range
  <1>3. \A x \in Range(PagReads) : Placed(x)  BY <1>1, <1>2 DEF Range
  <1>4. Named(PagReads)  BY SMTT(90) DEF PagReads, Read, Range, Named
  <1>5. QED  BY <1>2, <1>3, <1>4 DEF Table

LEMMA PajWritesTable == Table(PajWrites)
  <1>1. \A i \in 1 .. 14 : Placed(PajWrites[i])
    BY WriteOne, WriteTwo, WriteThree, SMTT(60) DEF PajWrites
  <1>2. PajWrites \in Seq(Range(PajWrites)) /\ DOMAIN PajWrites = 1 .. 14
    BY SMTT(60) DEF PajWrites, Range
  <1>3. \A x \in Range(PajWrites) : Placed(x)  BY <1>1, <1>2 DEF Range
  <1>4. QED  BY <1>2, <1>3 DEF Table

LEMMA PagWritesTable == Table(PagWrites)
  <1>1. \A i \in 1 .. 6 : Placed(PagWrites[i])
    BY WriteOne, WriteTwo, WriteThree, SMTT(60) DEF PagWrites
  <1>2. PagWrites \in Seq(Range(PagWrites)) /\ DOMAIN PagWrites = 1 .. 6
    BY SMTT(60) DEF PagWrites, Range
  <1>3. \A x \in Range(PagWrites) : Placed(x)  BY <1>1, <1>2 DEF Range
  <1>4. QED  BY <1>2, <1>3 DEF Table

(***************************************************************************)
(* The calls.                                                              *)
(***************************************************************************)
\* Kept keeps the rows of the session's fields.
LEMMA KeptIs ==
  ASSUME NEW s, NEW fields, Table(fields)
  PROVE  /\ Kept(s, fields) \in Seq(Range(fields))
         /\ Range(Kept(s, fields))
              = {x \in Range(fields) : x.name \in s.fields \cup {"sync"}}
  <1> DEFINE keeps(x) == x.name \in s.fields \cup {"sync"}
             parts == [i \in DOMAIN fields |->
                         IF keeps(fields[i]) THEN <<fields[i]>> ELSE << >>]
  <1>1. /\ DOMAIN fields = 1 .. Len(fields) /\ Len(fields) \in Nat
        /\ \A i \in DOMAIN fields : fields[i] \in Range(fields)
    BY LenProperties DEF Table, Range
  <1>2. \A x \in Range(fields) : <<x>> \in Seq(Range(fields)) /\ Range(<<x>>) = {x}
    BY DEF Range
  <1>3. << >> \in Seq(Range(fields)) /\ Range(<< >>) = {}
    BY EmptySeq DEF Range
  <1>4. parts \in [1 .. Len(fields) -> Seq(Range(fields))]
    BY <1>1, <1>2, <1>3
  <1>5. parts \in Seq(Seq(Range(fields)))
    BY <1>1, <1>4, SeqDef
  <1>6. Kept(s, fields) = FlattenSeq(parts)
    BY DEF Kept
  <1>7. \A i \in DOMAIN fields :
          Range(parts[i]) = IF keeps(fields[i]) THEN {fields[i]} ELSE {}
    BY <1>1, <1>2, <1>3
  <1>8. \A x : x \in Range(Kept(s, fields))
                 <=> \E i \in DOMAIN parts : x \in Range(parts[i])
    <2> HIDE DEF parts
    <2>1. QED  BY <1>5, <1>6, FlattenIs
  <1>9. \A x : x \in Range(Kept(s, fields)) <=> x \in Range(fields) /\ keeps(x)
    <2>1. \A x : x \in Range(Kept(s, fields))
                   <=> \E i \in DOMAIN fields : x = fields[i] /\ keeps(fields[i])
      <3>1. DOMAIN parts = DOMAIN fields  OBVIOUS
      <3>2. \A i \in DOMAIN fields : \A x :
              x \in Range(parts[i]) <=> x = fields[i] /\ keeps(fields[i])
        <4> HIDE DEF parts, keeps
        <4>1. QED  BY <1>7
      <3> HIDE DEF parts, keeps
      <3>3. QED  BY <1>8, <3>1, <3>2
    <2>2. QED  BY <2>1 DEF Range
  <1>10. Kept(s, fields) \in Seq(Range(fields))
    <2> HIDE DEF parts
    <2>1. QED  BY <1>5, <1>6, FlattenIs
  <1>11. QED  BY <1>9, <1>10

Register(p, i, j) == [op |-> "register", port |-> p, field |-> i, byte |-> j]

Call == [op : {"register", "flash"} \cup Range(General), port : Nat, field : Nat,
         byte : Nat]

\* A sequence of fields with their places.
Fields(fields) ==
  /\ Len(fields) \in Nat /\ DOMAIN fields = 1 .. Len(fields)
  /\ \A i \in DOMAIN fields : Placed(fields[i])

\* The calls of a section: one for every byte of every field.
LEMMA FlatIs ==
  ASSUME NEW fields, Fields(fields), NEW p \in Nat
  PROVE  /\ Flat(fields, p) \in Seq(Call)
         /\ \A x : x \in Range(Flat(fields, p))
              <=> \E i \in DOMAIN fields : \E j \in DOMAIN fields[i].at :
                    x = Register(p, i, j)
  <1> DEFINE part(i) == [j \in DOMAIN fields[i].at |->
                           [op |-> "register", port |-> p, field |-> i, byte |-> j]]
             parts == [i \in DOMAIN fields |-> part(i)]
  <1>1. ASSUME NEW i \in DOMAIN fields
        PROVE  /\ part(i) \in Seq(Call)
               /\ \A x : x \in Range(part(i))
                           <=> \E j \in DOMAIN fields[i].at : x = Register(p, i, j)
    <2> DEFINE n == Len(fields[i].at)
    <2>1. DOMAIN fields[i].at = 1 .. n /\ n \in Nat
      BY LenProperties DEF Fields, Placed
    <2>2. i \in Nat  BY DEF Fields
    <2>3. \A j \in 1 .. n : Register(p, i, j) \in Call
      BY <2>1, <2>2 DEF Call, Register
    <2>4. part(i) = [j \in 1 .. n |-> Register(p, i, j)]
      BY <2>1 DEF Register
    <2>5. part(i) \in Seq(Call)  BY <2>1, <2>3, <2>4, SeqDef
    <2>6. /\ DOMAIN part(i) = DOMAIN fields[i].at
          /\ \A j \in DOMAIN part(i) : part(i)[j] = Register(p, i, j)
      BY DEF Register
    <2>7. \A x : x \in Range(part(i))
                   <=> \E j \in DOMAIN fields[i].at : x = Register(p, i, j)
      <3> HIDE DEF part
      <3>1. \A x : x \in Range(part(i)) <=> \E j \in DOMAIN part(i) : x = part(i)[j]
        BY Zenon DEF Range
      <3>2. QED  BY ONLY <2>6, <3>1
    <2>8. QED  BY <2>5, <2>7
  <1>2. parts \in [1 .. Len(fields) -> Seq(Call)] /\ Len(fields) \in Nat
        /\ DOMAIN parts = DOMAIN fields
    BY <1>1 DEF Fields
  <1>3. parts \in Seq(Seq(Call))  BY <1>2, SeqDef
  <1>4. Flat(fields, p) = FlattenSeq(parts)  BY DEF Flat
  <1>5. /\ Flat(fields, p) \in Seq(Call)
        /\ \A x : x \in Range(Flat(fields, p))
                    <=> \E i \in DOMAIN parts : x \in Range(parts[i])
    <2> HIDE DEF parts
    <2>1. QED  BY <1>3, <1>4, FlattenIs
  <1>6. \A i \in DOMAIN fields : parts[i] = part(i)  OBVIOUS
  <1>7. \A x : x \in Range(Flat(fields, p))
                <=> \E i \in DOMAIN fields : x \in Range(part(i))
    <2> HIDE DEF parts, part
    <2>1. QED  BY <1>2, <1>5, <1>6
  <1>8. \A x : x \in Range(Flat(fields, p))
                <=> \E i \in DOMAIN fields : \E j \in DOMAIN fields[i].at :
                      x = Register(p, i, j)
    <2> HIDE DEF part
    <2>1. QED  BY <1>1, <1>7
  <1>9. QED  BY <1>5, <1>8

\* What a load reads and a click writes, by session.
LEMMA ReadsAreFields ==
  ASSUME NEW s \in Sessions
  PROVE  /\ Fields(Reads[s]) /\ Named(Reads[s])
         /\ \A x \in Range(Reads[s]) : x.name \in s.fields
  <1> DEFINE table == IF s.sensor = "PAJ" THEN PajReads ELSE PagReads
  <1>1. Table(table) /\ Named(table)  BY PajReadsTable, PagReadsTable
  <1>2. Reads[s] = Kept(s, table)  BY DEF Reads
  <1> HIDE DEF table
  <1>3. /\ Reads[s] \in Seq(Range(table))
        /\ \A x \in Range(Reads[s]) :
             x \in Range(table) /\ x.name \in s.fields \cup {"sync"}
    BY <1>1, <1>2, KeptIs
  <1>4. /\ Len(Reads[s]) \in Nat /\ DOMAIN Reads[s] = 1 .. Len(Reads[s])
        /\ \A i \in DOMAIN Reads[s] : Reads[s][i] \in Range(table)
    BY <1>3, LenProperties, ElementOfSeq
  <1>5. Fields(Reads[s])  BY <1>1, <1>4 DEF Fields, Table
  <1>6. Named(Reads[s])  BY <1>1, <1>3 DEF Named
  <1>7. \A x \in Range(Reads[s]) : x.name \in s.fields
    BY <1>3, <1>6 DEF Named
  <1>8. QED  BY <1>5, <1>6, <1>7

LEMMA WritesAreFields ==
  ASSUME NEW s \in Sessions
  PROVE  Fields(Writes[s])
  <1> DEFINE table == IF s.sensor = "PAJ" THEN PajWrites ELSE PagWrites
  <1>1. Table(table)  BY PajWritesTable, PagWritesTable
  <1>2. Writes[s] = Kept(s, table)  BY DEF Writes
  <1> HIDE DEF table
  <1>3. Writes[s] \in Seq(Range(table))  BY <1>1, <1>2, KeptIs
  <1>4. /\ Len(Writes[s]) \in Nat /\ DOMAIN Writes[s] = 1 .. Len(Writes[s])
        /\ \A i \in DOMAIN Writes[s] : Writes[s][i] \in Range(table)
    BY <1>3, LenProperties, ElementOfSeq
  <1>5. QED  BY <1>1, <1>4 DEF Fields, Table

\* The register calls of all ports.
LEMMA SectionsAre ==
  ASSUME NEW s, NEW fields, Fields(fields)
  PROVE  /\ Sections(s, fields) \in Seq(Call)
         /\ \A x : x \in Range(Sections(s, fields))
              <=> \E p \in PortsOf(s) : \E i \in DOMAIN fields :
                    \E j \in DOMAIN fields[i].at : x = Register(p, i, j)
  <1>1. /\ Flat(fields, 0) \in Seq(Call) /\ Flat(fields, 1) \in Seq(Call)
        /\ \A p \in {0, 1} : \A x : x \in Range(Flat(fields, p))
              <=> \E i \in DOMAIN fields : \E j \in DOMAIN fields[i].at :
                    x = Register(p, i, j)
    BY FlatIs
  <1>2. CASE s.sensor = "PAJ"
    <2>1. Sections(s, fields) = Flat(fields, 0) \o Flat(fields, 1)
      BY <1>2 DEF Sections
    <2>2. Sections(s, fields) \in Seq(Call)
      BY <1>1, <2>1, ConcatProperties
    <2>3. \A x : x \in Range(Sections(s, fields))
                   <=> \E p \in {0, 1} : x \in Range(Flat(fields, p))
      BY <1>1, <2>1, RangeOfConcat
    <2>4. PortsOf(s) = {0, 1}  BY <1>2 DEF PortsOf
    <2>5. QED  BY <1>1, <2>2, <2>3, <2>4
  <1>3. CASE s.sensor # "PAJ"
    <2>1. Sections(s, fields) = Flat(fields, 0) /\ PortsOf(s) = {0}
      BY <1>3 DEF Sections, PortsOf
    <2>2. QED  BY <1>1, <2>1
  <1>4. QED  BY <1>2, <1>3

\* A sequence behind another.
LEMMA Concatenated ==
  ASSUME NEW S, NEW s \in Seq(S), NEW t \in Seq(S)
  PROVE  /\ s \o t \in Seq(S)
         /\ Len(s) \in Nat /\ Len(t) \in Nat /\ Len(s \o t) = Len(s) + Len(t)
         /\ \A k \in 1 .. Len(s) : (s \o t)[k] = s[k]
         /\ \A k \in Len(s) + 1 .. Len(s \o t) : (s \o t)[k] \in Range(t)
         /\ \A x \in Range(t) :
              \E k \in Len(s) + 1 .. Len(s \o t) : (s \o t)[k] = x
  <1>1. /\ Len(s) \in Nat /\ Len(t) \in Nat /\ DOMAIN t = 1 .. Len(t)
        /\ s \o t \in Seq(S) /\ Len(s \o t) = Len(s) + Len(t)
        /\ \A k \in 1 .. Len(s) + Len(t) :
             (s \o t)[k] = IF k <= Len(s) THEN s[k] ELSE t[k - Len(s)]
    BY LenProperties, ConcatProperties
  <1>2. \A k \in 1 .. Len(s) : (s \o t)[k] = s[k]  BY <1>1
  <1>3. ASSUME NEW k \in Len(s) + 1 .. Len(s \o t)
        PROVE  (s \o t)[k] \in Range(t)
    <2>1. k \in 1 .. Len(s) + Len(t) /\ ~ (k <= Len(s)) /\ k - Len(s) \in 1 .. Len(t)
      BY <1>1
    <2>2. QED  BY <1>1, <2>1 DEF Range
  <1>4. ASSUME NEW x \in Range(t)
        PROVE  \E k \in Len(s) + 1 .. Len(s \o t) : (s \o t)[k] = x
    <2>1. PICK i \in 1 .. Len(t) : x = t[i]  BY <1>1 DEF Range
    <2>2. /\ i + Len(s) \in 1 .. Len(s) + Len(t) /\ ~ (i + Len(s) <= Len(s))
          /\ i + Len(s) \in Len(s) + 1 .. Len(s \o t) /\ i + Len(s) - Len(s) = i
      BY <1>1
    <2>3. (s \o t)[i + Len(s)] = x  BY <1>1, <2>1, <2>2
    <2>4. QED  BY <2>2, <2>3
  <1>5. QED  BY <1>1, <1>2, <1>3, <1>4

\* The calls for the general settings come first.
LEMMA GeneralCallsAre ==
  ASSUME NEW n \in {2, 3}
  PROVE  /\ [i \in 1 .. n |-> GeneralCall(General[i])] \in Seq(Call)
         /\ Len([i \in 1 .. n |-> GeneralCall(General[i])]) = n
  <1> DEFINE calls == [i \in 1 .. n |-> GeneralCall(General[i])]
  <1>1. \A i \in 1 .. n : General[i] \in Range(General)
    BY DEF General, Range
  <1>2. \A i \in 1 .. n : GeneralCall(General[i]) \in Call
    BY <1>1 DEF GeneralCall, Call
  <1>3. calls \in [1 .. n -> Call] /\ n \in Nat  BY <1>2
  <1>4. calls \in Seq(Call)  BY <1>3, SeqDef
  <1>5. Len(calls) \in Nat /\ 1 .. Len(calls) = 1 .. n
    BY <1>3, <1>4, LenProperties
  <1>6. Len(calls) = n  BY <1>3, <1>5
  <1>7. QED  BY <1>4, <1>6

\* The calls of a load: the general settings, then every register of every port.
LEMMA LoadCallsAre ==
  ASSUME NEW s \in Sessions
  PROVE  LET calls == LoadCalls[s]
         IN  /\ calls \in Seq(Call) /\ Len(calls) \in Nat /\ Len(calls) >= 3
             /\ \A k \in 1 .. 3 : calls[k] = GeneralCall(General[k])
             /\ \A k \in 4 .. Len(calls) :
                  \E p \in PortsOf(s) : \E i \in DOMAIN Reads[s] :
                    \E j \in DOMAIN Reads[s][i].at : calls[k] = Register(p, i, j)
             /\ \A p \in PortsOf(s) : \A i \in DOMAIN Reads[s] :
                  \A j \in DOMAIN Reads[s][i].at :
                    \E k \in 4 .. Len(calls) : calls[k] = Register(p, i, j)
  <1> DEFINE head == [i \in 1 .. 3 |-> GeneralCall(General[i])]
             tail == Sections(s, Reads[s])
  <1>1. LoadCalls[s] = head \o tail  BY DEF LoadCalls
  <1>2. head \in Seq(Call) /\ Len(head) = 3  BY GeneralCallsAre
  <1>3. Fields(Reads[s])  BY ReadsAreFields
  <1>4. /\ tail \in Seq(Call)
        /\ \A x : x \in Range(tail)
             <=> \E p \in PortsOf(s) : \E i \in DOMAIN Reads[s] :
                   \E j \in DOMAIN Reads[s][i].at : x = Register(p, i, j)
    BY <1>3, SectionsAre
  <1>5. \A k \in 1 .. 3 : head[k] = GeneralCall(General[k])  OBVIOUS
  <1> HIDE DEF head, tail
  <1>6. /\ head \o tail \in Seq(Call)
        /\ Len(tail) \in Nat /\ Len(head \o tail) = 3 + Len(tail)
        /\ \A k \in 1 .. 3 : (head \o tail)[k] = head[k]
        /\ \A k \in 4 .. Len(head \o tail) : (head \o tail)[k] \in Range(tail)
        /\ \A x \in Range(tail) :
             \E k \in 4 .. Len(head \o tail) : (head \o tail)[k] = x
    <2>1. /\ head \o tail \in Seq(Call)
          /\ Len(tail) \in Nat /\ Len(head \o tail) = Len(head) + Len(tail)
          /\ \A k \in 1 .. Len(head) : (head \o tail)[k] = head[k]
          /\ \A k \in Len(head) + 1 .. Len(head \o tail) :
               (head \o tail)[k] \in Range(tail)
          /\ \A x \in Range(tail) :
               \E k \in Len(head) + 1 .. Len(head \o tail) : (head \o tail)[k] = x
      <3>1. head \in Seq(Call) /\ tail \in Seq(Call)  BY <1>2, <1>4
      <3>2. QED  BY ONLY <3>1, Concatenated
    <2>2. Len(head) + 1 = 4  BY <1>2
    <2>3. QED  BY <1>2, <2>1, <2>2
  <1> DEFINE calls == head \o tail
  <1>7. /\ calls = LoadCalls[s] /\ calls \in Seq(Call)
        /\ Len(calls) \in Nat /\ Len(calls) >= 3
        /\ \A k \in 1 .. 3 : calls[k] = GeneralCall(General[k])
    BY <1>1, <1>5, <1>6
  <1>8. \A k \in 4 .. Len(calls) :
          \E p \in PortsOf(s) : \E i \in DOMAIN Reads[s] :
            \E j \in DOMAIN Reads[s][i].at : calls[k] = Register(p, i, j)
    BY <1>4, <1>6
  <1>9. \A p \in PortsOf(s) : \A i \in DOMAIN Reads[s] :
          \A j \in DOMAIN Reads[s][i].at :
            \E k \in 4 .. Len(calls) : calls[k] = Register(p, i, j)
    BY <1>4, <1>6
  <1> HIDE DEF calls
  <1>10. QED  BY <1>7, <1>8, <1>9

\* The calls of a click.
LEMMA JobCallsAre ==
  ASSUME NEW s \in Sessions, NEW kind \in {"apply", "save"}
  PROVE  JobCalls[s][kind] \in Seq(Call) /\ Len(JobCalls[s][kind]) \in Nat
  <1> DEFINE head(n) == [i \in 1 .. n |-> GeneralCall(General[i])]
             tail == Sections(s, Writes[s])
  <1>1. head(2) \in Seq(Call) /\ head(3) \in Seq(Call)
    BY GeneralCallsAre
  <1>2. tail \in Seq(Call)  BY WritesAreFields, SectionsAre
  <1>3. <<FlashCall>> \in Seq(Call)
    <2>1. FlashCall \in Call  BY DEF FlashCall, Call
    <2>2. QED  BY <2>1
  <1>4. /\ JobCalls[s]["apply"] = head(3) \o tail
        /\ JobCalls[s]["save"] = (head(2) \o tail) \o <<FlashCall>>
    BY DEF JobCalls
  <1> HIDE DEF head, tail
  <1>5. JobCalls[s][kind] \in Seq(Call)
    <2>1. head(3) \o tail \in Seq(Call) /\ head(2) \o tail \in Seq(Call)
      BY <1>1, <1>2, ConcatProperties
    <2>2. (head(2) \o tail) \o <<FlashCall>> \in Seq(Call)
      BY <1>3, <2>1, ConcatProperties
    <2>3. QED  BY <1>4, <2>1, <2>2
  <1>6. QED  BY <1>5, LenProperties

(***************************************************************************)
(* The next call.                                                          *)
(***************************************************************************)
\* The operator Min of a set of naturals.
LEMMA LeastOf ==
  ASSUME NEW S, S \subseteq Nat, S # {}
  PROVE  Min(S) \in S /\ \A i \in S : Min(S) <= i
  BY LeastExists DEF Min

\* A failed section is left for a later call, or the end.
LEMMA AfterSectionIs ==
  ASSUME NEW calls, Len(calls) \in Nat, NEW k \in 1 .. Len(calls)
  PROVE  AfterSection(calls, k) \in k .. Len(calls) + 1
  <1> DEFINE S == {l \in k .. Len(calls) : calls[l].port # calls[k].port}
                    \cup {Len(calls) + 1}
  <1>1. S \subseteq k .. Len(calls) + 1 /\ S # {}  OBVIOUS
  <1>2. S \subseteq Nat  BY <1>1
  <1>3. AfterSection(calls, k) = Min(S)  BY DEF AfterSection
  <1> HIDE DEF S
  <1>4. QED  BY <1>1, <1>2, <1>3, LeastOf

\* Whether a call is made, as NextCall has it.
Made(c, failed) ==
  /\ c.op \in Range(General) => Parses(general[c.op], Width(c.op))
  /\ c.op = "flash" => ~failed

\* A click goes on with the first call that is made, or ends.
LEMMA NextCallIs ==
  ASSUME NEW calls, Len(calls) \in Nat, NEW k \in 1 .. Len(calls) + 1, NEW failed
  PROVE  LET next == NextCall(calls, k, failed)
         IN  /\ next \in k .. Len(calls) + 1
             /\ next <= Len(calls) => Made(calls[next], failed)
             /\ \A l \in k .. Len(calls) : Made(calls[l], failed) => next <= l
  <1> DEFINE T == {l \in k .. Len(calls) : Made(calls[l], failed)}
             S == T \cup {Len(calls) + 1}
  <1>1. S \subseteq k .. Len(calls) + 1 /\ S # {}  OBVIOUS
  <1>2. S \subseteq Nat  BY <1>1
  <1>3. NextCall(calls, k, failed) = Min(S)  BY DEF NextCall, Made
  <1>4. \A l \in S : l <= Len(calls) => Made(calls[l], failed)  OBVIOUS
  <1>5. \A l \in k .. Len(calls) : Made(calls[l], failed) => l \in S  OBVIOUS
  <1> HIDE DEF S
  <1>6. Min(S) \in S /\ \A l \in S : Min(S) <= l  BY <1>1, <1>2, LeastOf
  <1>7. QED  BY <1>1, <1>3, <1>4, <1>5, <1>6

\* Every click has a register to write.
LEMMA RegisterIsWritten ==
  ASSUME NEW s \in Sessions, NEW kind \in {"apply", "save"}
  PROVE  \E k \in 1 .. Len(JobCalls[s][kind]) : JobCalls[s][kind][k].op = "register"
  <1> DEFINE head(n) == [i \in 1 .. n |-> GeneralCall(General[i])]
             tail == Sections(s, Writes[s])
  <1>1. \E x \in Range(Writes[s]) : TRUE
    <2>1. CASE s.sensor = "PAJ"
      <3>1. Range(Writes[s]) = {x \in Range(PajWrites) :
                                  x.name \in s.fields \cup {"sync"}}
        BY <2>1, PajWritesTable, KeptIs DEF Writes
      <3>2. PajWrites[14] \in Range(PajWrites) /\ PajWrites[14].name = "sync"
        BY DEF PajWrites, Write, Range
      <3>3. QED  BY <3>1, <3>2
    <2>2. CASE s.sensor # "PAJ"
      <3>1. Range(Writes[s]) = {x \in Range(PagWrites) :
                                  x.name \in s.fields \cup {"sync"}}
        BY <2>2, PagWritesTable, KeptIs DEF Writes
      <3>2. PICK name \in s.fields : name \in DOMAIN PagDefault
        BY <2>2, SettingsParameters
      <3>3. DOMAIN PagDefault = {PagReads[i].name : i \in DOMAIN PagReads}
        BY DEF PagDefault
      <3>4. PICK i \in DOMAIN PagReads : name = PagReads[i].name
        BY <3>2, <3>3
      <3>5. \E x \in Range(PagWrites) : x.name = name
        <4>1. DOMAIN PagReads = 1 .. 6 /\ DOMAIN PagWrites = 1 .. 6
          BY DEF PagReads, PagWrites
        <4>2. \A k \in 1 .. 6 : PagReads[k].name = PagWrites[k].name
          BY DEF PagReads, PagWrites, Read, Write
        <4>3. QED  BY <3>4, <4>1, <4>2 DEF Range
      <3>6. QED  BY <3>1, <3>5
    <2>3. QED  BY <2>1, <2>2
  <1>2. Fields(Writes[s])  BY WritesAreFields
  <1>3. PICK i \in DOMAIN Writes[s] : TRUE  BY <1>1 DEF Range
  <1>4. 1 \in DOMAIN Writes[s][i].at
    BY <1>2, <1>3, LenProperties DEF Fields, Placed
  <1>5. 0 \in PortsOf(s)  BY DEF PortsOf
  <1>6. tail \in Seq(Call) /\ Register(0, i, 1) \in Range(tail)
    BY <1>2, <1>3, <1>4, <1>5, SectionsAre
  <1>7. /\ head(2) \in Seq(Call) /\ head(3) \in Seq(Call)
        /\ Len(head(2)) = 2 /\ Len(head(3)) = 3
    BY GeneralCallsAre
  <1>8. /\ JobCalls[s]["apply"] = head(3) \o tail
        /\ JobCalls[s]["save"] = (head(2) \o tail) \o <<FlashCall>>
    BY DEF JobCalls
  <1>9. Register(0, i, 1).op = "register"  BY DEF Register
  <1> HIDE DEF head, tail
  <1>10. \A n \in {2, 3} :
           /\ head(n) \o tail \in Seq(Call) /\ Len(head(n) \o tail) \in Nat
           /\ \E k \in 1 .. Len(head(n) \o tail) :
                (head(n) \o tail)[k] = Register(0, i, 1)
    <2>1. SUFFICES ASSUME NEW n \in {2, 3}
          PROVE /\ head(n) \o tail \in Seq(Call) /\ Len(head(n) \o tail) \in Nat
                /\ \E k \in 1 .. Len(head(n) \o tail) :
                     (head(n) \o tail)[k] = Register(0, i, 1)
      OBVIOUS
    <2>2. PICK first : first = head(n)  OBVIOUS
    <2>3. first \in Seq(Call) /\ tail \in Seq(Call) /\ Len(first) = n
      BY <1>6, <1>7, <2>2
    <2>4. /\ first \o tail \in Seq(Call)
          /\ Len(tail) \in Nat /\ Len(first \o tail) = Len(first) + Len(tail)
          /\ \A x \in Range(tail) :
               \E k \in Len(first) + 1 .. Len(first \o tail) : (first \o tail)[k] = x
      BY ONLY <2>3, Concatenated
    <2>5. /\ Len(first \o tail) \in Nat
          /\ \E k \in 1 .. Len(first \o tail) : (first \o tail)[k] = Register(0, i, 1)
      BY <1>6, <2>3, <2>4
    <2>6. QED  BY <2>2, <2>4, <2>5
  <1>11. CASE kind = "apply"  BY <1>8, <1>9, <1>10, <1>11
  <1>12. CASE kind = "save"
    <2>1. PICK k \in 1 .. Len(head(2) \o tail) :
                 (head(2) \o tail)[k] = Register(0, i, 1)
      BY <1>10
    <2>2. PICK first : first = head(2) \o tail  OBVIOUS
    <2>3. PICK last : last = <<FlashCall>>  OBVIOUS
    <2>4. first \in Seq(Call) /\ last \in Seq(Call)
      BY <1>10, <2>2, <2>3 DEF FlashCall, Call
    <2>5. /\ Len(first \o last) = Len(first) + Len(last)
          /\ Len(last) \in Nat /\ Len(first) \in Nat
          /\ \A l \in 1 .. Len(first) : (first \o last)[l] = first[l]
      BY ONLY <2>4, Concatenated
    <2>6. k \in 1 .. Len(first \o last) /\ (first \o last)[k] = Register(0, i, 1)
      BY <2>1, <2>2, <2>5
    <2>7. JobCalls[s][kind] = first \o last  BY <1>8, <1>12, <2>2, <2>3
    <2>8. QED  BY <1>9, <2>6, <2>7
  <1>13. QED  BY <1>11, <1>12

(***************************************************************************)
(* The types.                                                              *)
(***************************************************************************)
Tasks == [kind : {"apply", "save"}, at : Nat, value : Text, failed : BOOLEAN,
          clean : BOOLEAN]

\* A click is at one of its calls, with a number to send if it is a general one.
AtCall(s, job) ==
  LET calls == JobCalls[s][job.kind]
  IN  /\ job.at <= Len(calls)
      /\ job.at # 0 /\ calls[job.at].op \in Range(General) => job.value \in Nat

Types ==
  /\ session \in Sessions
  /\ config \in [Range(General) -> Nat] /\ flash.config \in [Range(General) -> Nat]
  /\ general \in [Range(General) -> Text]
  /\ DOMAIN panel = Ports /\ \A p \in Ports : DOMAIN panel[p] = session.fields
  /\ open \in BOOLEAN /\ loading \in BOOLEAN /\ panicked \in BOOLEAN
  /\ queued \in Nat
  /\ DOMAIN loader = {"at", "got", "failed", "clean"}
  /\ loader.at \in 0 .. Len(LoadCalls[session])
  /\ loader.failed \in BOOLEAN /\ loader.clean \in BOOLEAN
  /\ jobs \in Seq(Tasks)
  /\ \A j \in DOMAIN jobs : AtCall(session, jobs[j])
  /\ left \in [Acts -> Nat]

\* The ports are those of the sensor.
LEMMA PortsAre == Ports = PortsOf(session)
  BY DEF Ports

\* The calls are finitely many.
LEMMA Calls ==
  ASSUME session \in Sessions
  PROVE  /\ Len(LoadCalls[session]) \in Nat /\ Len(LoadCalls[session]) >= 3
         /\ \A kind \in {"apply", "save"} : Len(JobCalls[session][kind]) \in Nat
  BY LoadCallsAre, JobCallsAre

\* What Dirty leaves of the clicks.
LEMMA DirtyIs ==
  ASSUME Types
  PROVE  /\ Dirty(jobs) \in Seq(Tasks)
         /\ DOMAIN Dirty(jobs) = DOMAIN jobs /\ Len(Dirty(jobs)) = Len(jobs)
         /\ \A j \in DOMAIN jobs :
              /\ Dirty(jobs)[j].kind = jobs[j].kind
              /\ Dirty(jobs)[j].at = jobs[j].at
              /\ Dirty(jobs)[j].value = jobs[j].value
  <1>1. /\ jobs \in Seq(Tasks) /\ DOMAIN jobs = 1 .. Len(jobs) /\ Len(jobs) \in Nat
        /\ \A j \in DOMAIN jobs : jobs[j] \in Tasks
    BY LenProperties, ElementOfSeq DEF Types
  <1>2. \A j \in DOMAIN jobs :
          /\ [jobs[j] EXCEPT !.clean = FALSE] \in Tasks
          /\ [jobs[j] EXCEPT !.clean = FALSE].kind = jobs[j].kind
          /\ [jobs[j] EXCEPT !.clean = FALSE].at = jobs[j].at
          /\ [jobs[j] EXCEPT !.clean = FALSE].value = jobs[j].value
    BY <1>1 DEF Tasks
  <1>3. Dirty(jobs) = [j \in DOMAIN jobs |-> [jobs[j] EXCEPT !.clean = FALSE]]
    BY DEF Dirty
  <1>4. Dirty(jobs) \in Seq(Tasks)  BY <1>1, <1>2, <1>3, SeqDef
  <1>5. Len(Dirty(jobs)) = Len(jobs)
    <2>1. Len(Dirty(jobs)) \in Nat /\ 1 .. Len(Dirty(jobs)) = 1 .. Len(jobs)
      BY <1>1, <1>3, <1>4, LenProperties
    <2>2. QED  BY <1>1, <2>1
  <1>6. QED  BY <1>1, <1>2, <1>3, <1>4, <1>5

\* The part of the types that a disturbance can break.
TasksTyped ==
  /\ DOMAIN loader = {"at", "got", "failed", "clean"}
  /\ loader.at \in 0 .. Len(LoadCalls[session])
  /\ loader.failed \in BOOLEAN /\ loader.clean \in BOOLEAN
  /\ jobs \in Seq(Tasks)
  /\ \A j \in DOMAIN jobs : AtCall(session, jobs[j])

LEMMA DisturbTyped ==
  ASSUME Types, Disturb, session' = session
  PROVE  TasksTyped'
  <1>1. /\ DOMAIN loader' = {"at", "got", "failed", "clean"}
        /\ loader.at' \in 0 .. Len(LoadCalls[session])
        /\ loader.failed' \in BOOLEAN /\ loader.clean' \in BOOLEAN
    BY DEF Types, Disturb
  <1>2. jobs' = Dirty(jobs)  BY DEF Disturb
  <1>3. jobs' \in Seq(Tasks)  BY <1>2, DirtyIs
  <1>4. \A j \in DOMAIN jobs' : AtCall(session, jobs'[j])
    BY <1>2, DirtyIs DEF Types, AtCall
  <1>5. QED  BY <1>1, <1>3, <1>4 DEF TasksTyped

LEMMA UseTyped ==
  ASSUME Types, NEW act \in Acts, Use(act)
  PROVE  left' \in [Acts -> Nat]
  BY DEF Types, Use

LEMMA FaultTyped ==
  ASSUME Types, NEW ok \in BOOLEAN, Fault(ok)
  PROVE  left' \in [Acts -> Nat]
  BY UseTyped DEF Types, Fault, Acts

\* A click that goes on with a call that is made has what it sends.
LEMMA AtTyped ==
  ASSUME Types, NEW job \in Tasks, NEW failed,
         NEW k \in 1 .. Len(JobCalls[session][job.kind]),
         Made(JobCalls[session][job.kind][k], failed)
  PROVE  LET new == At(job, JobCalls[session][job.kind], k)
         IN  new \in Tasks /\ new.at = k /\ AtCall(session, new)
  <1> DEFINE calls == JobCalls[session][job.kind]
             value == IF calls[k].op \in Range(General) THEN general[calls[k].op]
                      ELSE 0
             new == [job EXCEPT !.at = k, !.value = value]
  <1>1. new = At(job, calls, k)  BY DEF At
  <1>2. job.kind \in {"apply", "save"}  BY DEF Tasks
  <1>3. Len(calls) \in Nat /\ k \in Nat  BY <1>2, Calls DEF Types
  <1>4. value \in Nat
    <2>1. CASE calls[k].op \in Range(General)
      <3>1. general[calls[k].op] \in Text  BY <2>1 DEF Types
      <3>2. general[calls[k].op] # NoNumber  BY <2>1 DEF Made, Parses
      <3>3. QED  BY <2>1, <3>1, <3>2 DEF Text
    <2>2. CASE calls[k].op \notin Range(General)  BY <2>2
    <2>3. QED  BY <2>1, <2>2
  <1>5. value \in Text  BY <1>4 DEF Text
  <1> HIDE DEF value
  <1>6. new \in Tasks /\ new.at = k /\ new.kind = job.kind /\ new.value = value
    BY <1>3, <1>5 DEF Tasks
  <1> HIDE DEF new
  <1>7. AtCall(session, new)  BY <1>3, <1>4, <1>6 DEF AtCall
  <1>8. QED  BY <1>1, <1>6, <1>7

\* A click that goes on is at a call, and one that ends clears loading.
LEMMA GoOnTyped ==
  ASSUME Types, session' = session, NEW j \in DOMAIN jobs,
         NEW k \in 1 .. Len(JobCalls[session][jobs[j].kind]) + 1,
         NEW failed \in BOOLEAN, GoOn(j, k, failed)
  PROVE  /\ jobs' \in Seq(Tasks) /\ DOMAIN jobs' = DOMAIN jobs
         /\ \A i \in DOMAIN jobs : AtCall(session, jobs'[i])
         /\ loading' \in BOOLEAN
         /\ ~loading' \/ (loading' = loading /\ jobs'[j].at # 0)
  <1> DEFINE calls == JobCalls[session][jobs[j].kind]
             next == NextCall(calls, k, failed)
  <1>1. /\ jobs \in Seq(Tasks) /\ DOMAIN jobs = 1 .. Len(jobs) /\ Len(jobs) \in Nat
        /\ \A i \in DOMAIN jobs : jobs[i] \in Tasks /\ AtCall(session, jobs[i])
    BY LenProperties, ElementOfSeq DEF Types
  <1>2. jobs[j].kind \in {"apply", "save"}  BY <1>1 DEF Tasks
  <1>3. Len(calls) \in Nat  BY <1>2, Calls DEF Types
  <1>4. /\ next \in 1 .. Len(calls) + 1
        /\ next <= Len(calls) => Made(calls[next], failed)
    BY <1>3, NextCallIs
  <1>5. \A i \in DOMAIN jobs : i # j /\ jobs'[i] = jobs[i] => AtCall(session, jobs'[i])
    BY <1>1 DEF AtCall
  <1>6. CASE next <= Len(calls)
    <2> DEFINE job == [jobs[j] EXCEPT !.failed = failed]
    <2>1. jobs' = [jobs EXCEPT ![j] = At(job, calls, next)] /\ loading' = loading
      BY <1>6 DEF GoOn
    <2>2. job \in Tasks /\ job.kind = jobs[j].kind  BY <1>1 DEF Tasks
    <2>3. next \in 1 .. Len(calls)  BY <1>3, <1>4, <1>6
    <2> DEFINE new == At(job, calls, next)
    <2>4. new \in Tasks /\ new.at = next /\ AtCall(session, new)
      <3>1. calls = JobCalls[session][job.kind]  BY <2>2
      <3> HIDE DEF job, next, calls
      <3>2. /\ next \in 1 .. Len(JobCalls[session][job.kind])
            /\ Made(JobCalls[session][job.kind][next], failed)
        BY <1>4, <1>6, <2>3, <3>1
      <3>3. LET reached == At(job, JobCalls[session][job.kind], next)
            IN  reached \in Tasks /\ reached.at = next /\ AtCall(session, reached)
        BY <2>2, <3>2, AtTyped
      <3>4. QED  BY <3>1, <3>3
    <2> HIDE DEF new
    <2>5. jobs' = [jobs EXCEPT ![j] = new]  BY <2>1 DEF new
    <2>6. jobs' \in Seq(Tasks) /\ DOMAIN jobs' = DOMAIN jobs
      BY <1>1, <2>4, <2>5, SeqDef
    <2>7. jobs'[j] = new /\ \A i \in DOMAIN jobs : i # j => jobs'[i] = jobs[i]
      BY <2>5
    <2>8. AtCall(session, jobs'[j])  BY <2>4, <2>7 DEF AtCall
    <2>9. loading' \in BOOLEAN /\ jobs'[j].at # 0
      BY <2>1, <2>3, <2>4, <2>7 DEF Types
    <2>10. QED  BY <1>5, <2>1, <2>6, <2>7, <2>8, <2>9
  <1>7. CASE ~ (next <= Len(calls))
    <2> DEFINE new == [jobs[j] EXCEPT !.at = 0, !.failed = failed]
    <2>1. jobs' = [jobs EXCEPT ![j] = new] /\ loading' = FALSE
      BY <1>7 DEF GoOn
    <2>2. new \in Tasks /\ new.at = 0 /\ new.kind = jobs[j].kind
      BY <1>1 DEF Tasks
    <2> HIDE DEF new
    <2>3. jobs' \in Seq(Tasks) /\ DOMAIN jobs' = DOMAIN jobs
      BY <1>1, <2>1, <2>2, SeqDef
    <2>4. jobs'[j] = new /\ \A i \in DOMAIN jobs : i # j => jobs'[i] = jobs[i]
      BY <2>1
    <2>5. AtCall(session, jobs'[j])  BY <1>3, <2>2, <2>4 DEF AtCall
    <2>6. QED  BY <1>5, <2>1, <2>3, <2>4, <2>5
  <1>8. QED  BY <1>6, <1>7

\* The panels of a load that ended have the fields they had.
LEMMA LoadGoesOnTyped ==
  ASSUME Types, session' = session,
         NEW k \in 1 .. Len(LoadCalls[session]) + 1, NEW got, NEW failed \in BOOLEAN,
         LoadGoesOn(k, got, failed)
  PROVE  /\ DOMAIN loader' = {"at", "got", "failed", "clean"}
         /\ loader'.at \in 0 .. Len(LoadCalls[session])
         /\ loader'.failed \in BOOLEAN /\ loader'.clean \in BOOLEAN
         /\ DOMAIN panel' = Ports /\ \A p \in Ports : DOMAIN panel'[p] = session.fields
         /\ loading' \in BOOLEAN /\ panicked' \in BOOLEAN
         /\ loading' /\ ~panicked' => loader'.at # 0
  <1>1. Len(LoadCalls[session]) \in Nat  BY Calls DEF Types
  <1>2. CASE k <= Len(LoadCalls[session])
    <2>1. /\ loader' = [loader EXCEPT !.at = k, !.got = got, !.failed = failed]
          /\ UNCHANGED <<panel, loading, panicked>>
      BY <1>2 DEF LoadGoesOn
    <2>2. QED  BY <1>1, <1>2, <2>1 DEF Types
  <1>3. CASE ~ (k <= Len(LoadCalls[session]))
    <2>1. /\ loader' = NoLoad
          /\ \/ loading' = FALSE /\ UNCHANGED <<panel, panicked>>
             \/ panicked' = TRUE /\ UNCHANGED <<panel, loading>>
             \/ loading' = FALSE /\ panel' = Panels(got) /\ UNCHANGED panicked
      BY <1>3 DEF LoadGoesOn
    <2>2. /\ DOMAIN loader' = {"at", "got", "failed", "clean"}
          /\ loader'.at = 0 /\ loader'.failed = FALSE /\ loader'.clean = FALSE
      BY <2>1 DEF NoLoad
    <2>3. DOMAIN Panels(got) = Ports
          /\ \A p \in Ports : DOMAIN Panels(got)[p] = DOMAIN panel[p]
      BY DEF Panels
    <2>4. DOMAIN panel' = Ports /\ \A p \in Ports : DOMAIN panel'[p] = session.fields
      BY <2>1, <2>3 DEF Types
    <2>5. /\ loading' \in BOOLEAN /\ panicked' \in BOOLEAN
      BY <2>1 DEF Types
    <2>6. ~(loading' /\ ~panicked')  BY <2>1
    <2>7. loader'.at \in 0 .. Len(LoadCalls[session])  BY <1>1, <2>2
    <2>8. loader'.failed \in BOOLEAN /\ loader'.clean \in BOOLEAN  BY <2>2
    <2>9. QED  BY <2>2, <2>4, <2>5, <2>6, <2>7, <2>8
  <1>4. QED  BY <1>2, <1>3

\* What a step keeps, all but the tasks.
RestTyped ==
  /\ session \in Sessions
  /\ config \in [Range(General) -> Nat] /\ flash.config \in [Range(General) -> Nat]
  /\ general \in [Range(General) -> Text]
  /\ DOMAIN panel = Ports /\ \A p \in Ports : DOMAIN panel[p] = session.fields
  /\ open \in BOOLEAN /\ loading \in BOOLEAN /\ panicked \in BOOLEAN
  /\ queued \in Nat
  /\ left \in [Acts -> Nat]

LEMMA TypesParts ==
  /\ RestTyped /\ TasksTyped => Types
  /\ RestTyped' /\ TasksTyped' => Types'
  BY DEF Types, RestTyped, TasksTyped

Inv == Types /\ LoadingHasTask

LEMMA SameTasks ==
  ASSUME Types, session' = session, loader' = loader, jobs' = jobs
  PROVE  TasksTyped'
  BY DEF Types, TasksTyped, AtCall

\* The steps, one by one.
LEMMA InvInit == SettingsInit => Inv
  <1> SUFFICES ASSUME SettingsInit PROVE Inv
    OBVIOUS
  <1>1. session \in Sessions  BY Zenon DEF SettingsInit
  <1>2. RestTyped
    <2>1. Range(General) = {"impact_threshold", "suppress_ms", "shot_delay"}
      BY DEF General, Range
    <2>2. /\ config \in [Range(General) -> Nat]
          /\ flash.config \in [Range(General) -> Nat]
      BY Zenon, <2>1, SettingsParameters DEF SettingsInit
    <2>3. general \in [Range(General) -> Text]
      BY Zenon DEF SettingsInit, Text
    <2>4. DOMAIN panel = Ports /\ \A p \in Ports : DOMAIN panel[p] = session.fields
      BY Zenon DEF SettingsInit, TextsOf
    <2>5. left \in [Acts -> Nat]
      BY Zenon, <1>1, SettingsParameters DEF SettingsInit, Acts
    <2>6. QED  BY Zenon, <1>1, <2>2, <2>3, <2>4, <2>5 DEF SettingsInit, RestTyped
  <1>3. TasksTyped
    <2>1. loader = NoLoad /\ jobs = << >>  BY Zenon DEF SettingsInit
    <2>2. jobs \in Seq(Tasks) /\ DOMAIN jobs = {}  BY <2>1, EmptySeq
    <2>3. Len(LoadCalls[session]) \in Nat  BY <1>1, Calls
    <2>4. QED  BY <2>1, <2>2, <2>3 DEF TasksTyped, NoLoad
  <1>4. LoadingHasTask  BY Zenon DEF LoadingHasTask, SettingsInit
  <1>5. QED  BY <1>2, <1>3, <1>4, TypesParts DEF Inv

LEMMA PageSteps ==
  ASSUME Inv, Toggle \/ Reload
  PROVE  Inv'
  <1>1. /\ session' = session /\ loader' = loader /\ jobs' = jobs
        /\ UNCHANGED <<config, flash, general, panel, loading, panicked>>
        /\ Use("toggles")
    BY DEF Toggle, Reload, device, texts
  <1>2. left' \in [Acts -> Nat]  BY <1>1, UseTyped DEF Inv, Acts
  <1>3. open' \in BOOLEAN  BY DEF Toggle, Reload, Inv, Types
  <1>4. queued' \in Nat  BY DEF Toggle, Reload, Inv, Types
  <1>5. TasksTyped'  BY <1>1, SameTasks DEF Inv
  <1>6. RestTyped'
    BY <1>1, <1>2, <1>3, <1>4 DEF Inv, Types, RestTyped, Ports
  <1>7. LoadingHasTask'
    BY <1>1 DEF Inv, LoadingHasTask, NoTask, Busy
  <1>8. QED  BY <1>5, <1>6, <1>7, TypesParts DEF Inv

\* A disturbance leaves every task where it is.
LEMMA DisturbKeepsTasks ==
  ASSUME Inv, Disturb, UNCHANGED <<session, loading>>, panicked => panicked'
  PROVE  TasksTyped' /\ LoadingHasTask'
  <1>1. TasksTyped'  BY DisturbTyped DEF Inv
  <1>2. LoadingHasTask'
    <2>1. loader'.at = loader.at  BY DEF Inv, Types, Disturb
    <2>2. DOMAIN jobs' = DOMAIN jobs /\ \A j \in DOMAIN jobs : jobs'[j].at = jobs[j].at
      BY DirtyIs DEF Inv, Disturb
    <2>3. QED  BY <2>1, <2>2 DEF Inv, LoadingHasTask, NoTask, Busy
  <1>3. QED  BY <1>1, <1>2

LEMMA TypeSteps ==
  ASSUME Inv, Type
  PROVE  Inv'
  <1>1. /\ UNCHANGED <<session, config, flash, open, loading, queued>>
        /\ Disturb /\ Use("edits") /\ ~panicked /\ panicked' \in BOOLEAN
    BY DEF Type, Edit, EditGeneral, device, texts, Inv, Types
  <1>2. left' \in [Acts -> Nat]  BY <1>1, UseTyped DEF Inv, Acts
  <1>3. general' \in [Range(General) -> Text]
    <2>1. \A text \in Texts : text \in Text
      BY SettingsParameters DEF Text
    <2>2. QED  BY <2>1 DEF Type, Edit, EditGeneral, Inv, Types
  <1>4. DOMAIN panel' = Ports /\ \A p \in Ports : DOMAIN panel'[p] = session.fields
    BY DEF Type, Edit, EditGeneral, Inv, Types
  <1>5. TasksTyped' /\ LoadingHasTask'  BY <1>1, DisturbKeepsTasks
  <1>6. RestTyped'
    BY <1>1, <1>2, <1>3, <1>4 DEF Inv, Types, RestTyped, Ports
  <1>7. QED  BY <1>5, <1>6, TypesParts DEF Inv

LEMMA LoadDefaultsStep ==
  ASSUME Inv, LoadDefaults
  PROVE  Inv'
  <1>1. /\ UNCHANGED <<session, config, flash, open, loading, queued>>
        /\ Disturb /\ Use("edits") /\ ~panicked /\ panicked' \in BOOLEAN
    BY Zenon DEF LoadDefaults, device, Inv, Types
  <1>2. left' \in [Acts -> Nat]  BY <1>1, UseTyped DEF Inv, Acts
  <1>3. general' \in [Range(General) -> Text]
    BY Zenon DEF LoadDefaults, Inv, Types, Text
  <1>4. DOMAIN panel' = Ports /\ \A p \in Ports : DOMAIN panel'[p] = session.fields
    BY Zenon DEF LoadDefaults, TextsOf, Inv, Types
  <1>5. TasksTyped' /\ LoadingHasTask'  BY <1>1, DisturbKeepsTasks
  <1>6. RestTyped'
    BY <1>1, <1>2, <1>3, <1>4 DEF Inv, Types, RestTyped, Ports
  <1>7. QED  BY <1>5, <1>6, TypesParts DEF Inv

LEMMA LosePowerStep ==
  ASSUME Inv, LosePower
  PROVE  Inv'
  <1>1. /\ UNCHANGED <<session, flash, general, panel, open, loading, queued, panicked>>
        /\ Disturb /\ Use("resets")
    BY DEF LosePower, texts
  <1>2. left' \in [Acts -> Nat]  BY <1>1, UseTyped DEF Inv, Acts
  <1>3. config' \in [Range(General) -> Nat]
    BY DEF LosePower, Inv, Types, General, Range
  <1>4. TasksTyped' /\ LoadingHasTask'  BY <1>1, DisturbKeepsTasks
  <1>5. RestTyped'  BY <1>1, <1>2, <1>3 DEF Inv, Types, RestTyped, Ports
  <1>6. QED  BY <1>4, <1>5, TypesParts DEF Inv

LEMMA LoadStartsStep ==
  ASSUME Inv, LoadStarts
  PROVE  Inv'
  <1>1. /\ UNCHANGED <<session, config, flash, general, panel, open, panicked, left>>
        /\ loader' = [at |-> 1, got |-> << >>, failed |-> FALSE, clean |-> NoTask]
        /\ jobs' = Dirty(jobs) /\ loading' = TRUE
    BY DEF LoadStarts, device, texts
  <1>2. queued' \in Nat  BY DEF LoadStarts, Inv, Types
  <1>3. jobs' \in Seq(Tasks) /\ \A j \in DOMAIN jobs' : AtCall(session, jobs'[j])
    <2>1. /\ jobs' \in Seq(Tasks) /\ DOMAIN jobs' = DOMAIN jobs
          /\ \A j \in DOMAIN jobs : /\ jobs'[j].kind = jobs[j].kind
                                    /\ jobs'[j].at = jobs[j].at
                                    /\ jobs'[j].value = jobs[j].value
      BY <1>1, DirtyIs DEF Inv
    <2>2. QED  BY <2>1 DEF Inv, Types, AtCall
  <1>4. /\ DOMAIN loader' = {"at", "got", "failed", "clean"}
        /\ loader'.at = 1 /\ loader'.failed = FALSE /\ loader'.clean = NoTask
    BY <1>1
  <1>5. NoTask \in BOOLEAN  BY DEF NoTask
  <1>6. 1 \in 0 .. Len(LoadCalls[session])  BY Calls DEF Inv, Types
  <1>7. TasksTyped'  BY <1>1, <1>3, <1>4, <1>5, <1>6 DEF TasksTyped
  <1>8. RestTyped'  BY <1>1, <1>2 DEF Inv, Types, RestTyped, Ports
  <1>9. LoadingHasTask'  BY <1>4 DEF LoadingHasTask, NoTask
  <1>10. QED  BY <1>7, <1>8, <1>9, TypesParts DEF Inv

\* A step of the load, as far as the types go.
LEMMA LoadGoesOnStep ==
  ASSUME Inv, NEW k \in 1 .. Len(LoadCalls[session]) + 1, NEW got,
         NEW failed \in BOOLEAN, LoadGoesOn(k, got, failed),
         UNCHANGED <<session, device, open, queued, jobs>>,
         general' \in [Range(General) -> Text], NEW ok \in BOOLEAN, Fault(ok)
  PROVE  Inv'
  <1>1. Types /\ session' = session  BY DEF Inv
  <1>2. /\ DOMAIN loader' = {"at", "got", "failed", "clean"}
        /\ loader'.at \in 0 .. Len(LoadCalls[session])
        /\ loader'.failed \in BOOLEAN /\ loader'.clean \in BOOLEAN
        /\ DOMAIN panel' = Ports /\ \A p \in Ports : DOMAIN panel'[p] = session.fields
        /\ loading' \in BOOLEAN /\ panicked' \in BOOLEAN
        /\ loading' /\ ~panicked' => loader'.at # 0
    BY <1>1, LoadGoesOnTyped
  <1>3. left' \in [Acts -> Nat]  BY FaultTyped DEF Inv
  <1>4. TasksTyped'  BY <1>2 DEF Inv, Types, TasksTyped
  <1>5. RestTyped'  BY <1>2, <1>3 DEF Inv, Types, RestTyped, Ports, device
  <1>6. LoadingHasTask'  BY <1>2 DEF LoadingHasTask, NoTask
  <1>7. QED  BY <1>4, <1>5, <1>6, TypesParts DEF Inv

LEMMA LoadGeneralStep ==
  ASSUME Inv, NEW answered \in BOOLEAN, LoadGeneral(answered)
  PROVE  Inv'
  <1> DEFINE call == LoadCalls[session][loader.at]
  <1>1. /\ loader.at \in 1 .. 3 /\ loader.failed \in BOOLEAN
        /\ LoadGoesOn(loader.at + 1, loader.got, loader.failed)
        /\ UNCHANGED <<session, device, open, queued, jobs>> /\ Fault(answered)
    BY DEF LoadGeneral, Inv, Types
  <1>2. loader.at + 1 \in 1 .. Len(LoadCalls[session]) + 1
    BY <1>1, Calls DEF Inv, Types
  <1>3. call.op \in Range(General)
    <2>1. call = GeneralCall(General[loader.at])
      BY <1>1, LoadCallsAre DEF Inv, Types
    <2>2. QED  BY <1>1, <2>1 DEF GeneralCall, General, Range
  <1>4. general' \in [Range(General) -> Text]
    <2>1. general' = IF answered THEN [general EXCEPT ![call.op] = config[call.op]]
                     ELSE general
      BY DEF LoadGeneral
    <2>2. config[call.op] \in Text  BY <1>3 DEF Inv, Types, Text
    <2> HIDE DEF call
    <2>3. QED  BY <2>1, <2>2 DEF Inv, Types
  <1>5. QED  BY <1>1, <1>2, <1>4, LoadGoesOnStep

LEMMA LoadRegisterStep ==
  ASSUME Inv, NEW answered \in BOOLEAN, LoadRegister(answered)
  PROVE  Inv'
  <1> DEFINE calls == LoadCalls[session]
             call == calls[loader.at]
             at == Reads[session][call.field].at[call.byte]
             got == Put(loader.got, <<call.port, at>>, regs[call.port][at])
  <1>1. /\ loader.at > 3 /\ loader.failed \in BOOLEAN
        /\ UNCHANGED <<session, device, general, open, queued, jobs>>
        /\ Fault(answered)
        /\ answered => LoadGoesOn(loader.at + 1, got, loader.failed)
        /\ ~answered => LoadGoesOn(AfterSection(calls, loader.at), loader.got, TRUE)
    BY Zenon DEF LoadRegister, Inv, Types
  <1>2. Len(calls) \in Nat /\ loader.at \in 1 .. Len(calls)
    <2>1. session \in Sessions /\ loader.at \in 0 .. Len(calls)
      BY DEF Inv, Types
    <2>2. Len(calls) \in Nat  BY <2>1, Calls
    <2>3. loader.at > 3  BY Zenon, <1>1
    <2> DEFINE n == Len(calls)
    <2> HIDE DEF n
    <2>4. loader.at \in 0 .. n /\ n \in Nat  BY <2>1, <2>2 DEF n
    <2>5. loader.at \in 1 .. n  BY <2>3, <2>4
    <2>6. QED  BY <2>2, <2>5 DEF n
  <1>3. general' \in [Range(General) -> Text]  BY Zenon, <1>1 DEF Inv, Types
  <1>4. CASE answered
    <2>1. loader.at + 1 \in 1 .. Len(calls) + 1  BY <1>2
    <2> HIDE DEF got
    <2>2. QED  BY Zenon, <1>1, <1>3, <1>4, <2>1, LoadGoesOnStep
  <1>5. CASE ~answered
    <2>1. AfterSection(calls, loader.at) \in 1 .. Len(calls) + 1
      BY <1>2, AfterSectionIs
    <2>2. QED  BY Zenon, <1>1, <1>3, <1>5, <2>1, LoadGoesOnStep
  <1>6. QED  BY <1>4, <1>5

LEMMA ClickStep ==
  ASSUME Inv, NEW kind \in {"apply", "save"}, Click(kind)
  PROVE  Inv'
  <1> DEFINE calls == JobCalls[session][kind]
             job == [kind |-> kind, at |-> 0, value |-> 0, failed |-> FALSE,
                     clean |-> NoTask]
             next == NextCall(calls, 1, FALSE)
             new == At(job, calls, next)
  <1>1. /\ UNCHANGED <<session, config, flash, general, panel, open, queued, panicked>>
        /\ Use("clicks") /\ loading' = TRUE
        /\ jobs' = Append(Dirty(jobs), new)
        /\ loader' = [loader EXCEPT !.clean = FALSE]
    BY Zenon DEF Click, device, texts
  <1>2. left' \in [Acts -> Nat]  BY <1>1, UseTyped DEF Inv, Acts
  <1>3. Len(calls) \in Nat /\ session \in Sessions  BY Calls DEF Inv, Types
  <1>4. job \in Tasks /\ job.kind = kind
    BY DEF Tasks, NoTask, Text
  <1>5. next \in 1 .. Len(calls) /\ Made(calls[next], FALSE)
    <2>1. PICK k \in 1 .. Len(calls) : calls[k].op = "register"
      BY <1>3, RegisterIsWritten
    <2>2. Made(calls[k], FALSE)
      <3>1. "register" \notin Range(General)  BY DEF General, Range
      <3>2. QED  BY <2>1, <3>1 DEF Made
    <2>3. /\ next \in 1 .. Len(calls) + 1
          /\ next <= Len(calls) => Made(calls[next], FALSE)
          /\ \A l \in 1 .. Len(calls) : Made(calls[l], FALSE) => next <= l
      <3> HIDE DEF calls
      <3>1. 1 \in 1 .. Len(calls) + 1  BY <1>3
      <3>2. QED  BY <1>3, <3>1, NextCallIs
    <2>4. next <= k  BY <2>2, <2>3
    <2> HIDE DEF next
    <2>5. next <= Len(calls)  BY <1>3, <2>1, <2>3, <2>4
    <2>6. next \in 1 .. Len(calls)  BY <1>3, <2>3, <2>5
    <2>7. Made(calls[next], FALSE)  BY <2>3, <2>5
    <2>8. QED  BY <2>6, <2>7
  <1>6. new \in Tasks /\ new.at = next /\ AtCall(session, new)
    <2>1. calls = JobCalls[session][job.kind]  BY <1>4
    <2> HIDE DEF job, next, calls
    <2>2. /\ next \in 1 .. Len(JobCalls[session][job.kind])
          /\ Made(JobCalls[session][job.kind][next], FALSE)
      BY <1>5, <2>1
    <2>3. LET reached == At(job, JobCalls[session][job.kind], next)
          IN  reached \in Tasks /\ reached.at = next /\ AtCall(session, reached)
      BY <1>4, <2>2, AtTyped DEF Inv
    <2>4. QED  BY <2>1, <2>3
  <1> HIDE DEF new
  <1>7. /\ Dirty(jobs) \in Seq(Tasks) /\ Len(Dirty(jobs)) \in Nat
        /\ DOMAIN Dirty(jobs) = 1 .. Len(Dirty(jobs))
        /\ \A j \in DOMAIN Dirty(jobs) : AtCall(session, Dirty(jobs)[j])
    <2>1. Dirty(jobs) \in Seq(Tasks)  BY DirtyIs DEF Inv
    <2>2. \A j \in DOMAIN Dirty(jobs) : AtCall(session, Dirty(jobs)[j])
      BY DirtyIs DEF Inv, Types, AtCall
    <2>3. QED  BY <2>1, <2>2, LenProperties
  <1>8. /\ jobs' \in Seq(Tasks) /\ Len(jobs') = Len(Dirty(jobs)) + 1
        /\ DOMAIN jobs' = 1 .. Len(Dirty(jobs)) + 1
        /\ \A j \in 1 .. Len(Dirty(jobs)) : jobs'[j] = Dirty(jobs)[j]
        /\ jobs'[Len(Dirty(jobs)) + 1] = new
    BY <1>1, <1>6, <1>7, AppendProperties, LenProperties
  <1>9. \A j \in DOMAIN jobs' : AtCall(session, jobs'[j])
    <2>1. SUFFICES ASSUME NEW j \in DOMAIN jobs' PROVE AtCall(session, jobs'[j])
      OBVIOUS
    <2>2. CASE j \in 1 .. Len(Dirty(jobs))  BY <1>7, <1>8, <2>2
    <2>3. CASE j \notin 1 .. Len(Dirty(jobs))
      <3>1. j = Len(Dirty(jobs)) + 1  BY <1>7, <1>8, <2>3
      <3>2. QED  BY <1>6, <1>8, <3>1
    <2>4. QED  BY <2>2, <2>3
  <1>10. TasksTyped'
    <2>1. /\ DOMAIN loader' = {"at", "got", "failed", "clean"}
          /\ loader'.at \in 0 .. Len(LoadCalls[session])
          /\ loader'.failed \in BOOLEAN /\ loader'.clean \in BOOLEAN
      BY <1>1 DEF Inv, Types
    <2>2. QED  BY <1>1, <1>8, <1>9, <2>1 DEF TasksTyped
  <1>11. RestTyped'  BY <1>1, <1>2 DEF Inv, Types, RestTyped, Ports
  <1>12. LoadingHasTask'
    <2>1. Len(Dirty(jobs)) + 1 \in DOMAIN jobs'  BY <1>7, <1>8
    <2> HIDE DEF next
    <2>2. next # 0  BY <1>3, <1>5
    <2>3. jobs'[Len(Dirty(jobs)) + 1].at # 0  BY <1>6, <1>8, <2>2
    <2>4. QED  BY <2>1, <2>3 DEF LoadingHasTask, NoTask, Busy
  <1>13. QED  BY <1>10, <1>11, <1>12, TypesParts DEF Inv

\* A busy click is at one of its calls.
LEMMA BusyAt ==
  ASSUME Inv, NEW j \in DOMAIN jobs, Busy(j)
  PROVE  LET calls == JobCalls[session][jobs[j].kind]
         IN  /\ Len(calls) \in Nat /\ jobs[j].at \in 1 .. Len(calls)
             /\ jobs[j].at + 1 \in 1 .. Len(calls) + 1
             /\ AfterSection(calls, jobs[j].at) \in 1 .. Len(calls) + 1
             /\ jobs[j].failed \in BOOLEAN
             /\ CallOf(j).op \in Range(General) => jobs[j].value \in Nat
  <1> DEFINE calls == JobCalls[session][jobs[j].kind]
  <1>1. jobs[j] \in Tasks /\ AtCall(session, jobs[j]) /\ session \in Sessions
    BY ElementOfSeq DEF Inv, Types
  <1>2. jobs[j].kind \in {"apply", "save"} /\ jobs[j].at \in Nat
        /\ jobs[j].failed \in BOOLEAN
    BY <1>1 DEF Tasks
  <1>3. Len(calls) \in Nat  BY <1>1, <1>2, Calls
  <1>4. jobs[j].at # 0 /\ jobs[j].at <= Len(calls)
    BY <1>1 DEF Busy, AtCall
  <1>5. CallOf(j).op \in Range(General) => jobs[j].value \in Nat
    BY <1>1, <1>4 DEF AtCall, CallOf
  <1> HIDE DEF calls
  <1>6. jobs[j].at \in 1 .. Len(calls) /\ jobs[j].at + 1 \in 1 .. Len(calls) + 1
    BY <1>2, <1>3, <1>4
  <1>7. AfterSection(calls, jobs[j].at) \in 1 .. Len(calls) + 1
    <2>1. AfterSection(calls, jobs[j].at) \in jobs[j].at .. Len(calls) + 1
      BY <1>3, <1>6, AfterSectionIs
    <2>2. QED  BY <1>3, <1>6, <2>1
  <1>8. QED  BY <1>2, <1>3, <1>5, <1>6, <1>7 DEF calls

\* A step of a click, as far as the types go.
LEMMA JobGoesOn ==
  ASSUME Inv, NEW j \in DOMAIN jobs,
         NEW k \in 1 .. Len(JobCalls[session][jobs[j].kind]) + 1,
         NEW failed \in BOOLEAN, GoOn(j, k, failed), JobStep(j),
         config' \in [Range(General) -> Nat], flash'.config \in [Range(General) -> Nat],
         NEW ok \in BOOLEAN, Fault(ok)
  PROVE  Inv'
  <1>1. /\ session' = session
        /\ UNCHANGED <<general, panel, open, queued, loader, panicked>>
    BY DEF JobStep, texts
  <1>2. /\ jobs' \in Seq(Tasks) /\ DOMAIN jobs' = DOMAIN jobs
        /\ \A i \in DOMAIN jobs : AtCall(session, jobs'[i])
        /\ loading' \in BOOLEAN
        /\ ~loading' \/ (loading' = loading /\ jobs'[j].at # 0)
    BY <1>1, GoOnTyped DEF Inv
  <1>3. left' \in [Acts -> Nat]  BY FaultTyped DEF Inv
  <1>4. TasksTyped'  BY <1>1, <1>2 DEF Inv, Types, TasksTyped
  <1>5. RestTyped'  BY <1>1, <1>2, <1>3 DEF Inv, Types, RestTyped, Ports
  <1>6. LoadingHasTask'  BY <1>2 DEF LoadingHasTask, NoTask, Busy
  <1>7. QED  BY <1>4, <1>5, <1>6, TypesParts DEF Inv

LEMMA WriteGeneralStep ==
  ASSUME Inv, NEW j \in DOMAIN jobs, NEW done \in BOOLEAN, WriteGeneral(j, done)
  PROVE  Inv'
  <1>1. /\ JobStep(j) /\ Busy(j) /\ CallOf(j).op \in Range(General)
        /\ config' = IF done THEN [config EXCEPT ![CallOf(j).op] = jobs[j].value]
                     ELSE config
        /\ Fault(done) /\ GoOn(j, jobs[j].at + 1, jobs[j].failed) /\ flash' = flash
    BY DEF WriteGeneral, JobStep
  <1>2. /\ jobs[j].at + 1 \in 1 .. Len(JobCalls[session][jobs[j].kind]) + 1
        /\ jobs[j].failed \in BOOLEAN /\ jobs[j].value \in Nat
    BY <1>1, BusyAt
  <1>3. /\ config' \in [Range(General) -> Nat]
        /\ flash'.config \in [Range(General) -> Nat]
    BY <1>1, <1>2 DEF Inv, Types
  <1>4. QED  BY <1>1, <1>2, <1>3, JobGoesOn

LEMMA WritePanelStep ==
  ASSUME Inv, NEW j \in DOMAIN jobs, NEW done \in BOOLEAN, NEW answered \in BOOLEAN,
         WritePanel(j, done, answered)
  PROVE  Inv'
  <1> DEFINE calls == JobCalls[session][jobs[j].kind]
  <1>1. /\ JobStep(j) /\ Busy(j) /\ Fault(answered) /\ UNCHANGED <<config, flash>>
        /\ answered => GoOn(j, jobs[j].at + 1, jobs[j].failed)
        /\ ~answered => GoOn(j, AfterSection(calls, jobs[j].at), TRUE)
    BY DEF WritePanel, JobStep
  <1>2. /\ jobs[j].at + 1 \in 1 .. Len(calls) + 1
        /\ AfterSection(calls, jobs[j].at) \in 1 .. Len(calls) + 1
        /\ jobs[j].failed \in BOOLEAN
    BY <1>1, BusyAt
  <1>3. /\ config' \in [Range(General) -> Nat]
        /\ flash'.config \in [Range(General) -> Nat]
    BY <1>1 DEF Inv, Types
  <1>4. CASE answered  BY <1>1, <1>2, <1>3, <1>4, JobGoesOn
  <1>5. CASE ~answered  BY <1>1, <1>2, <1>3, <1>5, JobGoesOn
  <1>6. QED  BY <1>4, <1>5

LEMMA FlashStep ==
  ASSUME Inv, NEW j \in DOMAIN jobs, NEW done \in BOOLEAN, NEW answered \in BOOLEAN,
         FlashSettings(j, done, answered)
  PROVE  Inv'
  <1>1. /\ JobStep(j) /\ Busy(j) /\ Fault(answered) /\ config' = config
        /\ flash' = IF done THEN [regs |-> regs, config |-> config] ELSE flash
        /\ GoOn(j, jobs[j].at + 1, ~answered)
    BY DEF FlashSettings, JobStep
  <1>2. jobs[j].at + 1 \in 1 .. Len(JobCalls[session][jobs[j].kind]) + 1
    BY <1>1, BusyAt
  <1>3. /\ config' \in [Range(General) -> Nat]
        /\ flash'.config \in [Range(General) -> Nat]
    BY <1>1 DEF Inv, Types
  <1>4. (~answered) \in BOOLEAN  OBVIOUS
  <1>5. QED  BY <1>1, <1>2, <1>3, <1>4, JobGoesOn

\* The types, and that a busy page has a task, are an invariant.
LEMMA InvHolds == SettingsSpec => []Inv
  <1>1. SettingsInit => Inv  BY InvInit
  <1>2. Inv /\ [SettingsNext]_settingsVars => Inv'
    <2> SUFFICES ASSUME Inv, [SettingsNext]_settingsVars PROVE Inv'
      OBVIOUS
    <2>1. CASE Toggle \/ Reload  BY <2>1, PageSteps
    <2>2. CASE Type  BY <2>2, TypeSteps
    <2>3. CASE LoadDefaults  BY <2>3, LoadDefaultsStep
    <2>4. CASE LosePower  BY <2>4, LosePowerStep
    <2>5. CASE Load
      BY <2>5, LoadStartsStep, LoadGeneralStep, LoadRegisterStep DEF Load
    <2>6. CASE \E kind \in {"apply", "save"} : Click(kind)  BY <2>6, ClickStep
    <2>7. CASE \E j \in DOMAIN jobs : Job(j)
      BY <2>7, WriteGeneralStep, WritePanelStep, FlashStep DEF Job
    <2>8. CASE UNCHANGED settingsVars
      <3>1. /\ UNCHANGED <<session, config, flash, general, panel, open, loading>>
            /\ UNCHANGED <<queued, loader, jobs, panicked, left>>
        BY <2>8 DEF settingsVars, device, texts
      <3>2. TasksTyped'  BY <3>1, SameTasks DEF Inv
      <3>3. RestTyped'  BY <3>1 DEF Inv, Types, RestTyped, Ports
      <3>4. LoadingHasTask'  BY <3>1 DEF Inv, LoadingHasTask, NoTask, Busy
      <3>5. QED  BY <3>2, <3>3, <3>4, TypesParts DEF Inv
    <2>9. QED
      BY <2>1, <2>2, <2>3, <2>4, <2>5, <2>6, <2>7, <2>8 DEF SettingsNext
  <1>3. QED  BY <1>1, <1>2, PTL DEF SettingsSpec

\* The buttons are disabled (1348-1371) only while a load or a click is under
\* way to enable them again, whatever failed and whatever overlapped.
THEOREM BusyPageHasTask == SettingsSpec => []LoadingHasTask
  <1>1. Inv => LoadingHasTask  BY DEF Inv
  <1>2. QED  BY <1>1, InvHolds, PTL

(***************************************************************************)
(* What a load shows.                                                      *)
(***************************************************************************)
\* What an undisturbed load has so far: what the registers hold, of every call
\* behind it unless one failed.
AddressOf(call) == <<call.port, Reads[session][call.field].at[call.byte]>>

Undisturbed ==
  loader.clean =>
    /\ loader.at > 0 /\ \A j \in DOMAIN jobs : jobs[j].at = 0
    /\ \A x \in DOMAIN loader.got : loader.got[x] = regs[x[1]][x[2]]
    /\ loader.failed \/ \A k \in 4 .. loader.at - 1 :
                          AddressOf(LoadCalls[session][k]) \in DOMAIN loader.got
\* A load that goes on, undisturbed so far.
LEMMA ReadGoesOn ==
  ASSUME Inv, NEW k \in 1 .. Len(LoadCalls[session]) + 1, NEW got, NEW failed,
         LoadGoesOn(k, got, failed), UNCHANGED <<session, regs, jobs>>,
         loader.clean =>
           /\ \A j \in DOMAIN jobs : jobs[j].at = 0
           /\ \A x \in DOMAIN got : got[x] = regs[x[1]][x[2]]
           /\ failed \/ \A l \in 4 .. k - 1 :
                          AddressOf(LoadCalls[session][l]) \in DOMAIN got
  PROVE  Undisturbed'
  <1>1. CASE k <= Len(LoadCalls[session])
    <2>1. loader' = [loader EXCEPT !.at = k, !.got = got, !.failed = failed]
      BY <1>1 DEF LoadGoesOn
    <2>2. /\ loader'.at = k /\ loader'.got = got /\ loader'.failed = failed
          /\ loader'.clean = loader.clean
      BY <2>1 DEF Inv, Types
    <2>3. k > 0  OBVIOUS
    <2>4. QED  BY Zenon, <2>2, <2>3 DEF Undisturbed, AddressOf
  <1>2. CASE ~ (k <= Len(LoadCalls[session]))
    <2>1. loader' = NoLoad  BY <1>2 DEF LoadGoesOn
    <2>2. QED  BY <2>1 DEF Undisturbed, NoLoad
  <1>3. QED  BY <1>1, <1>2

LEMMA ReadGeneral ==
  ASSUME Inv, Undisturbed, NEW answered \in BOOLEAN, LoadGeneral(answered)
  PROVE  /\ loader.at \in 1 .. 3
         /\ LoadGoesOn(loader.at + 1, loader.got, loader.failed)
         /\ loader.at + 1 \in 1 .. Len(LoadCalls[session]) + 1
         /\ UNCHANGED <<session, regs, jobs>>
         /\ loader.clean =>
              /\ \A j \in DOMAIN jobs : jobs[j].at = 0
              /\ \A x \in DOMAIN loader.got : loader.got[x] = regs[x[1]][x[2]]
              /\ loader.failed \/ \A l \in 4 .. loader.at + 1 - 1 :
                   AddressOf(LoadCalls[session][l]) \in DOMAIN loader.got
  <1>1. /\ loader.at \in 1 .. 3
        /\ LoadGoesOn(loader.at + 1, loader.got, loader.failed)
        /\ UNCHANGED <<session, regs, jobs>>
    BY DEF LoadGeneral, device
  <1>2. loader.at + 1 \in 1 .. Len(LoadCalls[session]) + 1
    BY <1>1, Calls DEF Inv, Types
  <1>3. 4 .. loader.at + 1 - 1 = {}  BY <1>1
  <1>4. QED  BY <1>1, <1>2, <1>3 DEF Undisturbed

\* What a register adds to what was read.
LEMMA ReadRegister ==
  ASSUME Inv, Undisturbed, NEW answered \in BOOLEAN, LoadRegister(answered)
  PROVE  \E k \in 1 .. Len(LoadCalls[session]) + 1 : \E got, failed :
           /\ LoadGoesOn(k, got, failed) /\ UNCHANGED <<session, regs, jobs>>
           /\ loader.clean =>
                /\ \A j \in DOMAIN jobs : jobs[j].at = 0
                /\ \A x \in DOMAIN got : got[x] = regs[x[1]][x[2]]
                /\ failed \/ \A l \in 4 .. k - 1 :
                     AddressOf(LoadCalls[session][l]) \in DOMAIN got
  <1> DEFINE calls == LoadCalls[session]
             address == AddressOf(calls[loader.at])
             read == Put(loader.got, address, regs[address[1]][address[2]])
  <1>1. /\ loader.at > 3 /\ UNCHANGED <<session, regs, jobs>>
        /\ answered => LoadGoesOn(loader.at + 1, read, loader.failed)
        /\ ~answered => LoadGoesOn(AfterSection(calls, loader.at), loader.got, TRUE)
    BY Zenon DEF LoadRegister, AddressOf, device
  <1>2. Len(calls) \in Nat /\ loader.at \in 0 .. Len(calls) /\ loader.failed \in BOOLEAN
    BY Calls DEF Inv, Types
  <1> HIDE DEF calls
  <1>3. loader.at \in 1 .. Len(calls) /\ loader.at + 1 \in 1 .. Len(calls) + 1
    <2>1. loader.at > 3  BY <1>1
    <2>2. QED  BY <1>2, <2>1
  <1>4. CASE answered
    <2>1. /\ DOMAIN read = DOMAIN loader.got \cup {address}
          /\ \A x \in DOMAIN read :
               read[x] = IF x = address THEN regs[address[1]][address[2]]
                         ELSE loader.got[x]
      <3> HIDE DEF address
      <3>1. QED  BY DEF Put
    <2>2. loader.clean => \A x \in DOMAIN read : read[x] = regs[x[1]][x[2]]
      <3> HIDE DEF address, read
      <3>1. QED  BY <2>1 DEF Undisturbed
    <2>3. (loader.clean /\ ~loader.failed)
            => \A l \in 4 .. loader.at + 1 - 1 : AddressOf(calls[l]) \in DOMAIN read
      <3>1. SUFFICES ASSUME loader.clean, ~loader.failed,
                            NEW l \in 4 .. loader.at + 1 - 1
                     PROVE  AddressOf(calls[l]) \in DOMAIN read
        OBVIOUS
      <3>2. l = loader.at \/ l \in 4 .. loader.at - 1  BY <1>3
      <3>3. CASE l = loader.at  BY <2>1, <3>3
      <3>4. CASE l \in 4 .. loader.at - 1
        <4>1. AddressOf(calls[l]) \in DOMAIN loader.got
          BY <3>1, <3>4 DEF Undisturbed, calls
        <4> HIDE DEF read
        <4>2. QED  BY <2>1, <4>1
      <3>5. QED  BY <3>2, <3>3, <3>4
    <2>4. loader.clean => \A j \in DOMAIN jobs : jobs[j].at = 0
      BY DEF Undisturbed
    <2>5. LoadGoesOn(loader.at + 1, read, loader.failed)  BY <1>1, <1>4
    <2> HIDE DEF read
    <2>6. QED  BY <1>1, <1>2, <1>3, <2>2, <2>3, <2>4, <2>5 DEF calls
  <1>5. CASE ~answered
    <2>1. AfterSection(calls, loader.at) \in 1 .. Len(calls) + 1
      BY <1>2, <1>3, AfterSectionIs
    <2>2. LoadGoesOn(AfterSection(calls, loader.at), loader.got, TRUE)
      BY <1>1, <1>5
    <2>3. loader.clean =>
            /\ \A j \in DOMAIN jobs : jobs[j].at = 0
            /\ \A x \in DOMAIN loader.got : loader.got[x] = regs[x[1]][x[2]]
      BY DEF Undisturbed
    <2> DEFINE k == AfterSection(calls, loader.at)
    <2> HIDE DEF k
    <2>4. /\ LoadGoesOn(k, loader.got, TRUE) /\ UNCHANGED <<session, regs, jobs>>
          /\ loader.clean =>
               /\ \A j \in DOMAIN jobs : jobs[j].at = 0
               /\ \A x \in DOMAIN loader.got : loader.got[x] = regs[x[1]][x[2]]
               /\ TRUE \/ \A l \in 4 .. k - 1 :
                    AddressOf(LoadCalls[session][l]) \in DOMAIN loader.got
      BY <1>1, <2>2, <2>3 DEF k
    <2>5. k \in 1 .. Len(LoadCalls[session]) + 1  BY <2>1 DEF k, calls
    <2> USE <2>5
    <2> WITNESS k \in 1 .. Len(LoadCalls[session]) + 1
    <2> WITNESS loader.got, TRUE
    <2>6. QED  BY <2>4
  <1>6. QED  BY <1>4, <1>5

\* Undisturbed is an invariant.
LEMMA UndisturbedStep ==
  Inv /\ Undisturbed /\ [SettingsNext]_settingsVars => Undisturbed'
  <1> SUFFICES ASSUME Inv, Undisturbed, [SettingsNext]_settingsVars
               PROVE  Undisturbed'
    OBVIOUS
  <1>1. ASSUME UNCHANGED <<session, regs, loader, jobs>> PROVE Undisturbed'
    BY Zenon, <1>1 DEF Undisturbed, AddressOf
  <1>2. ASSUME loader' = [loader EXCEPT !.clean = FALSE] PROVE Undisturbed'
    <2>1. loader'.clean = FALSE  BY <1>2 DEF Inv, Types
    <2>2. QED  BY <2>1 DEF Undisturbed
  <1>3. CASE Toggle \/ Reload
    BY <1>1, <1>3 DEF Toggle, Reload, device
  <1>4. CASE Type \/ LoadDefaults \/ LosePower
    BY Zenon, <1>2, <1>4 DEF Type, Edit, EditGeneral, LoadDefaults, LosePower, Disturb
  <1>5. CASE \E kind \in {"apply", "save"} : Click(kind)
    BY Zenon, <1>2, <1>5 DEF Click
  <1>6. CASE LoadStarts
    <2>1. /\ loader' = [at |-> 1, got |-> << >>, failed |-> FALSE, clean |-> NoTask]
          /\ jobs' = Dirty(jobs)
      BY <1>6 DEF LoadStarts
    <2>2. /\ loader'.at = 1 /\ loader'.got = << >> /\ loader'.clean = NoTask
      BY <2>1
    <2>3. DOMAIN loader'.got = {}  BY <2>2
    <2>4. 4 .. loader'.at - 1 = {}  BY <2>2
    <2>5. NoTask => \A j \in DOMAIN jobs' : jobs'[j].at = 0
      BY <2>1, DirtyIs DEF Inv, NoTask, Busy
    <2>6. QED  BY <2>2, <2>3, <2>4, <2>5 DEF Undisturbed
  <1>7. CASE \E answered \in BOOLEAN : LoadGeneral(answered)
    BY <1>7, ReadGeneral, ReadGoesOn
  <1>8. CASE \E answered \in BOOLEAN : LoadRegister(answered)
    BY <1>8, ReadRegister, ReadGoesOn
  <1>9. CASE \E j \in DOMAIN jobs : Job(j)
    <2>1. PICK j \in DOMAIN jobs : Job(j)  BY <1>9
    <2>2. Busy(j) /\ loader' = loader
      BY <2>1 DEF Job, WriteGeneral, WritePanel, FlashSettings, JobStep
    <2>3. loader.clean = FALSE
      BY <2>2 DEF Undisturbed, Busy, Inv, Types
    <2>4. QED  BY <2>2, <2>3 DEF Undisturbed
  <1>10. CASE UNCHANGED settingsVars
    BY <1>1, <1>10 DEF settingsVars, device
  <1>11. QED
    BY <1>3, <1>4, <1>5, <1>6, <1>7, <1>8, <1>9, <1>10 DEF SettingsNext, Load

\* The panels hold what was read, field by field.
LEMMA PanelsShowRegisters ==
  ASSUME Inv, NEW got,
         \A x \in DOMAIN got : got[x] = regs[x[1]][x[2]],
         \A l \in 4 .. Len(LoadCalls[session]) :
           AddressOf(LoadCalls[session][l]) \in DOMAIN got,
         NEW p \in Ports, NEW read \in Range(Reads[session])
  PROVE  Panels(got)[p][read.name] =
           Shown(read.name, [i \in DOMAIN read.at |-> regs[p][read.at[i]]])
  <1> DEFINE calls == LoadCalls[session]
  <1>1. session \in Sessions  BY DEF Inv, Types
  <1>2. PICK i \in DOMAIN Reads[session] : read = Reads[session][i]
    BY DEF Range
  <1>3. ASSUME NEW j \in DOMAIN read.at
        PROVE  got[<<p, read.at[j]>>] = regs[p][read.at[j]]
    <2>1. p \in PortsOf(session)  BY PortsAre
    <2>2. PICK k \in 4 .. Len(calls) : calls[k] = Register(p, i, j)
      BY <1>1, <1>2, <1>3, <2>1, LoadCallsAre
    <2>3. AddressOf(calls[k]) = <<p, read.at[j]>>
      BY <1>2, <2>2 DEF AddressOf, Register
    <2>4. <<p, read.at[j]>> \in DOMAIN got  BY <2>2, <2>3
    <2>5. QED  BY <2>4
  <1>4. (CHOOSE r \in Range(Reads[session]) : r.name = read.name) = read
    <2>1. \A r \in Range(Reads[session]) : r.name = read.name => r = read
      BY <1>1, ReadsAreFields DEF Named
    <2>2. QED  BY <2>1
  <1>5. read.name \in DOMAIN panel[p]
    BY <1>1, ReadsAreFields DEF Inv, Types
  <1>6. Panels(got)[p][read.name] =
          Shown(read.name, [j \in DOMAIN read.at |-> got[<<p, read.at[j]>>]])
    BY <1>4, <1>5 DEF Panels
  <1>7. [j \in DOMAIN read.at |-> got[<<p, read.at[j]>>]]
          = [j \in DOMAIN read.at |-> regs[p][read.at[j]]]
    BY <1>3
  <1>8. QED  BY <1>6, <1>7

\* An undisturbed load that ends and says "Loaded" has set the panels.
LEMMA LoadShows ==
  ASSUME Inv, NEW k \in 1 .. Len(LoadCalls[session]) + 1, NEW got, NEW failed,
         LoadGoesOn(k, got, failed),
         loader.clean, loader'.at = 0, status' = "Loaded",
         \A j \in DOMAIN jobs : jobs[j].at = 0,
         \A x \in DOMAIN got : got[x] = regs[x[1]][x[2]],
         failed \/ \A l \in 4 .. k - 1 :
                     AddressOf(LoadCalls[session][l]) \in DOMAIN got,
         NEW p \in Ports, NEW read \in Range(Reads[session])
  PROVE  panel'[p][read.name] =
           Shown(read.name, [i \in DOMAIN read.at |-> regs[p][read.at[i]]])
  <1>1. Len(LoadCalls[session]) \in Nat  BY Calls DEF Inv, Types
  <1>2. ~ (k <= Len(LoadCalls[session]))
    <2>1. SUFFICES ASSUME k <= Len(LoadCalls[session]) PROVE FALSE
      OBVIOUS
    <2>2. loader' = [loader EXCEPT !.at = k, !.got = got, !.failed = failed]
      BY <2>1 DEF LoadGoesOn
    <2>3. loader'.at = k  BY <2>2 DEF Inv, Types
    <2>4. QED  BY <2>3
  <1>3. k - 1 = Len(LoadCalls[session])  BY <1>1, <1>2
  <1>4. ~ \E q \in Ports : Borrowed(q)  BY DEF Borrowed, Busy
  <1>5. ~failed /\ panel' = Panels(got)
    BY <1>2, <1>4 DEF LoadGoesOn
  <1>6. \A l \in 4 .. Len(LoadCalls[session]) :
          AddressOf(LoadCalls[session][l]) \in DOMAIN got
    BY <1>3, <1>5
  <1>7. QED  BY Zenon, <1>5, <1>6, PanelsShowRegisters

\* A load that nothing disturbed and that says "Loaded" (1185) shows in every
\* field of both sensors what their registers hold, and none left from before.
THEOREM LoadShowsRegisters == SettingsSpec => LoadedIsRead
  <1>1. SettingsInit => Undisturbed
    <2>1. NoLoad.clean = FALSE  BY DEF NoLoad
    <2>2. QED  BY Zenon, <2>1 DEF SettingsInit, Undisturbed
  <1>2. ASSUME Inv, Undisturbed, [SettingsNext]_settingsVars,
               loader.clean, loader'.at = 0, status' = "Loaded",
               NEW p \in Ports, NEW read \in Range(Reads[session])
        PROVE  panel'[p][read.name] =
                 Shown(read.name, [i \in DOMAIN read.at |-> regs[p][read.at[i]]])
    <2>1. /\ loader.at > 0 /\ \A j \in DOMAIN jobs : jobs[j].at = 0
      BY <1>2 DEF Undisturbed
    <2>2. loader.at # 0  BY <1>2, <2>1
    <2>3. loader' # loader /\ loader' # [loader EXCEPT !.clean = FALSE]
      BY <1>2, <2>2 DEF Inv, Types
    <2>4. CASE \E answered \in BOOLEAN : LoadGeneral(answered)
      BY <1>2, <2>4, ReadGeneral, LoadShows
    <2>5. CASE \E answered \in BOOLEAN : LoadRegister(answered)
      BY <1>2, <2>5, ReadRegister, LoadShows
    <2>6. ~LoadStarts  BY <2>2 DEF LoadStarts
    <2>7. ~ (Toggle \/ Reload \/ Type \/ LoadDefaults \/ LosePower)
      BY Zenon, <2>3 DEF Toggle, Reload, Type, Edit, EditGeneral, LoadDefaults,
                 LosePower, Disturb
    <2>8. ~ \E kind \in {"apply", "save"} : Click(kind)
      BY Zenon, <2>3 DEF Click
    <2>9. ~ \E j \in DOMAIN jobs : Job(j)
      BY Zenon, <2>3 DEF Job, WriteGeneral, WritePanel, FlashSettings, JobStep
    <2>10. ~ UNCHANGED settingsVars  BY <2>3 DEF settingsVars
    <2>11. QED
      BY <1>2, <2>4, <2>5, <2>6, <2>7, <2>8, <2>9, <2>10 DEF SettingsNext, Load
  <1>3. Inv /\ Undisturbed /\ [SettingsNext]_settingsVars =>
          [loader.clean /\ loader'.at = 0 /\ status' = "Loaded" =>
             \A p \in Ports, read \in Range(Reads[session]) :
               panel'[p][read.name] =
                 Shown(read.name, [i \in DOMAIN read.at |->
                                     regs[p][read.at[i]]])]_settingsVars
    BY <1>2
  <1>4. QED
    BY <1>1, <1>3, InvHolds, UndisturbedStep, PTL DEF SettingsSpec, LoadedIsRead

(***************************************************************************)
(* The rows that are written.                                              *)
(***************************************************************************)
\* A row of a table of writes: its bytes, and what stands for no text.
Row(w) ==
  /\ w.at \in Seq(Address) /\ DOMAIN w.at = 1 .. Len(w.at) /\ Len(w.at) \in 1 .. 3
  /\ w.default \in Nat
  /\ w.name = "gain_index" => Len(w.at) = 2
  /\ w.name = "exposure_us" => Len(w.at) = 1
  /\ \A i \in DOMAIN w.at :
       /\ w.at[i] \notin DOMAIN TakenFrom
       /\ w.at[i] = <<1, 1>> => w.name = "sync"
       /\ w.name = "sync" => w.at[i] \in {<<1, 1>>, <<0, 1>>}

\* The row and the byte of an address, in the table of either sensor.
Home(x) ==
  IF x = <<12, 71>> THEN <<1, 1>>
  ELSE IF x = <<0, 15>> THEN <<2, 1>>
  ELSE IF x = <<12, 70>> THEN <<3, 1>>
  ELSE IF x = <<0, 11>> THEN <<4, 1>>
  ELSE IF x = <<0, 12>> THEN <<4, 2>>
  ELSE IF x = <<0, 25>> THEN <<5, 1>>
  ELSE IF x = <<0, 18>> THEN <<6, 1>>
  ELSE IF x = <<12, 15>> THEN <<7, 1>>
  ELSE IF x = <<12, 16>> THEN <<7, 2>>
  ELSE IF x = <<12, 7>> THEN <<8, 1>>
  ELSE IF x = <<12, 8>> THEN <<8, 2>>
  ELSE IF x = <<12, 9>> THEN <<8, 3>>
  ELSE IF x = <<0, 40>> THEN <<9, 1>>
  ELSE IF x = <<12, 11>> THEN <<10, 1>>
  ELSE IF x = <<12, 12>> THEN <<10, 2>>
  ELSE IF x = <<12, 96>> THEN <<11, 1>>
  ELSE IF x = <<12, 97>> THEN <<11, 2>>
  ELSE IF x = <<12, 98>> THEN <<12, 1>>
  ELSE IF x = <<12, 99>> THEN <<12, 2>>
  ELSE IF x = <<1, 1>> THEN <<13, 1>>
  ELSE IF x = <<0, 1>> THEN <<14, 1>>
  ELSE IF x = <<0, 19>> THEN <<1, 1>>
  ELSE IF x = <<0, 103>> THEN <<2, 1>>
  ELSE IF x = <<0, 104>> THEN <<3, 1>>
  ELSE IF x = <<0, 109>> THEN <<4, 1>>
  ELSE IF x = <<0, 110>> THEN <<5, 1>>
  ELSE IF x = <<0, 111>> THEN <<5, 2>>
  ELSE IF x = <<0, 112>> THEN <<6, 1>>
  ELSE IF x = <<0, 113>> THEN <<6, 2>>
  ELSE <<0, 0>>

\* The rows of the two sensors, one by one.
LEMMA PajRows ==
  \A k \in 1 .. 14 :
    /\ Row(PajWrites[k])
    /\ \A i \in DOMAIN PajWrites[k].at : Home(PajWrites[k].at[i]) = <<k, i>>
  <1>1. /\ Row(PajWrites[1])
        /\ \A i \in DOMAIN PajWrites[1].at : Home(PajWrites[1].at[i]) = <<1, i>>
    <2>1. /\ PajWrites[1].name = "brightness_threshold" /\ PajWrites[1].default = 0
          /\ PajWrites[1].at = << <<12, 71>> >>
      BY DEF PajWrites, Write
    <2>2. Home(<<12, 71>>) = <<1, 1>>
      BY DEF Home
    <2>3. <<12, 71>> \notin DOMAIN TakenFrom
      BY DEF TakenFrom
    <2>4. QED  BY <2>1, <2>2, <2>3 DEF Row, Address
  <1>2. /\ Row(PajWrites[2])
        /\ \A i \in DOMAIN PajWrites[2].at : Home(PajWrites[2].at[i]) = <<2, i>>
    <2>1. /\ PajWrites[2].name = "noise_threshold" /\ PajWrites[2].default = 0
          /\ PajWrites[2].at = << <<0, 15>> >>
      BY DEF PajWrites, Write
    <2>2. Home(<<0, 15>>) = <<2, 1>>
      BY DEF Home
    <2>3. <<0, 15>> \notin DOMAIN TakenFrom
      BY DEF TakenFrom
    <2>4. QED  BY <2>1, <2>2, <2>3 DEF Row, Address
  <1>3. /\ Row(PajWrites[3])
        /\ \A i \in DOMAIN PajWrites[3].at : Home(PajWrites[3].at[i]) = <<3, i>>
    <2>1. /\ PajWrites[3].name = "area_threshold_min" /\ PajWrites[3].default = 0
          /\ PajWrites[3].at = << <<12, 70>> >>
      BY DEF PajWrites, Write
    <2>2. Home(<<12, 70>>) = <<3, 1>>
      BY DEF Home
    <2>3. <<12, 70>> \notin DOMAIN TakenFrom
      BY DEF TakenFrom
    <2>4. QED  BY <2>1, <2>2, <2>3 DEF Row, Address
  <1>4. /\ Row(PajWrites[4])
        /\ \A i \in DOMAIN PajWrites[4].at : Home(PajWrites[4].at[i]) = <<4, i>>
    <2>1. /\ PajWrites[4].name = "area_threshold_max" /\ PajWrites[4].default = 0
          /\ PajWrites[4].at = << <<0, 11>>, <<0, 12>> >>
      BY DEF PajWrites, Write
    <2>2. Home(<<0, 11>>) = <<4, 1>> /\ Home(<<0, 12>>) = <<4, 2>>
      BY DEF Home
    <2>3. <<0, 11>> \notin DOMAIN TakenFrom /\ <<0, 12>> \notin DOMAIN TakenFrom
      BY DEF TakenFrom
    <2>4. QED  BY <2>1, <2>2, <2>3 DEF Row, Address
  <1>5. /\ Row(PajWrites[5])
        /\ \A i \in DOMAIN PajWrites[5].at : Home(PajWrites[5].at[i]) = <<5, i>>
    <2>1. /\ PajWrites[5].name = "max_object_cnt" /\ PajWrites[5].default = 16
          /\ PajWrites[5].at = << <<0, 25>> >>
      BY DEF PajWrites, Write
    <2>2. Home(<<0, 25>>) = <<5, 1>>
      BY DEF Home
    <2>3. <<0, 25>> \notin DOMAIN TakenFrom
      BY DEF TakenFrom
    <2>4. QED  BY <2>1, <2>2, <2>3 DEF Row, Address
  <1>6. /\ Row(PajWrites[6])
        /\ \A i \in DOMAIN PajWrites[6].at : Home(PajWrites[6].at[i]) = <<6, i>>
    <2>1. /\ PajWrites[6].name = "operation_mode" /\ PajWrites[6].default = 0
          /\ PajWrites[6].at = << <<0, 18>> >>
      BY DEF PajWrites, Write
    <2>2. Home(<<0, 18>>) = <<6, 1>>
      BY DEF Home
    <2>3. <<0, 18>> \notin DOMAIN TakenFrom
      BY DEF TakenFrom
    <2>4. QED  BY <2>1, <2>2, <2>3 DEF Row, Address
  <1>7. /\ Row(PajWrites[7])
        /\ \A i \in DOMAIN PajWrites[7].at : Home(PajWrites[7].at[i]) = <<7, i>>
    <2>1. /\ PajWrites[7].name = "exposure_time" /\ PajWrites[7].default = 0
          /\ PajWrites[7].at = << <<12, 15>>, <<12, 16>> >>
      BY DEF PajWrites, Write
    <2>2. Home(<<12, 15>>) = <<7, 1>> /\ Home(<<12, 16>>) = <<7, 2>>
      BY DEF Home
    <2>3. /\ <<12, 15>> \notin DOMAIN TakenFrom
          /\ <<12, 16>> \notin DOMAIN TakenFrom
      BY DEF TakenFrom
    <2>4. QED  BY <2>1, <2>2, <2>3 DEF Row, Address
  <1>8. /\ Row(PajWrites[8])
        /\ \A i \in DOMAIN PajWrites[8].at : Home(PajWrites[8].at[i]) = <<8, i>>
    <2>1. /\ PajWrites[8].name = "frame_period" /\ PajWrites[8].default = 49780
          /\ PajWrites[8].at = << <<12, 7>>, <<12, 8>>, <<12, 9>> >>
      BY DEF PajWrites, Write
    <2>2. /\ Home(<<12, 7>>) = <<8, 1>>
          /\ Home(<<12, 8>>) = <<8, 2>>
          /\ Home(<<12, 9>>) = <<8, 3>>
      BY DEF Home
    <2>3. /\ <<12, 7>> \notin DOMAIN TakenFrom
          /\ <<12, 8>> \notin DOMAIN TakenFrom
          /\ <<12, 9>> \notin DOMAIN TakenFrom
      BY DEF TakenFrom
    <2>4. QED  BY <2>1, <2>2, <2>3 DEF Row, Address
  <1>9. /\ Row(PajWrites[9])
        /\ \A i \in DOMAIN PajWrites[9].at : Home(PajWrites[9].at[i]) = <<9, i>>
    <2>1. /\ PajWrites[9].name = "frame_subtraction" /\ PajWrites[9].default = 0
          /\ PajWrites[9].at = << <<0, 40>> >>
      BY DEF PajWrites, Write
    <2>2. Home(<<0, 40>>) = <<9, 1>>
      BY DEF Home
    <2>3. <<0, 40>> \notin DOMAIN TakenFrom
      BY DEF TakenFrom
    <2>4. QED  BY <2>1, <2>2, <2>3 DEF Row, Address
  <1>10. /\ Row(PajWrites[10])
        /\ \A i \in DOMAIN PajWrites[10].at : Home(PajWrites[10].at[i]) = <<10, i>>
    <2>1. /\ PajWrites[10].name = "gain_index" /\ PajWrites[10].default = 0
          /\ PajWrites[10].at = << <<12, 11>>, <<12, 12>> >>
      BY DEF PajWrites, Write
    <2>2. Home(<<12, 11>>) = <<10, 1>> /\ Home(<<12, 12>>) = <<10, 2>>
      BY DEF Home
    <2>3. /\ <<12, 11>> \notin DOMAIN TakenFrom
          /\ <<12, 12>> \notin DOMAIN TakenFrom
      BY DEF TakenFrom
    <2>4. QED  BY <2>1, <2>2, <2>3 DEF Row, Address
  <1>11. /\ Row(PajWrites[11])
        /\ \A i \in DOMAIN PajWrites[11].at : Home(PajWrites[11].at[i]) = <<11, i>>
    <2>1. /\ PajWrites[11].name = "resolution_x" /\ PajWrites[11].default = 4095
          /\ PajWrites[11].at = << <<12, 96>>, <<12, 97>> >>
      BY DEF PajWrites, Write
    <2>2. Home(<<12, 96>>) = <<11, 1>> /\ Home(<<12, 97>>) = <<11, 2>>
      BY DEF Home
    <2>3. /\ <<12, 96>> \notin DOMAIN TakenFrom
          /\ <<12, 97>> \notin DOMAIN TakenFrom
      BY DEF TakenFrom
    <2>4. QED  BY <2>1, <2>2, <2>3 DEF Row, Address
  <1>12. /\ Row(PajWrites[12])
        /\ \A i \in DOMAIN PajWrites[12].at : Home(PajWrites[12].at[i]) = <<12, i>>
    <2>1. /\ PajWrites[12].name = "resolution_y" /\ PajWrites[12].default = 4095
          /\ PajWrites[12].at = << <<12, 98>>, <<12, 99>> >>
      BY DEF PajWrites, Write
    <2>2. Home(<<12, 98>>) = <<12, 1>> /\ Home(<<12, 99>>) = <<12, 2>>
      BY DEF Home
    <2>3. /\ <<12, 98>> \notin DOMAIN TakenFrom
          /\ <<12, 99>> \notin DOMAIN TakenFrom
      BY DEF TakenFrom
    <2>4. QED  BY <2>1, <2>2, <2>3 DEF Row, Address
  <1>13. /\ Row(PajWrites[13])
        /\ \A i \in DOMAIN PajWrites[13].at : Home(PajWrites[13].at[i]) = <<13, i>>
    <2>1. /\ PajWrites[13].name = "sync" /\ PajWrites[13].default = 1
          /\ PajWrites[13].at = << <<1, 1>> >>
      BY DEF PajWrites, Write
    <2>2. Home(<<1, 1>>) = <<13, 1>>
      BY DEF Home
    <2>3. <<1, 1>> \notin DOMAIN TakenFrom
      BY DEF TakenFrom
    <2>4. QED  BY <2>1, <2>2, <2>3 DEF Row, Address
  <1>14. /\ Row(PajWrites[14])
        /\ \A i \in DOMAIN PajWrites[14].at : Home(PajWrites[14].at[i]) = <<14, i>>
    <2>1. /\ PajWrites[14].name = "sync" /\ PajWrites[14].default = 1
          /\ PajWrites[14].at = << <<0, 1>> >>
      BY DEF PajWrites, Write
    <2>2. Home(<<0, 1>>) = <<14, 1>>
      BY DEF Home
    <2>3. <<0, 1>> \notin DOMAIN TakenFrom
      BY DEF TakenFrom
    <2>4. QED  BY <2>1, <2>2, <2>3 DEF Row, Address
  <1>15. QED
    BY <1>1, <1>2, <1>3, <1>4, <1>5, <1>6, <1>7, <1>8, <1>9,
       <1>10, <1>11, <1>12, <1>13, <1>14

LEMMA PagRows ==
  \A k \in 1 .. 6 :
    /\ Row(PagWrites[k])
    /\ \A i \in DOMAIN PagWrites[k].at : Home(PagWrites[k].at[i]) = <<k, i>>
  <1>1. /\ Row(PagWrites[1])
        /\ \A i \in DOMAIN PagWrites[1].at : Home(PagWrites[1].at[i]) = <<1, i>>
    <2>1. /\ PagWrites[1].name = "fps" /\ PagWrites[1].default = 180
          /\ PagWrites[1].at = << <<0, 19>> >>
      BY DEF PagWrites, Write
    <2>2. Home(<<0, 19>>) = <<1, 1>>
      BY DEF Home
    <2>3. <<0, 19>> \notin DOMAIN TakenFrom
      BY DEF TakenFrom
    <2>4. QED  BY <2>1, <2>2, <2>3 DEF Row, Address
  <1>2. /\ Row(PagWrites[2])
        /\ \A i \in DOMAIN PagWrites[2].at : Home(PagWrites[2].at[i]) = <<2, i>>
    <2>1. /\ PagWrites[2].name = "exposure_us" /\ PagWrites[2].default = 2000
          /\ PagWrites[2].at = << <<0, 103>> >>
      BY DEF PagWrites, Write
    <2>2. Home(<<0, 103>>) = <<2, 1>>
      BY DEF Home
    <2>3. <<0, 103>> \notin DOMAIN TakenFrom
      BY DEF TakenFrom
    <2>4. QED  BY <2>1, <2>2, <2>3 DEF Row, Address
  <1>3. /\ Row(PagWrites[3])
        /\ \A i \in DOMAIN PagWrites[3].at : Home(PagWrites[3].at[i]) = <<3, i>>
    <2>1. /\ PagWrites[3].name = "gain" /\ PagWrites[3].default = 2
          /\ PagWrites[3].at = << <<0, 104>> >>
      BY DEF PagWrites, Write
    <2>2. Home(<<0, 104>>) = <<3, 1>>
      BY DEF Home
    <2>3. <<0, 104>> \notin DOMAIN TakenFrom
      BY DEF TakenFrom
    <2>4. QED  BY <2>1, <2>2, <2>3 DEF Row, Address
  <1>4. /\ Row(PagWrites[4])
        /\ \A i \in DOMAIN PagWrites[4].at : Home(PagWrites[4].at[i]) = <<4, i>>
    <2>1. /\ PagWrites[4].name = "light_threshold" /\ PagWrites[4].default = 120
          /\ PagWrites[4].at = << <<0, 109>> >>
      BY DEF PagWrites, Write
    <2>2. Home(<<0, 109>>) = <<4, 1>>
      BY DEF Home
    <2>3. <<0, 109>> \notin DOMAIN TakenFrom
      BY DEF TakenFrom
    <2>4. QED  BY <2>1, <2>2, <2>3 DEF Row, Address
  <1>5. /\ Row(PagWrites[5])
        /\ \A i \in DOMAIN PagWrites[5].at : Home(PagWrites[5].at[i]) = <<5, i>>
    <2>1. /\ PagWrites[5].name = "area_lower" /\ PagWrites[5].default = 10
          /\ PagWrites[5].at = << <<0, 110>>, <<0, 111>> >>
      BY DEF PagWrites, Write
    <2>2. Home(<<0, 110>>) = <<5, 1>> /\ Home(<<0, 111>>) = <<5, 2>>
      BY DEF Home
    <2>3. /\ <<0, 110>> \notin DOMAIN TakenFrom
          /\ <<0, 111>> \notin DOMAIN TakenFrom
      BY DEF TakenFrom
    <2>4. QED  BY <2>1, <2>2, <2>3 DEF Row, Address
  <1>6. /\ Row(PagWrites[6])
        /\ \A i \in DOMAIN PagWrites[6].at : Home(PagWrites[6].at[i]) = <<6, i>>
    <2>1. /\ PagWrites[6].name = "area_upper" /\ PagWrites[6].default = 65535
          /\ PagWrites[6].at = << <<0, 112>>, <<0, 113>> >>
      BY DEF PagWrites, Write
    <2>2. Home(<<0, 112>>) = <<6, 1>> /\ Home(<<0, 113>>) = <<6, 2>>
      BY DEF Home
    <2>3. /\ <<0, 112>> \notin DOMAIN TakenFrom
          /\ <<0, 113>> \notin DOMAIN TakenFrom
      BY DEF TakenFrom
    <2>4. QED  BY <2>1, <2>2, <2>3 DEF Row, Address
  <1>7. QED
    BY <1>1, <1>2, <1>3, <1>4, <1>5, <1>6

(***************************************************************************)
(* The bytes of a text, and back.                                          *)
(***************************************************************************)
\* The value that is written for a text is a number.
LEMMA ParseIs ==
  ASSUME NEW text \in Text, NEW width, NEW default \in Nat
  PROVE  Parse(text, width, default) \in Nat
  BY DEF Parse, Parses, Text

\* The rows of the table of gains.
LEMMA GainIs ==
  ASSUME NEW index \in 0 .. 48
  PROVE  /\ index < 16 => GAIN_TABLE[index] = <<index, 0>>
         /\ 16 <= index /\ index < 32 => GAIN_TABLE[index] = <<index - 16, 2>>
         /\ 32 <= index => GAIN_TABLE[index] = <<index - 32, 3>>
  <1>1. index \in 0 .. LastGain  BY DEF LastGain
  <1>2. GAIN_TABLE[index] = IF index < 16 THEN Gain1x[index]
                            ELSE IF index < 32 THEN Gain2x[index] ELSE Gain4x[index]
    BY <1>1 DEF GAIN_TABLE
  <1>3. index < 16 => Gain1x[index] = <<index, 0>>  BY DEF Gain1x
  <1>4. 16 <= index /\ index < 32 => Gain2x[index] = <<index - 16, 2>>
    BY DEF Gain2x
  <1>5. 32 <= index => Gain4x[index] = <<index - 32, 3>>  BY DEF Gain4x
  <1>6. QED  BY <1>2, <1>3, <1>4, <1>5

\* Every byte of a row is written, and with a byte.
LEMMA WrittenIs ==
  ASSUME NEW w, Row(w), NEW text \in Text, NEW i \in DOMAIN w.at
  PROVE  Written(w, text)[i] \in Byte
  <1> DEFINE value == Parse(text, w.width, w.default)
  <1>1. value \in Nat  BY ParseIs DEF Row
  <1>2. i \in 1 .. 3 /\ i \in 1 .. Len(w.at)  BY DEF Row
  <1> HIDE DEF value
  <1>3. CASE w.name = "gain_index"
    <2> DEFINE index == IF value < LastGain THEN value ELSE LastGain
    <2>1. index \in 0 .. 48  BY <1>1 DEF LastGain
    <2>2. Written(w, text) = GAIN_TABLE[index]  BY <1>3 DEF Written, value
    <2> HIDE DEF index
    <2>3. \E low \in 0 .. 16, high \in {0, 2, 3} : GAIN_TABLE[index] = <<low, high>>
      <3>1. CASE index < 16
        <4>1. index \in 0 .. 16 /\ GAIN_TABLE[index] = <<index, 0>>
          BY <2>1, <3>1, GainIs
        <4>2. QED  BY <4>1
      <3>2. CASE 16 <= index /\ index < 32
        <4>1. index - 16 \in 0 .. 16 /\ GAIN_TABLE[index] = <<index - 16, 2>>
          BY <2>1, <3>2, GainIs
        <4>2. QED  BY <4>1
      <3>3. CASE 32 <= index
        <4>1. index - 32 \in 0 .. 16 /\ GAIN_TABLE[index] = <<index - 32, 3>>
          BY <2>1, <3>3, GainIs
        <4>2. QED  BY <4>1
      <3>4. QED  BY <2>1, <3>1, <3>2, <3>3
    <2>4. i \in 1 .. 2  BY <1>2, <1>3 DEF Row
    <2>5. QED  BY <2>2, <2>3, <2>4 DEF Byte
  <1>4. CASE w.name = "exposure_us"
    <2>1. Written(w, text) = <<Exposure(value)>>  BY <1>4 DEF Written, value
    <2>2. Exposure(value) \in Byte
      <3>1. (value \div 100) % 256 \in 0 .. 255  BY <1>1
      <3>2. QED  BY <3>1 DEF Exposure, Byte
    <2>3. i = 1  BY <1>2, <1>4 DEF Row
    <2>4. QED  BY <2>1, <2>2, <2>3
  <1>5. CASE w.name \notin {"gain_index", "exposure_us"}
    <2>1. Written(w, text) = ToBytes(value, Len(w.at))
      BY <1>5 DEF Written, value
    <2>2. Written(w, text)[i] = (value \div Place[i]) % 256
      BY <1>2, <2>1 DEF ToBytes
    <2>3. Place[i] \in {1, 256, 65536}  BY <1>2 DEF Place
    <2>4. value \div Place[i] \in Int
      BY <1>1, <2>3
    <2> DEFINE v == value \div Place[i]
    <2> HIDE DEF v
    <2>5. v % 256 \in 0 .. 255  BY <2>4 DEF v
    <2>6. QED  BY <2>2, <2>5 DEF v, Byte
  <1>6. QED  BY <1>3, <1>4, <1>5

\* A field shows a number, whatever bytes were read.
LEMMA ShownIs ==
  ASSUME NEW name, NEW bytes, Len(bytes) \in 1 .. 3,
         \A i \in 1 .. Len(bytes) : bytes[i] \in Byte,
         name = "gain_index" => Len(bytes) = 2
  PROVE  Shown(name, bytes) \in Nat
  <1>1. CASE name = "gain_index"
    <2>1. bytes[1] \in Nat /\ bytes[2] \in Nat
      <3>1. Byte \subseteq Nat  BY DEF Byte
      <3>2. 1 \in 1 .. Len(bytes) /\ 2 \in 1 .. Len(bytes)  BY <1>1
      <3>3. bytes[1] \in Byte /\ bytes[2] \in Byte  BY <3>2
      <3>4. QED  BY <3>1, <3>3
    <2>2. Shown(name, bytes) = gain_index_from_reg(bytes[1], bytes[2])
      BY <1>1 DEF Shown
    <2> DEFINE low == bytes[1]
               high == bytes[2]
    <2> HIDE DEF low, high
    <2>3. low \in Nat /\ high \in Nat  BY <2>1 DEF low, high
    <2>4. gain_index_from_reg(low, high) \in Nat
      BY <2>3 DEF gain_index_from_reg
    <2>5. QED  BY <2>2, <2>4 DEF low, high
  <1>2. CASE name = "exposure_us"
    <2> DEFINE low == bytes[1]
    <2>1. Shown(name, bytes) = (low % 128) * 100  BY <1>2 DEF Shown
    <2>2. low \in Byte  OBVIOUS
    <2> HIDE DEF low
    <2>3. (low % 128) * 100 \in Nat  BY <2>2 DEF Byte
    <2>4. QED  BY <2>1, <2>3
  <1>3. CASE name \notin {"gain_index", "exposure_us"}
    <2> DEFINE part(i) == IF i <= Len(bytes) THEN bytes[i] * Place[i] ELSE 0
    <2>1. Place[1] = 1 /\ Place[2] = 256 /\ Place[3] = 65536  BY DEF Place
    <2>2. \A i \in 1 .. 3 : i <= Len(bytes) => bytes[i] \in Nat
      <3>1. Byte \subseteq Nat  BY DEF Byte
      <3>2. \A i \in 1 .. 3 : i <= Len(bytes) => i \in 1 .. Len(bytes)
        OBVIOUS
      <3>3. QED  BY <3>1, <3>2
    <2>3. part(1) \in Nat /\ part(2) \in Nat /\ part(3) \in Nat
      BY <2>1, <2>2
    <2>4. Shown(name, bytes) = part(1) + part(2) + part(3)
      BY <1>3 DEF Shown, FromBytes
    <2> HIDE DEF part
    <2>5. QED  BY <2>3, <2>4
  <1>4. QED  BY <1>1, <1>2, <1>3

\* A text that a row can hold reads back as it was written: the gains of the
\* table, the exposure beside the LED's bit, and the numbers of up to 3 bytes.
THEOREM FieldsReadBack ==
  ASSUME NEW w, Row(w), NEW text \in Text, Fits(w, text),
         NEW bytes, Len(bytes) = Len(w.at),
         \A i \in 1 .. Len(w.at) : bytes[i] = Written(w, text)[i]
  PROVE  Shown(w.name, bytes) = text
  <1>1. text \in Nat /\ Parse(text, w.width, w.default) = text
    BY DEF Fits, Parses, Parse, Text
  <1>2. Len(w.at) \in 1 .. 3  BY DEF Row
  <1>3. CASE w.name = "gain_index"
    <2>1. text \in 0 .. 48
      <3>1. text <= LastGain  BY <1>3 DEF Fits
      <3>2. text <= 48  BY <3>1 DEF LastGain
      <3>3. text \in Nat  BY <1>1
      <3>4. QED  BY ONLY <3>2, <3>3
    <2>2. Written(w, text) = GAIN_TABLE[text]
      <3>1. (IF text < LastGain THEN text ELSE LastGain) = text
        <4>1. (IF text < 48 THEN text ELSE 48) = text  BY <2>1
        <4>2. QED  BY <4>1 DEF LastGain
      <3>2. QED  BY <1>1, <1>3, <3>1 DEF Written
    <2>3. text < 16 \/ (16 <= text /\ text < 32) \/ 32 <= text  BY ONLY <2>1
    <2>4. bytes[1] = GAIN_TABLE[text][1] /\ bytes[2] = GAIN_TABLE[text][2]
      BY <1>3, <2>2 DEF Row
    <2>5. Shown(w.name, bytes) = gain_index_from_reg(bytes[1], bytes[2])
      BY <1>3 DEF Shown
    <2>6. CASE text < 16
      <3>1. bytes[1] = text /\ bytes[2] = 0
        <4>1. GAIN_TABLE[text] = <<text, 0>>  BY <2>1, <2>6, GainIs
        <4>2. QED  BY <2>4, <4>1
      <3>2. gain_index_from_reg(text, 0) = text
        <4>1. (IF 0 > 0 THEN 0 - 1 ELSE 0) = 0  OBVIOUS
        <4>2. gain_index_from_reg(text, 0) = 0 * 16 + text
          BY <4>1 DEF gain_index_from_reg
        <4>3. text \in Nat  BY <1>1
        <4>4. QED  BY ONLY <4>2, <4>3
      <3>3. QED  BY <2>5, <3>1, <3>2
    <2>7. CASE 16 <= text /\ text < 32
      <3>1. bytes[1] = text - 16 /\ bytes[2] = 2
        <4>1. GAIN_TABLE[text] = <<text - 16, 2>>  BY <2>1, <2>7, GainIs
        <4>2. QED  BY <2>4, <4>1
      <3>2. gain_index_from_reg(text - 16, 2) = text
        <4>1. (IF 2 > 0 THEN 2 - 1 ELSE 0) = 1  OBVIOUS
        <4>2. gain_index_from_reg(text - 16, 2) = 1 * 16 + (text - 16)
          BY <4>1 DEF gain_index_from_reg
        <4>3. text \in Nat  BY <1>1
        <4>4. QED  BY ONLY <4>2, <4>3
      <3>3. QED  BY <2>5, <3>1, <3>2
    <2>8. CASE 32 <= text
      <3>1. bytes[1] = text - 32 /\ bytes[2] = 3
        <4>1. GAIN_TABLE[text] = <<text - 32, 3>>  BY <2>1, <2>8, GainIs
        <4>2. QED  BY <2>4, <4>1
      <3>2. gain_index_from_reg(text - 32, 3) = text
        <4>1. (IF 3 > 0 THEN 3 - 1 ELSE 0) = 2  OBVIOUS
        <4>2. gain_index_from_reg(text - 32, 3) = 2 * 16 + (text - 32)
          BY <4>1 DEF gain_index_from_reg
        <4>3. text \in Nat  BY <1>1
        <4>4. QED  BY ONLY <4>2, <4>3
      <3>3. QED  BY <2>5, <3>1, <3>2
    <2>9. QED  BY <2>3, <2>6, <2>7, <2>8
  <1>4. CASE w.name = "exposure_us"
    <2>1. text % 100 = 0 /\ text < 12800  BY <1>4 DEF Fits
    <2> DEFINE units == text \div 100
    <2>2. units \in 0 .. 127 /\ units * 100 = text
      <3>1. text = 100 * (text \div 100) + (text % 100) /\ text \div 100 \in Int
        BY <1>1
      <3>2. QED  BY <1>1, <2>1, <3>1
    <2> HIDE DEF units
    <2>3. units % 256 = units /\ (units + 128) % 128 = units  BY <2>2
    <2>4. Exposure(text) = units + 128
      <3>1. Exposure(text) = IF units % 256 < 128 THEN (units % 256) + 128
                             ELSE units % 256
        BY DEF Exposure, units
      <3>2. QED  BY <2>2, <2>3, <3>1
    <2>5. bytes[1] = units + 128
      <3>1. Written(w, text) = <<Exposure(text)>>  BY <1>1, <1>4 DEF Written
      <3>2. QED  BY <1>4, <2>4, <3>1 DEF Row
    <2>6. Shown(w.name, bytes) = (bytes[1] % 128) * 100  BY <1>4 DEF Shown
    <2>7. QED  BY <2>2, <2>3, <2>5, <2>6
  <1>5. CASE w.name \notin {"gain_index", "exposure_us"}
    <2>1. text < 256 * Place[Len(w.at)]
      <3>1. Len(w.at) < 4 => text < 256 * Place[Len(w.at)]  BY <1>5 DEF Fits
      <3>2. QED  BY <1>2, <3>1
    <2>2. \A i \in 1 .. Len(w.at) : bytes[i] = (text \div Place[i]) % 256
      <3>1. Written(w, text) = ToBytes(text, Len(w.at))
        BY <1>1, <1>5 DEF Written
      <3>2. QED  BY <1>2, <3>1 DEF ToBytes
    <2>3. Place[1] = 1 /\ Place[2] = 256 /\ Place[3] = 65536  BY DEF Place
    <2> DEFINE part(i) == IF i <= Len(bytes) THEN bytes[i] * Place[i] ELSE 0
    <2>4. Shown(w.name, bytes) = part(1) + part(2) + part(3)
      BY <1>5 DEF Shown, FromBytes
    <2>5. CASE Len(w.at) = 1
      <3>1. text < 256  BY <2>1, <2>3, <2>5
      <3>2. part(1) = text /\ part(2) = 0 /\ part(3) = 0
        <4>1. bytes[1] = text % 256
          BY <1>1, <2>2, <2>3, <2>5
        <4>2. QED  BY <1>1, <2>3, <2>5, <3>1, <4>1
      <3> HIDE DEF part
      <3>3. QED  BY <1>1, <2>4, <3>2
    <2>6. CASE Len(w.at) = 2
      <3>1. text < 65536  BY <2>1, <2>3, <2>6
      <3>2. bytes[1] = text % 256 /\ bytes[2] = (text \div 256) % 256
        BY <1>1, <2>2, <2>3, <2>6
      <3>3. part(1) = text % 256 /\ part(2) = (text \div 256) * 256 /\ part(3) = 0
        BY <1>1, <2>3, <2>6, <3>1, <3>2
      <3>4. (text % 256) + (text \div 256) * 256 = text  BY <1>1
      <3> HIDE DEF part
      <3>5. QED  BY <1>1, <2>4, <3>3, <3>4
    <2>7. CASE Len(w.at) = 3
      <3>1. text < 16777216  BY <2>1, <2>3, <2>7
      <3>2. /\ bytes[1] = text % 256 /\ bytes[2] = (text \div 256) % 256
            /\ bytes[3] = (text \div 65536) % 256
        BY <1>1, <2>2, <2>3, <2>7
      <3>3. /\ part(1) = text % 256 /\ part(2) = ((text \div 256) % 256) * 256
            /\ part(3) = (text \div 65536) * 65536
        BY <1>1, <2>3, <2>7, <3>1, <3>2
      <3>4. (text % 256) + ((text \div 256) % 256) * 256
              + (text \div 65536) * 65536 = text
        BY <1>1
      <3> HIDE DEF part
      <3>5. QED  BY <1>1, <2>4, <3>3, <3>4
    <2>8. QED  BY <1>2, <2>5, <2>6, <2>7
  <1>6. QED  BY <1>3, <1>4, <1>5

(***************************************************************************)
(* The order of the calls: a sensor takes over what was written only when  *)
(* everything else of its panel has been.                                  *)
(***************************************************************************)
\* Any element of a sequence is related to any later one.
Ordered(s, R) == \A a, b \in DOMAIN s : a < b => <<s[a], s[b]>> \in R

\* Any element of one sequence is related to any of another.
Before(s, t, R) == \A x \in Range(s), y \in Range(t) : <<x, y>> \in R

\* What joined sequences are ordered by.
LEMMA ConcatOrdered ==
  ASSUME NEW S, NEW R, NEW s \in Seq(S), NEW t \in Seq(S),
         Ordered(s, R), Ordered(t, R), Before(s, t, R)
  PROVE  Ordered(s \o t, R)
  <1>1. /\ Len(s) \in Nat /\ DOMAIN s = 1 .. Len(s)
        /\ Len(t) \in Nat /\ DOMAIN t = 1 .. Len(t)
        /\ s \o t \in Seq(S) /\ DOMAIN (s \o t) = 1 .. Len(s) + Len(t)
        /\ \A i \in 1 .. Len(s) + Len(t) :
             (s \o t)[i] = IF i <= Len(s) THEN s[i] ELSE t[i - Len(s)]
    BY LenProperties, ConcatProperties
  <1>2. SUFFICES ASSUME NEW a \in 1 .. Len(s) + Len(t), NEW b \in 1 .. Len(s) + Len(t),
                        a < b
                 PROVE  <<(s \o t)[a], (s \o t)[b]>> \in R
    BY <1>1 DEF Ordered
  <1>3. CASE b <= Len(s)
    <2>1. a \in DOMAIN s /\ b \in DOMAIN s /\ a <= Len(s)  BY <1>1, <1>2, <1>3
    <2>2. <<s[a], s[b]>> \in R  BY <1>2, <2>1 DEF Ordered
    <2>3. QED  BY <1>1, <1>3, <2>1, <2>2
  <1>4. CASE ~ (a <= Len(s))
    <2>1. /\ a - Len(s) \in DOMAIN t /\ b - Len(s) \in DOMAIN t
          /\ a - Len(s) < b - Len(s) /\ ~ (b <= Len(s))
      BY <1>1, <1>2, <1>4
    <2>2. <<t[a - Len(s)], t[b - Len(s)]>> \in R  BY <2>1 DEF Ordered
    <2>3. QED  BY <1>1, <1>4, <2>1, <2>2
  <1>5. CASE a <= Len(s) /\ ~ (b <= Len(s))
    <2>1. a \in DOMAIN s /\ b - Len(s) \in DOMAIN t  BY <1>1, <1>5
    <2>2. s[a] \in Range(s) /\ t[b - Len(s)] \in Range(t)  BY <2>1 DEF Range
    <2>3. <<s[a], t[b - Len(s)]>> \in R  BY <2>2 DEF Before
    <2>4. QED  BY <1>1, <1>5, <2>3
  <1>6. QED  BY <1>3, <1>4, <1>5

\* FlattenSeq orders what its parts and their elements are ordered by.
LEMMA FlattenOrdered ==
  ASSUME NEW S, NEW R, NEW seqs \in Seq(Seq(S)),
         \A i \in DOMAIN seqs : Ordered(seqs[i], R),
         \A a, b \in DOMAIN seqs : a < b => Before(seqs[a], seqs[b], R)
  PROVE  Ordered(FlattenSeq(seqs), R)
  <1> DEFINE n == Len(seqs)
  <1>1. n \in Nat /\ DOMAIN seqs = 1 .. n /\ \A i \in 1 .. n : seqs[i] \in Seq(S)
    BY LenProperties, ElementOfSeq
  <1>2. CASE n = 0
    <2>1. FlattenSeq(seqs) = << >>
      <3>1. seqs = << >>  BY <1>2, EmptySeq
      <3>2. QED  BY <1>2, <3>1 DEF FlattenSeq
    <2>2. DOMAIN << >> = {}  OBVIOUS
    <2>3. QED  BY <2>1, <2>2 DEF Ordered
  <1>3. CASE n # 0
    <2>1. PICK f : Joined(f, seqs, n) /\ FlattenSeq(seqs) = f[n]
      BY <1>3, FlattenJoins
    <2> DEFINE Is(m) == /\ f[m] \in Seq(S) /\ Ordered(f[m], R)
                        /\ \A x \in Range(f[m]) : \E i \in 1 .. m : x \in Range(seqs[i])
               bad == {m \in 1 .. n : ~Is(m)}
    <2>2. ASSUME bad # {} PROVE FALSE
      <3>1. bad \subseteq Nat  BY <1>1
      <3>2. PICK m \in bad : \A k \in bad : m <= k
        <4> HIDE DEF bad
        <4>1. QED  BY <2>2, <3>1, LeastExists
      <3>3. m \in Nat /\ m >= 1 /\ m <= n /\ m \in 1 .. n /\ ~Is(m)
        BY <1>1, <3>2
      <3>4. CASE m = 1
        <4>1. f[1] = seqs[1]  BY <2>1, <3>3, <3>4 DEF Joined
        <4>2. 1 \in 1 .. 1  OBVIOUS
        <4>3. Is(1)  BY <1>1, <3>3, <3>4, <4>1, <4>2
        <4>4. QED  BY <3>3, <3>4, <4>3
      <3>5. CASE m # 1
        <4>1. m - 1 \in 1 .. n /\ ~ (m <= m - 1) /\ m - 1 \in Nat
          BY <1>1, <3>3, <3>5
        <4>2. Is(m - 1)
          <5>1. m - 1 \notin bad  BY <3>2, <4>1
          <5>2. QED  BY <4>1, <5>1
        <4>3. f[m] = f[m - 1] \o seqs[m]  BY <2>1, <3>3, <3>5 DEF Joined
        <4>4. seqs[m] \in Seq(S) /\ f[m - 1] \in Seq(S)  BY <1>1, <3>3, <4>2
        <4>5. f[m] \in Seq(S)  BY <4>3, <4>4, ConcatProperties
        <4>6. \A x : x \in Range(f[m])
                       <=> x \in Range(f[m - 1]) \/ x \in Range(seqs[m])
          BY <4>3, <4>4, RangeOfConcat
        <4>7. \A i : i \in 1 .. m <=> i \in 1 .. m - 1 \/ i = m
          BY <3>3, <4>1
        <4>8. \A x \in Range(f[m]) : \E i \in 1 .. m : x \in Range(seqs[i])
          BY <4>2, <4>6, <4>7
        <4>9. Before(f[m - 1], seqs[m], R)
          <5>1. SUFFICES ASSUME NEW x \in Range(f[m - 1]), NEW y \in Range(seqs[m])
                         PROVE  <<x, y>> \in R
            BY Zenon DEF Before
          <5>2. PICK i \in 1 .. m - 1 : x \in Range(seqs[i])  BY <4>2
          <5>3. i \in DOMAIN seqs /\ m \in DOMAIN seqs /\ i < m
            BY <1>1, <3>3, <4>1
          <5>4. Before(seqs[i], seqs[m], R)  BY <5>3
          <5>5. QED  BY <5>2, <5>4 DEF Before
        <4>10. Ordered(seqs[m], R)  BY <1>1, <3>3
        <4>11. Ordered(f[m], R)
          BY <4>2, <4>3, <4>4, <4>9, <4>10, ConcatOrdered
        <4>12. QED  BY <3>3, <4>5, <4>8, <4>11
      <3>6. QED  BY <3>4, <3>5
    <2>3. n \in 1 .. n  BY <1>1, <1>3
    <2>4. Is(n)  BY <2>2, <2>3
    <2>5. QED  BY <2>1, <2>4
  <1>4. QED  BY <1>2, <1>3

\* After a sync come only syncs.
SyncLast(S) == {pair \in S \X S : pair[1].name = "sync" => pair[2].name = "sync"}

\* What is written last of a panel are the syncs.
LEMMA WritesOrdered ==
  ASSUME NEW s \in Sessions
  PROVE  Ordered(Writes[s], SyncLast(Range(Writes[s])))
  <1> DEFINE table == IF s.sensor = "PAJ" THEN PajWrites ELSE PagWrites
             T == Range(table)
             parts == [i \in DOMAIN table |->
                         IF table[i].name \in s.fields \cup {"sync"}
                         THEN <<table[i]>> ELSE << >>]
             R == SyncLast(T)
  <1>1. Table(table)  BY PajWritesTable, PagWritesTable
  <1>2. /\ DOMAIN table = 1 .. Len(table) /\ Len(table) \in Nat
        /\ \A i \in DOMAIN table : table[i] \in T
    BY <1>1, LenProperties DEF Table, Range
  <1>3. \A a, b \in DOMAIN table :
          a < b /\ table[a].name = "sync" => table[b].name = "sync"
    <2>1. CASE s.sensor = "PAJ"
      <3>1. DOMAIN PajWrites = 1 .. 14  BY DEF PajWrites
      <3>2. \A k \in 1 .. 14 : PajWrites[k].name = "sync" <=> k > 12
        BY SMTT(60) DEF PajWrites, Write
      <3>3. QED  BY <2>1, <3>1, <3>2
    <2>2. CASE s.sensor # "PAJ"
      <3>1. DOMAIN PagWrites = 1 .. 6  BY DEF PagWrites
      <3>2. \A k \in 1 .. 6 : PagWrites[k].name # "sync"
        BY SMTT(60) DEF PagWrites, Write
      <3>3. QED  BY <2>2, <3>1, <3>2
    <2>3. QED  BY <2>1, <2>2
  <1>4. Writes[s] = FlattenSeq(parts)  BY DEF Writes, Kept
  <1> HIDE DEF table
  <1>5. \A i \in DOMAIN table : parts[i] \in Seq(T)
    <2>1. << >> \in Seq(T)  BY EmptySeq
    <2>2. \A x \in T : <<x>> \in Seq(T)  OBVIOUS
    <2>3. QED  BY <1>2, <2>1, <2>2
  <1>6. parts \in Seq(Seq(T)) /\ DOMAIN parts = DOMAIN table
    <2>1. parts \in [1 .. Len(table) -> Seq(T)]  BY <1>2, <1>5
    <2>2. QED  BY <1>2, <2>1, SeqDef
  <1>7. \A i \in DOMAIN parts : Ordered(parts[i], R)
    <2>1. \A x : Ordered(<<x>>, R)  BY DEF Ordered
    <2>2. Ordered(<< >>, R)  BY DEF Ordered
    <2>3. QED  BY <1>6, <2>1, <2>2
  <1>8. \A a, b \in DOMAIN parts : a < b => Before(parts[a], parts[b], R)
    <2>1. \A i \in DOMAIN parts : \A x \in Range(parts[i]) : x = table[i]
      <3>1. \A x : Range(<<x>>) = {x}  BY DEF Range
      <3>2. Range(<< >>) = {}  BY DEF Range
      <3>3. QED  BY <1>6, <3>1, <3>2
    <2> HIDE DEF parts
    <2>2. \A a, b \in DOMAIN parts : a < b => <<table[a], table[b]>> \in R
      BY <1>2, <1>3, <1>6 DEF SyncLast
    <2>3. QED  BY <2>1, <2>2 DEF Before
  <1>9. Ordered(Writes[s], R)
    <2> HIDE DEF parts, R, T
    <2>1. QED  BY <1>4, <1>6, <1>7, <1>8, FlattenOrdered
  <1>10. \A i \in DOMAIN Writes[s] : Writes[s][i] \in Range(Writes[s])
    BY DEF Range
  <1>11. QED  BY <1>9, <1>10 DEF Ordered, SyncLast

\* The same of the calls of a port, and so of the calls of a click.
SyncCallsLast(s) ==
  {pair \in Call \X Call :
     /\ pair[1].op = "register" /\ pair[2].op = "register"
     /\ pair[1].port = pair[2].port
     /\ Writes[s][pair[1].field].name = "sync"
     => Writes[s][pair[2].field].name = "sync"}

LEMMA FlatOrdered ==
  ASSUME NEW s \in Sessions, NEW p \in Nat
  PROVE  Ordered(Flat(Writes[s], p), SyncCallsLast(s))
  <1> DEFINE fields == Writes[s]
             part(i) == [j \in DOMAIN fields[i].at |->
                           [op |-> "register", port |-> p, field |-> i, byte |-> j]]
             parts == [i \in DOMAIN fields |-> part(i)]
             R == SyncCallsLast(s)
  <1>1. /\ Len(fields) \in Nat /\ DOMAIN fields = 1 .. Len(fields)
        /\ \A i \in DOMAIN fields :
             /\ fields[i].at \in Seq(Address)
             /\ DOMAIN fields[i].at = 1 .. Len(fields[i].at)
             /\ Len(fields[i].at) \in Nat
    BY WritesAreFields, LenProperties DEF Fields, Placed
  <1>2. Ordered(fields, SyncLast(Range(fields)))  BY WritesOrdered
  <1>3. \A a, b \in DOMAIN fields :
          a < b /\ fields[a].name = "sync" => fields[b].name = "sync"
    BY <1>2 DEF Ordered, SyncLast
  <1>4. Flat(fields, p) = FlattenSeq(parts)  BY DEF Flat
  <1> HIDE DEF fields
  <1>5. \A i \in DOMAIN fields :
          /\ DOMAIN part(i) = DOMAIN fields[i].at
          /\ \A j \in DOMAIN fields[i].at :
               part(i)[j] = Register(p, i, j) /\ Register(p, i, j) \in Call
    <2>1. SUFFICES ASSUME NEW i \in DOMAIN fields, NEW j \in DOMAIN fields[i].at
                   PROVE  part(i)[j] = Register(p, i, j) /\ Register(p, i, j) \in Call
      OBVIOUS
    <2>2. i \in Nat /\ j \in Nat  BY <1>1
    <2>3. QED  BY <2>2 DEF Register, Call
  <1> HIDE DEF part
  <1>6. \A i \in DOMAIN fields : part(i) \in Seq(Call)
    <2>1. SUFFICES ASSUME NEW i \in DOMAIN fields PROVE part(i) \in Seq(Call)
      OBVIOUS
    <2> DEFINE n == Len(fields[i].at)
    <2>2. part(i) = [j \in 1 .. n |-> Register(p, i, j)]
      <3>1. part(i) = [j \in DOMAIN fields[i].at |-> Register(p, i, j)]
        BY DEF part, Register
      <3>2. QED  BY <1>1, <3>1
    <2>3. \A j \in 1 .. n : Register(p, i, j) \in Call  BY <1>1, <1>5
    <2>4. QED  BY <1>1, <2>2, <2>3, SeqDef
  <1>7. parts \in Seq(Seq(Call)) /\ DOMAIN parts = DOMAIN fields
    <2>1. parts \in [1 .. Len(fields) -> Seq(Call)]  BY <1>1, <1>6
    <2>2. QED  BY <1>1, <2>1, SeqDef
  <1>8. \A a, b \in DOMAIN fields : \A i \in DOMAIN fields[a].at :
          \A j \in DOMAIN fields[b].at :
            a <= b => <<Register(p, a, i), Register(p, b, j)>> \in R
    <2>1. SUFFICES ASSUME NEW a \in DOMAIN fields, NEW b \in DOMAIN fields,
                          NEW i \in DOMAIN fields[a].at,
                          NEW j \in DOMAIN fields[b].at, a <= b
                   PROVE  <<Register(p, a, i), Register(p, b, j)>> \in R
      OBVIOUS
    <2>2. fields[a].name = "sync" => fields[b].name = "sync"
      BY <1>1, <1>3, <2>1
    <2>3. Register(p, a, i) \in Call /\ Register(p, b, j) \in Call
      BY <1>5
    <2>4. Register(p, a, i).field = a /\ Register(p, b, j).field = b
      BY DEF Register
    <2>5. QED  BY <2>2, <2>3, <2>4 DEF SyncCallsLast, fields
  <1>9. \A i \in DOMAIN parts : Ordered(parts[i], R)
    <2> HIDE DEF R
    <2>1. SUFFICES ASSUME NEW i \in DOMAIN fields, NEW a \in DOMAIN part(i),
                          NEW b \in DOMAIN part(i), a < b
                   PROVE  <<part(i)[a], part(i)[b]>> \in R
      BY <1>7 DEF Ordered
    <2>2. a \in DOMAIN fields[i].at /\ b \in DOMAIN fields[i].at  BY <1>5
    <2>3. part(i)[a] = Register(p, i, a) /\ part(i)[b] = Register(p, i, b)
      BY <1>5, <2>2
    <2>4. i <= i  BY <1>1
    <2>5. QED  BY <1>8, <2>2, <2>3, <2>4
  <1>10. \A a, b \in DOMAIN parts : a < b => Before(parts[a], parts[b], R)
    <2>1. SUFFICES ASSUME NEW a \in DOMAIN fields, NEW b \in DOMAIN fields, a < b,
                          NEW x \in Range(part(a)), NEW y \in Range(part(b))
                   PROVE  <<x, y>> \in R
      BY Zenon, <1>7 DEF Before
    <2>2. PICK i \in DOMAIN fields[a].at : x = Register(p, a, i)
      BY <1>5 DEF Range
    <2>3. PICK j \in DOMAIN fields[b].at : y = Register(p, b, j)
      BY <1>5 DEF Range
    <2>4. a <= b  BY <1>1, <2>1
    <2> HIDE DEF R
    <2>5. QED  BY <1>8, <2>2, <2>3, <2>4
  <1>11. Ordered(Flat(fields, p), R)
    <2> HIDE DEF parts, R
    <2>1. QED  BY <1>4, <1>7, <1>9, <1>10, FlattenOrdered
  <1>12. QED  BY <1>11 DEF fields

LEMMA SectionsOrdered ==
  ASSUME NEW s \in Sessions
  PROVE  Ordered(Sections(s, Writes[s]), SyncCallsLast(s))
  <1>1. /\ Flat(Writes[s], 0) \in Seq(Call) /\ Flat(Writes[s], 1) \in Seq(Call)
        /\ \A p \in {0, 1} : \A x \in Range(Flat(Writes[s], p)) :
             x \in Call /\ x.port = p
    <2>1. Fields(Writes[s])  BY WritesAreFields
    <2>2. ASSUME NEW p \in {0, 1}
          PROVE  /\ Flat(Writes[s], p) \in Seq(Call)
                 /\ \A x \in Range(Flat(Writes[s], p)) :
                      \E i \in DOMAIN Writes[s] : \E j \in DOMAIN Writes[s][i].at :
                        x = Register(p, i, j)
      <3>1. p \in Nat  OBVIOUS
      <3>2. /\ Flat(Writes[s], p) \in Seq(Call)
            /\ \A x : x \in Range(Flat(Writes[s], p))
                 <=> \E i \in DOMAIN Writes[s] : \E j \in DOMAIN Writes[s][i].at :
                       x = Register(p, i, j)
        BY ONLY <2>1, <3>1, FlatIs
      <3>3. QED  BY <3>2
    <2>3. \A p, i, j : Register(p, i, j).port = p  BY DEF Register
    <2>4. \A p \in {0, 1} : \A x \in Range(Flat(Writes[s], p)) : x \in Call
      BY <2>2, LenProperties, ElementOfSeq DEF Range
    <2>5. QED  BY <2>2, <2>3, <2>4
  <1>2. /\ Ordered(Flat(Writes[s], 0), SyncCallsLast(s))
        /\ Ordered(Flat(Writes[s], 1), SyncCallsLast(s))
    BY FlatOrdered
  <1>3. Before(Flat(Writes[s], 0), Flat(Writes[s], 1), SyncCallsLast(s))
    BY <1>1 DEF Before, SyncCallsLast
  <1>4. Ordered(Flat(Writes[s], 0) \o Flat(Writes[s], 1), SyncCallsLast(s))
    BY <1>1, <1>2, <1>3, ConcatOrdered
  <1>5. QED  BY <1>2, <1>4 DEF Sections

\* What a click does call by call: every register of every port, a panel's
\* syncs at its end, and a save flashes when all the rest is done.
LEMMA ClickCallsAre ==
  ASSUME NEW s \in Sessions, NEW kind \in {"apply", "save"}
  PROVE  LET calls == JobCalls[s][kind]
         IN  /\ \A k \in 1 .. Len(calls) : calls[k].op = "register" =>
                  \E p \in PortsOf(s) : \E i \in DOMAIN Writes[s] :
                    \E j \in DOMAIN Writes[s][i].at : calls[k] = Register(p, i, j)
             /\ \A p \in PortsOf(s) : \A i \in DOMAIN Writes[s] :
                  \A j \in DOMAIN Writes[s][i].at :
                    \E k \in 1 .. Len(calls) : calls[k] = Register(p, i, j)
             /\ \A k \in 1 .. Len(calls) :
                  calls[k].op = "flash" => kind = "save" /\ k = Len(calls)
             /\ kind = "save" => calls[Len(calls)].op = "flash"
             /\ Ordered(calls, SyncCallsLast(s))
  <1> DEFINE head(n) == [i \in 1 .. n |-> GeneralCall(General[i])]
             tail == Sections(s, Writes[s])
             R == SyncCallsLast(s)
  <1>1. /\ tail \in Seq(Call) /\ Ordered(tail, R)
        /\ \A x : x \in Range(tail)
             <=> \E p \in PortsOf(s) : \E i \in DOMAIN Writes[s] :
                   \E j \in DOMAIN Writes[s][i].at : x = Register(p, i, j)
    BY WritesAreFields, SectionsAre, SectionsOrdered
  <1>2. \A n \in {2, 3} : head(n) \in Seq(Call) /\ Len(head(n)) = n
    BY GeneralCallsAre
  <1>3. \A n \in {2, 3} : \A x \in Range(head(n)) : x.op \in Range(General)
    <2>1. SUFFICES ASSUME NEW n \in {2, 3}, NEW i \in 1 .. n
                   PROVE  GeneralCall(General[i]).op \in Range(General)
      BY DEF Range
    <2>2. General[i] \in Range(General)  BY DEF General, Range
    <2>3. QED  BY <2>2 DEF GeneralCall
  <1>4. "register" \notin Range(General) /\ "flash" \notin Range(General)
    BY DEF General, Range
  <1>5. \A x \in Range(tail) : x.op = "register"
    BY <1>1 DEF Register
  <1>6. \A q \in Seq(Call) : \A x \in Range(q) : x \in Call
    BY LenProperties, ElementOfSeq DEF Range
  <1>7. \A n \in {2, 3} :
          /\ Ordered(head(n), R) /\ Before(head(n), tail, R)
    <2>1. \A x, y \in Call : x.op # "register" => <<x, y>> \in R
      BY DEF SyncCallsLast
    <2>2. \A n \in {2, 3} : \A i \in DOMAIN head(n) : head(n)[i] \in Range(head(n))
      BY DEF Range
    <2> HIDE DEF head, tail, R
    <2>3. QED  BY <1>1, <1>2, <1>3, <1>4, <1>6, <2>1, <2>2 DEF Ordered, Before
  <1>8. /\ JobCalls[s]["apply"] = head(3) \o tail
        /\ JobCalls[s]["save"] = (head(2) \o tail) \o <<FlashCall>>
    BY DEF JobCalls
  <1> HIDE DEF head, tail, R
  <1> DEFINE first(n) == head(n) \o tail
  <1>9. ASSUME NEW n \in {2, 3}
        PROVE  /\ first(n) \in Seq(Call) /\ Len(first(n)) \in Nat
               /\ DOMAIN first(n) = 1 .. Len(first(n))
               /\ Ordered(first(n), R)
               /\ \A x : x \in Range(first(n))
                           <=> x \in Range(head(n)) \/ x \in Range(tail)
    <2>1. head(n) \in Seq(Call) /\ tail \in Seq(Call)  BY <1>1, <1>2
    <2>2. first(n) \in Seq(Call)  BY <2>1, ConcatProperties
    <2>3. Ordered(first(n), R)  BY <1>1, <1>7, <2>1, ConcatOrdered
    <2>4. \A x : x \in Range(first(n))
                   <=> x \in Range(head(n)) \/ x \in Range(tail)
      BY <2>1, RangeOfConcat
    <2>5. QED  BY <2>2, <2>3, <2>4, LenProperties
  <1>10. ASSUME NEW n \in {2, 3}
         PROVE  /\ \A x \in Range(first(n)) : x.op # "flash"
                /\ \A x \in Range(first(n)) : x.op = "register" =>
                     \E p \in PortsOf(s) : \E i \in DOMAIN Writes[s] :
                       \E j \in DOMAIN Writes[s][i].at : x = Register(p, i, j)
                /\ \A p \in PortsOf(s) : \A i \in DOMAIN Writes[s] :
                     \A j \in DOMAIN Writes[s][i].at :
                       Register(p, i, j) \in Range(first(n))
    <2>1. \A x \in Range(first(n)) : x.op # "flash"
      BY <1>3, <1>4, <1>5, <1>9
    <2>2. \A x \in Range(first(n)) : x.op = "register" => x \in Range(tail)
      BY <1>3, <1>4, <1>9
    <2>3. \A x \in Range(tail) : x \in Range(first(n))  BY <1>9
    <2> HIDE DEF first
    <2>4. QED  BY <1>1, <2>1, <2>2, <2>3
  <1> HIDE DEF first
  <1>11. CASE kind = "apply"
    <2>1. JobCalls[s][kind] = first(3)  BY <1>8, <1>11 DEF first
    <2>2. \A k \in 1 .. Len(first(3)) : first(3)[k] \in Range(first(3))
      BY <1>9 DEF Range
    <2>3. \A x \in Range(first(3)) : \E k \in 1 .. Len(first(3)) : first(3)[k] = x
      BY <1>9 DEF Range
    <2>4. QED  BY <1>9, <1>10, <1>11, <2>1, <2>2, <2>3 DEF R
  <1>12. CASE kind = "save"
    <2> DEFINE last == <<FlashCall>>
               n == Len(first(2))
               calls == first(2) \o last
    <2>1. JobCalls[s][kind] = calls  BY <1>8, <1>12 DEF first
    <2>2. FlashCall \in Call /\ FlashCall.op = "flash"  BY DEF FlashCall, Call
    <2>3. /\ last \in Seq(Call) /\ Len(last) = 1
          /\ DOMAIN last = {1} /\ last[1] = FlashCall
      BY <2>2
    <2> HIDE DEF last
    <2>4. first(2) \in Seq(Call) /\ n \in Nat  BY <1>9
    <2>5. /\ calls \in Seq(Call) /\ Len(calls) = n + 1
          /\ \A k \in 1 .. n : calls[k] = first(2)[k]
          /\ calls[n + 1] = FlashCall
      <3>1. /\ calls \in Seq(Call) /\ Len(calls) = n + Len(last)
            /\ \A k \in 1 .. n + Len(last) :
                 calls[k] = IF k <= n THEN first(2)[k] ELSE last[k - n]
        BY <2>3, <2>4, ConcatProperties
      <3> HIDE DEF calls
      <3>2. \A k \in 1 .. n : k \in 1 .. n + 1 /\ k <= n  BY <2>4
      <3>3. n + 1 \in 1 .. n + 1 /\ ~ (n + 1 <= n) /\ n + 1 - n = 1  BY <2>4
      <3>4. QED  BY <2>3, <3>1, <3>2, <3>3
    <2>6. Ordered(calls, R)
      <3>1. Ordered(last, R)  BY <2>3 DEF Ordered
      <3>2. \A x \in Range(first(2)), y \in Range(last) : <<x, y>> \in R
        <4>1. \A y \in Range(last) : y = FlashCall  BY <2>3 DEF Range
        <4>2. \A x \in Call : <<x, FlashCall>> \in R
          BY <2>2 DEF R, SyncCallsLast
        <4>3. QED  BY <1>6, <2>4, <4>1, <4>2
      <3>3. QED  BY <1>9, <2>3, <2>4, <3>1, <3>2, ConcatOrdered DEF Before
    <2> HIDE DEF calls
    <2>7. \A k \in 1 .. n : calls[k] \in Range(first(2))
      BY <1>9, <2>5 DEF Range
    <2>8. \A x \in Range(first(2)) : \E k \in 1 .. Len(calls) : calls[k] = x
      <3>1. \A x \in Range(first(2)) : \E k \in 1 .. n : first(2)[k] = x
        BY <1>9 DEF Range
      <3>2. \A k \in 1 .. n : k \in 1 .. Len(calls)  BY <2>4, <2>5
      <3>3. QED  BY <2>5, <3>1, <3>2
    <2>9. \A k \in 1 .. Len(calls) : k \in 1 .. n \/ k = n + 1
      BY <2>4, <2>5
    <2> HIDE DEF n
    <2>10. \A k \in 1 .. Len(calls) : calls[k].op = "flash" => k = Len(calls)
      BY <1>10, <2>5, <2>7, <2>9
    <2>11. \A k \in 1 .. Len(calls) :
             calls[k].op = "register" => calls[k] \in Range(first(2))
      BY <2>2, <2>5, <2>7, <2>9
    <2>12. QED
      BY <1>10, <1>12, <2>1, <2>2, <2>5, <2>6, <2>8, <2>10, <2>11 DEF R
  <1>13. QED  BY <1>11, <1>12

(***************************************************************************)
(* Where what is written is read.                                          *)
(***************************************************************************)
LEMMA TakenFromIs ==
  /\ DOMAIN TakenFrom = {<<1, 14>>, <<1, 15>>, <<1, 5>>, <<1, 6>>}
  /\ TakenFrom[<<1, 14>>] = <<12, 15>> /\ TakenFrom[<<1, 15>>] = <<12, 16>>
  /\ TakenFrom[<<1, 5>>] = <<12, 11>> /\ TakenFrom[<<1, 6>>] = <<12, 12>>
  <1>1. DOMAIN TakenFrom = {<<1, 14>>, <<1, 15>>, <<1, 5>>, <<1, 6>>}
    BY DEF TakenFrom
  <1>2. \A x \in DOMAIN TakenFrom :
          TakenFrom[x] =
            <<12, CASE x[2] = 14 -> 15 [] x[2] = 15 -> 16 [] x[2] = 5 -> 11
                    [] OTHER -> 12>>
    BY Zenon DEF TakenFrom
  <1>3. 14 # 15 /\ 14 # 5 /\ 14 # 6 /\ 15 # 5 /\ 15 # 6 /\ 5 # 6  OBVIOUS
  <1>4. <<1, 14>>[2] = 14 /\ <<1, 15>>[2] = 15 /\ <<1, 5>>[2] = 5 /\ <<1, 6>>[2] = 6
    OBVIOUS
  <1>5. TakenFrom[<<1, 14>>] = <<12, 15>>  BY Zenon, <1>1, <1>2, <1>3, <1>4
  <1>6. TakenFrom[<<1, 15>>] = <<12, 16>>  BY Zenon, <1>1, <1>2, <1>3, <1>4
  <1>7. TakenFrom[<<1, 5>>] = <<12, 11>>  BY Zenon, <1>1, <1>2, <1>3, <1>4
  <1>8. TakenFrom[<<1, 6>>] = <<12, 12>>  BY Zenon, <1>1, <1>2, <1>3, <1>4
  <1>9. QED  BY <1>1, <1>5, <1>6, <1>7, <1>8

\* The row of a read is that of a write: the same bytes, at the same addresses
\* or at those the sensor takes over into.
Pair(read, w) ==
  /\ read.name = w.name /\ Len(read.at) = Len(w.at) /\ DOMAIN read.at = DOMAIN w.at
  /\ \A i \in DOMAIN read.at :
       \/ read.at[i] = w.at[i]
       \/ read.at[i] \in DOMAIN TakenFrom /\ TakenFrom[read.at[i]] = w.at[i]

\* The reads and the writes of the two sensors, row by row.
LEMMA PajPairs == \A k \in 1 .. 12 : Pair(PajReads[k], PajWrites[k])
  <1>1. \A k \in 1 .. 12 : PajReads[k].name = PajWrites[k].name
    BY SMTT(60) DEF PajReads, PajWrites, Read, Write
  <1>2. \A k \in 1 .. 12 : k \notin {7, 10} => PajReads[k].at = PajWrites[k].at
    <2>1. \A name, bank, addrs, same, width, default :
            Read(name, bank, addrs).at = Write(same, bank, addrs, width, default).at
      BY DEF Read, Write
    <2>2. \A k \in {1, 2, 3, 4, 5, 6, 8, 9, 11, 12} : PajReads[k].at = PajWrites[k].at
      BY <2>1, SMTT(60) DEF PajReads, PajWrites
    <2>3. \A k \in 1 .. 12 : k \in {1, 2, 3, 4, 5, 6, 7, 8, 9, 10, 11, 12}
      OBVIOUS
    <2>4. QED  BY ONLY <2>2, <2>3
  <1>3. /\ PajReads[7].at = << <<1, 14>>, <<1, 15>> >>
        /\ PajWrites[7].at = << <<12, 15>>, <<12, 16>> >>
    BY SMTT(60) DEF PajReads, PajWrites, Read, Write
  <1>4. /\ PajReads[10].at = << <<1, 5>>, <<1, 6>> >>
        /\ PajWrites[10].at = << <<12, 11>>, <<12, 12>> >>
    BY SMTT(60) DEF PajReads, PajWrites, Read, Write
  <1>5. \A k \in 1 .. 12 : k \notin {7, 10} => Pair(PajReads[k], PajWrites[k])
    BY ONLY <1>1, <1>2 DEF Pair
  <1>6. Pair(PajReads[7], PajWrites[7])
    <2>1. DOMAIN << <<1, 14>>, <<1, 15>> >> = {1, 2}
          /\ DOMAIN << <<12, 15>>, <<12, 16>> >> = {1, 2}
      OBVIOUS
    <2>2. Len(<< <<1, 14>>, <<1, 15>> >>) = Len(<< <<12, 15>>, <<12, 16>> >>)
      OBVIOUS
    <2>3. PajReads[7].name = PajWrites[7].name  BY <1>1
    <2>4. PajReads[7].at[1] = <<1, 14>> /\ PajReads[7].at[2] = <<1, 15>>
          /\ PajWrites[7].at[1] = <<12, 15>> /\ PajWrites[7].at[2] = <<12, 16>>
      BY <1>3
    <2>5. QED  BY ONLY <1>3, <2>1, <2>2, <2>3, <2>4, TakenFromIs DEF Pair
  <1>7. Pair(PajReads[10], PajWrites[10])
    <2>1. DOMAIN << <<1, 5>>, <<1, 6>> >> = {1, 2}
          /\ DOMAIN << <<12, 11>>, <<12, 12>> >> = {1, 2}
      OBVIOUS
    <2>2. Len(<< <<1, 5>>, <<1, 6>> >>) = Len(<< <<12, 11>>, <<12, 12>> >>)
      OBVIOUS
    <2>3. PajReads[10].name = PajWrites[10].name  BY <1>1
    <2>4. PajReads[10].at[1] = <<1, 5>> /\ PajReads[10].at[2] = <<1, 6>>
          /\ PajWrites[10].at[1] = <<12, 11>> /\ PajWrites[10].at[2] = <<12, 12>>
      BY <1>4
    <2>5. QED  BY ONLY <1>4, <2>1, <2>2, <2>3, <2>4, TakenFromIs DEF Pair
  <1>8. QED  BY ONLY <1>5, <1>6, <1>7

LEMMA PagPairs ==
  \A k \in 1 .. 6 :
    Pair(PagReads[k], PagWrites[k]) /\ PagReads[k].at = PagWrites[k].at
  <1>1. \A k \in 1 .. 6 : PagReads[k].name = PagWrites[k].name
    BY SMTT(60) DEF PagReads, PagWrites, Read, Write
  <1>2. \A k \in 1 .. 6 : PagReads[k].at = PagWrites[k].at
    BY SMTT(60) DEF PagReads, PagWrites, Read, Write
  <1>3. QED  BY ONLY <1>1, <1>2 DEF Pair

\* A row is at the address of its place in the table.
LEMMA PlaceOf ==
  ASSUME NEW s \in Sessions
  PROVE  LET table == IF s.sensor = "PAJ" THEN PajWrites ELSE PagWrites
         IN  \A k \in DOMAIN table :
               /\ Row(table[k])
               /\ \A i \in DOMAIN table[k].at : Home(table[k].at[i]) = <<k, i>>
  <1>1. DOMAIN PajWrites = 1 .. 14 /\ DOMAIN PagWrites = 1 .. 6
    BY DEF PajWrites, PagWrites
  <1>2. CASE s.sensor = "PAJ"  BY <1>1, <1>2, PajRows
  <1>3. CASE s.sensor # "PAJ"  BY <1>1, <1>3, PagRows
  <1>4. QED  BY <1>2, <1>3

\* The rows that a session writes: a byte has an address of its own, among the
\* registers of the sensor, and only that of the near and wide fields syncs.
LEMMA WriteRows ==
  ASSUME NEW s \in Sessions
  PROVE  /\ \A w \in Range(Writes[s]) :
              /\ Row(w)
              /\ w.name \in s.fields \cup {"sync"}
              /\ \A i \in DOMAIN w.at :
                   /\ w.at[i] \in Registers(s.sensor)
                   /\ w.at[i] = <<1, 1>> => s.sensor = "PAJ"
         /\ \A w, v \in Range(Writes[s]) : \A i \in DOMAIN w.at : \A j \in DOMAIN v.at :
              w.at[i] = v.at[j] => w = v /\ i = j
  <1> DEFINE table == IF s.sensor = "PAJ" THEN PajWrites ELSE PagWrites
  <1>1. Table(table)  BY PajWritesTable, PagWritesTable
  <1>2. \A k \in DOMAIN table :
          /\ Row(table[k])
          /\ \A i \in DOMAIN table[k].at : Home(table[k].at[i]) = <<k, i>>
    BY PlaceOf
  <1>3. Writes[s] = Kept(s, table)  BY DEF Writes
  <1>4. \A w \in Range(table) : \A i \in DOMAIN w.at : w.at[i] \in Registers(s.sensor)
    <2>1. \A w \in Range(table) : Range(w.at) \subseteq Registers(s.sensor)
      BY DEF Registers
    <2>2. \A w : \A i \in DOMAIN w.at : w.at[i] \in Range(w.at)  BY DEF Range
    <2> HIDE DEF table
    <2>3. QED  BY <2>1, <2>2
  <1>5. s.sensor # "PAJ" =>
          \A w \in Range(table) : \A i \in DOMAIN w.at : w.at[i] # <<1, 1>>
    <2>1. SUFFICES ASSUME s.sensor # "PAJ", NEW k \in DOMAIN table,
                          NEW i \in DOMAIN table[k].at, table[k].at[i] = <<1, 1>>
                   PROVE  FALSE
      <3> HIDE DEF table
      <3>1. QED  BY DEF Range
    <2>2. k \in 1 .. 6  BY <2>1 DEF PagWrites
    <2>3. Home(<<1, 1>>) = <<k, i>>  BY <1>2, <2>1
    <2>4. Home(<<1, 1>>) = <<13, 1>>  BY DEF Home
    <2>5. <<k, i>>[1] = k /\ <<13, 1>>[1] = 13  OBVIOUS
    <2>6. k = 13
      <3>1. <<k, i>> = <<13, 1>>  BY <2>3, <2>4
      <3>2. QED  BY <2>5, <3>1
    <2>7. QED  BY <2>2, <2>6
  <1> HIDE DEF table
  <1>6. Range(Writes[s]) = {x \in Range(table) : x.name \in s.fields \cup {"sync"}}
    BY <1>1, <1>3, KeptIs
  <1>7. \A w \in Range(table) : \E k \in DOMAIN table : w = table[k]
    BY DEF Range
  <1>8. ASSUME NEW w \in Range(Writes[s])
        PROVE  /\ Row(w) /\ w.name \in s.fields \cup {"sync"}
               /\ \A i \in DOMAIN w.at :
                    /\ w.at[i] \in Registers(s.sensor)
                    /\ w.at[i] = <<1, 1>> => s.sensor = "PAJ"
    <2>1. w \in Range(table) /\ w.name \in s.fields \cup {"sync"}  BY <1>6
    <2>2. Row(w)  BY <1>2, <1>7, <2>1
    <2>3. QED  BY <1>4, <1>5, <2>1, <2>2
  <1>9. ASSUME NEW w \in Range(Writes[s]), NEW v \in Range(Writes[s]),
               NEW i \in DOMAIN w.at, NEW j \in DOMAIN v.at, w.at[i] = v.at[j]
        PROVE  w = v /\ i = j
    <2>1. PICK k \in DOMAIN table : w = table[k]  BY <1>6, <1>7
    <2>2. PICK l \in DOMAIN table : v = table[l]  BY <1>6, <1>7
    <2>3. Home(w.at[i]) = <<k, i>> /\ Home(v.at[j]) = <<l, j>>
      BY <1>2, <2>1, <2>2
    <2>4. <<k, i>> = <<l, j>>  BY <1>9, <2>3
    <2>5. k = l /\ i = j  BY <2>4
    <2>6. QED  BY <2>1, <2>2, <2>5
  <1>10. QED  BY <1>8, <1>9

\* What a session reads has been written by a row of its own.
LEMMA ReadRows ==
  ASSUME NEW s \in Sessions, NEW read \in Range(Reads[s])
  PROVE  /\ \A i \in DOMAIN read.at : read.at[i] \in Registers(s.sensor)
         /\ Len(read.at) \in 1 .. 3 /\ DOMAIN read.at = 1 .. Len(read.at)
         /\ read.name = "gain_index" => Len(read.at) = 2
         /\ \A w \in Range(Writes[s]) : w.name = read.name =>
              /\ Pair(read, w)
              /\ s.sensor # "PAJ" => read.at = w.at
  <1> DEFINE reads == IF s.sensor = "PAJ" THEN PajReads ELSE PagReads
             writes == IF s.sensor = "PAJ" THEN PajWrites ELSE PagWrites
             last == IF s.sensor = "PAJ" THEN 12 ELSE 6
  <1>1. Table(reads) /\ Named(reads) /\ Table(writes)
    BY PajReadsTable, PagReadsTable, PajWritesTable, PagWritesTable
  <1>2. Reads[s] = Kept(s, reads) /\ Writes[s] = Kept(s, writes)
    BY DEF Reads, Writes
  <1>3. /\ DOMAIN PajReads = 1 .. 12 /\ DOMAIN PagReads = 1 .. 6
        /\ DOMAIN PajWrites = 1 .. 14 /\ DOMAIN PagWrites = 1 .. 6
    BY DEF PajReads, PagReads, PajWrites, PagWrites
  <1>4. /\ DOMAIN reads = 1 .. last
        /\ \A k \in 1 .. last :
             /\ Pair(reads[k], writes[k])
             /\ s.sensor # "PAJ" => reads[k].at = writes[k].at
    BY <1>3, PajPairs, PagPairs
  <1>5. /\ 1 .. last \subseteq DOMAIN writes
        /\ \A k \in DOMAIN writes : k \notin 1 .. last => writes[k].name = "sync"
    <2>1. CASE s.sensor = "PAJ"
      <3>1. PajWrites[13].name = "sync" /\ PajWrites[14].name = "sync"
        BY DEF PajWrites, Write
      <3>2. \A k \in 1 .. 14 : k \notin 1 .. 12 => k = 13 \/ k = 14  OBVIOUS
      <3>3. QED  BY <1>3, <2>1, <3>1, <3>2
    <2>2. CASE s.sensor # "PAJ"  BY <1>3, <2>2
    <2>3. QED  BY <2>1, <2>2
  <1>6. \A k \in DOMAIN writes : Row(writes[k])  BY PlaceOf
  <1>7. \A r \in Range(reads) : \A i \in DOMAIN r.at : r.at[i] \in Registers(s.sensor)
    <2>1. \A r \in Range(reads) : Range(r.at) \subseteq Registers(s.sensor)
      BY DEF Registers
    <2>2. \A r : \A i \in DOMAIN r.at : r.at[i] \in Range(r.at)  BY DEF Range
    <2> HIDE DEF reads
    <2>3. QED  BY <2>1, <2>2
  <1> HIDE DEF reads, writes, last
  <1>8. read \in Range(reads)  BY <1>1, <1>2, KeptIs
  <1>9. PICK k \in 1 .. last : read = reads[k]  BY <1>4, <1>8 DEF Range
  <1>10. Pair(read, writes[k]) /\ Row(writes[k])  BY <1>4, <1>5, <1>6, <1>9
  <1>11. /\ Len(read.at) \in 1 .. 3 /\ DOMAIN read.at = 1 .. Len(read.at)
         /\ read.name = "gain_index" => Len(read.at) = 2
    BY <1>10 DEF Pair, Row
  <1>12. ASSUME NEW w \in Range(Writes[s]), w.name = read.name
         PROVE  Pair(read, w) /\ (s.sensor # "PAJ" => read.at = w.at)
    <2>1. w \in Range(writes)  BY <1>1, <1>2, KeptIs
    <2>2. PICK l \in DOMAIN writes : w = writes[l]  BY <2>1 DEF Range
    <2>3. l \in 1 .. last  BY <1>1, <1>5, <1>8, <1>12, <2>2 DEF Named
    <2>4. reads[l] \in Range(reads) /\ reads[l].name = w.name
      BY <1>4, <2>2, <2>3 DEF Pair, Range
    <2>5. reads[l] = read  BY <1>1, <1>8, <1>12, <2>4 DEF Named
    <2>6. QED  BY <1>4, <2>2, <2>3, <2>5
  <1>13. QED  BY <1>7, <1>8, <1>11, <1>12

\* A sensor for the near or the wide field can sync, from registers it has.
LEMMA SyncRow ==
  ASSUME NEW s \in Sessions, s.sensor = "PAJ"
  PROVE  /\ \E i \in DOMAIN Writes[s] :
              /\ Writes[s][i].name = "sync" /\ 1 \in DOMAIN Writes[s][i].at
              /\ Writes[s][i].at[1] = <<1, 1>>
         /\ \A x \in DOMAIN TakenFrom :
              x \in Registers("PAJ") /\ TakenFrom[x] \in Registers("PAJ")
              /\ TakenFrom[x] \notin DOMAIN TakenFrom /\ TakenFrom[x] # <<1, 1>>
              /\ x # <<1, 1>>
  <1>1. /\ PajWrites[13] \in Range(PajWrites) /\ PajWrites[13].name = "sync"
        /\ PajWrites[13].at = << <<1, 1>> >>
    <2>1. PajWrites[13] \in Range(PajWrites)  BY DEF PajWrites, Range
    <2>2. PajWrites[13].name = "sync" /\ PajWrites[13].at = << <<1, 1>> >>
      BY DEF PajWrites, Write
    <2>3. QED  BY <2>1, <2>2
  <1>2. PajWrites[13] \in Range(Writes[s])
    BY <1>1, PajWritesTable, KeptIs DEF Writes
  <1>3. \E i \in DOMAIN Writes[s] :
              /\ Writes[s][i].name = "sync" /\ 1 \in DOMAIN Writes[s][i].at
              /\ Writes[s][i].at[1] = <<1, 1>>
    <2>1. DOMAIN << <<1, 1>> >> = {1} /\ << <<1, 1>> >>[1] = <<1, 1>>  OBVIOUS
    <2>2. PICK i \in DOMAIN Writes[s] : Writes[s][i] = PajWrites[13]
      BY <1>2 DEF Range
    <2>3. QED  BY <1>1, <2>1, <2>2
  <1>4. \A k \in {7, 10} : \A i \in {1, 2} :
          /\ PajReads[k].at[i] \in Registers("PAJ")
          /\ PajWrites[k].at[i] \in Registers("PAJ")
    <2>1. \A k \in {7, 10} :
            PajReads[k] \in Range(PajReads) /\ PajWrites[k] \in Range(PajWrites)
      BY DEF PajReads, PajWrites, Range
    <2>2. \A k \in {7, 10} :
            Range(PajReads[k].at) \cup Range(PajWrites[k].at) \subseteq Registers("PAJ")
      BY <2>1 DEF Registers
    <2>3. \A k \in {7, 10} :
            DOMAIN PajReads[k].at = {1, 2} /\ DOMAIN PajWrites[k].at = {1, 2}
      BY DEF PajReads, PajWrites, Read, Write
    <2>4. QED  BY <2>2, <2>3 DEF Range
  <1>5. /\ PajReads[7].at[1] = <<1, 14>> /\ PajReads[7].at[2] = <<1, 15>>
        /\ PajWrites[7].at[1] = <<12, 15>> /\ PajWrites[7].at[2] = <<12, 16>>
        /\ PajReads[10].at[1] = <<1, 5>> /\ PajReads[10].at[2] = <<1, 6>>
        /\ PajWrites[10].at[1] = <<12, 11>> /\ PajWrites[10].at[2] = <<12, 12>>
    BY SMTT(60) DEF PajReads, PajWrites, Read, Write
  <1>6. \A a, b \in {5, 6, 11, 12, 14, 15, 16} :
          /\ <<12, a>> # <<1, b>> /\ <<12, a>> # <<1, 1>> /\ <<1, a>> # <<1, 1>>
    OBVIOUS
  <1>7. \A x \in DOMAIN TakenFrom :
          x \in Registers("PAJ") /\ TakenFrom[x] \in Registers("PAJ")
    BY ONLY <1>4, <1>5, TakenFromIs
  <1>8. \A x \in DOMAIN TakenFrom :
          /\ TakenFrom[x] \notin DOMAIN TakenFrom
          /\ TakenFrom[x] # <<1, 1>> /\ x # <<1, 1>>
    BY ONLY <1>6, TakenFromIs
  <1>9. QED  BY <1>3, <1>7, <1>8

(***************************************************************************)
(* The values of the registers and of the panels.                          *)
(***************************************************************************)
Values ==
  /\ regs \in [Ports -> [Registers(session.sensor) -> Byte]]
  /\ flash.regs \in [Ports -> [Registers(session.sensor) -> Byte]]
  /\ panel \in [Ports -> [session.fields -> Text]]

\* A load has read bytes, and every register behind it unless a section failed.
BytesRead ==
  /\ \A x \in DOMAIN loader.got : loader.got[x] \in Byte
  /\ loader.failed \/ \A k \in 4 .. loader.at - 1 :
                        AddressOf(LoadCalls[session][k]) \in DOMAIN loader.got

\* Every field has a row of its own that is read, and a default that is a text.
LEMMA FieldsAre ==
  ASSUME NEW s \in Sessions
  PROVE  /\ \A name \in s.fields : \E read \in Range(Reads[s]) : read.name = name
         /\ s.sensor = "PAJ" => s.fields \subseteq DOMAIN PajDefault
         /\ s.sensor # "PAJ" => s.fields \subseteq DOMAIN PagDefault
  <1> DEFINE reads == IF s.sensor = "PAJ" THEN PajReads ELSE PagReads
  <1>1. s.fields \subseteq DOMAIN (IF s.sensor = "PAJ" THEN PajDefault ELSE PagDefault)
    BY SettingsParameters
  <1>2. DOMAIN (IF s.sensor = "PAJ" THEN PajDefault ELSE PagDefault)
          = {reads[i].name : i \in DOMAIN reads}
    BY DEF PajDefault, PagDefault
  <1>3. Table(reads)  BY PajReadsTable, PagReadsTable
  <1>4. Reads[s] = Kept(s, reads)  BY DEF Reads
  <1> HIDE DEF reads
  <1>5. Range(Reads[s]) = {x \in Range(reads) : x.name \in s.fields \cup {"sync"}}
    BY <1>3, <1>4, KeptIs
  <1>6. \A name \in s.fields : \E read \in Range(Reads[s]) : read.name = name
    <2>1. \A i \in DOMAIN reads : reads[i] \in Range(reads)  BY DEF Range
    <2>2. QED  BY <1>1, <1>2, <1>5, <2>1
  <1>7. QED  BY <1>1, <1>6

PajNames ==
  {"brightness_threshold", "noise_threshold", "area_threshold_min",
   "area_threshold_max", "max_object_cnt", "operation_mode", "exposure_time",
   "frame_period", "frame_subtraction", "gain_index", "resolution_x", "resolution_y"}

PagNames ==
  {"fps", "exposure_us", "gain", "light_threshold", "area_lower", "area_upper"}

LEMMA NamesAre ==
  DOMAIN PajDefault \subseteq PajNames /\ DOMAIN PagDefault \subseteq PagNames
  <1>1. \A k \in 1 .. 12 : PajReads[k].name \in PajNames
    BY SMTT(60) DEF PajReads, Read, PajNames
  <1>2. \A k \in 1 .. 6 : PagReads[k].name \in PagNames
    BY SMTT(60) DEF PagReads, Read, PagNames
  <1>3. DOMAIN PajReads = 1 .. 12 /\ DOMAIN PagReads = 1 .. 6
    BY DEF PajReads, PagReads
  <1>4. /\ DOMAIN PajDefault = {PajReads[i].name : i \in DOMAIN PajReads}
        /\ DOMAIN PagDefault = {PagReads[i].name : i \in DOMAIN PagReads}
    BY DEF PajDefault, PagDefault
  <1>5. QED  BY <1>1, <1>2, <1>3, <1>4

\* The texts a panel starts with and the defaults are numbers.
LEMMA DefaultsTyped ==
  ASSUME session \in Sessions, NEW p \in Ports
  PROVE  /\ TextsOf(Defaults(p)) \in [session.fields -> Text]
         /\ TextsOf(IF session.sensor = "PAJ" THEN PajDefault ELSE PagDefault)
              \in [session.fields -> Text]
  <1>1. \A name \in PajNames : paj_load_defaults(p)[name] \in Nat
    <2>1. gain_index_from_reg(16, 0) = 16 /\ gain_index_from_reg(8, 3) = 40
      BY DEF gain_index_from_reg
    <2>2. QED  BY <2>1 DEF paj_load_defaults, PajNames
  <1>2. \A name \in PagNames : pag_load_defaults[name] \in Nat
    BY DEF pag_load_defaults, PagNames
  <1>3. /\ \A name \in DOMAIN PajDefault : PajDefault[name] \in Text
        /\ \A name \in DOMAIN PagDefault : PagDefault[name] \in Text
    BY DEF PajDefault, PagDefault, Text
  <1>4. Nat \subseteq Text  BY DEF Text
  <1>5. CASE session.sensor = "PAJ"
    <2>1. /\ session.fields \subseteq DOMAIN PajDefault
          /\ session.fields \subseteq PajNames
      BY <1>5, FieldsAre, NamesAre
    <2>2. Defaults(p) = paj_load_defaults(p)  BY <1>5 DEF Defaults
    <2>3. QED  BY <1>1, <1>3, <1>4, <1>5, <2>1, <2>2 DEF TextsOf
  <1>6. CASE session.sensor # "PAJ"
    <2>1. /\ session.fields \subseteq DOMAIN PagDefault
          /\ session.fields \subseteq PagNames
      BY <1>6, FieldsAre, NamesAre
    <2>2. Defaults(p) = pag_load_defaults  BY <1>6 DEF Defaults
    <2>3. QED  BY <1>2, <1>3, <1>4, <1>6, <2>1, <2>2 DEF TextsOf
  <1>7. QED  BY <1>5, <1>6

\* A register that is written, synced or not, leaves bytes in all of a port.
LEMMA WriteRegisterTyped ==
  ASSUME NEW sensor, NEW port \in [Registers(sensor) -> Byte],
         NEW at \in Registers(sensor), NEW byte \in Byte,
         at = <<1, 1>> => sensor = "PAJ" /\ \E s \in Sessions : s.sensor = "PAJ"
  PROVE  WriteRegister(port, at, byte) \in [Registers(sensor) -> Byte]
  <1> DEFINE written == [port EXCEPT ![at] = byte]
  <1>1. written \in [Registers(sensor) -> Byte]  OBVIOUS
  <1> HIDE DEF written
  <1>2. CASE at = <<1, 1>>
    <2>1. \A x \in DOMAIN TakenFrom : TakenFrom[x] \in Registers(sensor)
      BY <1>2, SyncRow
    <2>2. WriteRegister(port, at, byte) =
            [x \in DOMAIN port |->
               IF x \in DOMAIN TakenFrom THEN written[TakenFrom[x]] ELSE written[x]]
      BY <1>2 DEF WriteRegister, written
    <2>3. QED  BY <1>1, <2>1, <2>2
  <1>3. CASE at # <<1, 1>>
    <2>1. WriteRegister(port, at, byte) = written
      BY <1>3 DEF WriteRegister, written
    <2>2. QED  BY <1>1, <2>1
  <1>4. QED  BY <1>2, <1>3

\* The register a click writes, with a byte for what its field says.
LEMMA CallWrites ==
  ASSUME Inv, Values, NEW j \in DOMAIN jobs, Busy(j), CallOf(j).op = "register"
  PROVE  LET call == CallOf(j)
             w    == Writes[session][call.field]
             text == IF w.name = "sync" THEN NoNumber ELSE panel[call.port][w.name]
         IN  /\ call \in Call /\ call.port \in Ports
             /\ call.field \in DOMAIN Writes[session] /\ w \in Range(Writes[session])
             /\ call.byte \in DOMAIN w.at
             /\ call = Register(call.port, call.field, call.byte)
             /\ Row(w) /\ text \in Text
             /\ w.at[call.byte] \in Registers(session.sensor)
             /\ w.at[call.byte] = <<1, 1>> => session.sensor = "PAJ"
             /\ Written(w, text)[call.byte] \in Byte
  <1> DEFINE calls == JobCalls[session][jobs[j].kind]
             call == CallOf(j)
  <1>1. /\ session \in Sessions /\ jobs[j].kind \in {"apply", "save"}
        /\ jobs[j].at \in 1 .. Len(calls)
    <2>1. jobs[j] \in Tasks  BY ElementOfSeq DEF Inv, Types
    <2>2. jobs[j].at \in 1 .. Len(calls)  BY BusyAt
    <2>3. QED  BY <2>1, <2>2 DEF Tasks, Inv, Types
  <1>2. call = calls[jobs[j].at]  BY DEF CallOf
  <1>3. PICK p \in PortsOf(session) : \E i \in DOMAIN Writes[session] :
               \E l \in DOMAIN Writes[session][i].at : call = Register(p, i, l)
    BY <1>1, <1>2, ClickCallsAre
  <1>4. PICK i \in DOMAIN Writes[session] :
               \E l \in DOMAIN Writes[session][i].at : call = Register(p, i, l)
    BY <1>3
  <1>5. PICK l \in DOMAIN Writes[session][i].at : call = Register(p, i, l)
    BY <1>4
  <1>6. call.port = p /\ call.field = i /\ call.byte = l  BY <1>5 DEF Register
  <1>7. call \in Call
    <2>1. calls \in Seq(Call)  BY <1>1, JobCallsAre
    <2>2. QED  BY <1>1, <1>2, <2>1, ElementOfSeq
  <1> DEFINE w == Writes[session][i]
             text == IF w.name = "sync" THEN NoNumber ELSE panel[p][w.name]
  <1>8. w \in Range(Writes[session])  BY DEF Range
  <1>9. /\ Row(w) /\ w.name \in session.fields \cup {"sync"}
        /\ w.at[l] \in Registers(session.sensor)
        /\ w.at[l] = <<1, 1>> => session.sensor = "PAJ"
    BY <1>1, <1>8, WriteRows
  <1>10. p \in Ports  BY PortsAre
  <1>11. text \in Text  BY <1>9, <1>10 DEF Values, Text
  <1> HIDE DEF w, text
  <1>12. Written(w, text)[l] \in Byte  BY <1>9, <1>11, WrittenIs DEF w
  <1>13. QED
    BY <1>4, <1>5, <1>6, <1>7, <1>8, <1>9, <1>10, <1>11, <1>12 DEF w, text

\* The register that a load reads.
LEMMA CallReads ==
  ASSUME Inv, NEW k \in 4 .. Len(LoadCalls[session])
  PROVE  LET call == LoadCalls[session][k]
             at   == Reads[session][call.field].at[call.byte]
         IN  call.port \in Ports /\ at \in Registers(session.sensor)
  <1>1. session \in Sessions  BY DEF Inv, Types
  <1>2. PICK p \in PortsOf(session) : \E i \in DOMAIN Reads[session] :
               \E l \in DOMAIN Reads[session][i].at :
                 LoadCalls[session][k] = Register(p, i, l)
    BY <1>1, LoadCallsAre
  <1>3. PICK i \in DOMAIN Reads[session] :
               \E l \in DOMAIN Reads[session][i].at :
                 LoadCalls[session][k] = Register(p, i, l)
    BY <1>2
  <1>4. PICK l \in DOMAIN Reads[session][i].at :
               LoadCalls[session][k] = Register(p, i, l)
    BY <1>3
  <1>5. Reads[session][i] \in Range(Reads[session])  BY DEF Range
  <1>6. Reads[session][i].at[l] \in Registers(session.sensor)
    BY <1>1, <1>5, ReadRows
  <1>7. p \in Ports  BY PortsAre
  <1>8. QED  BY <1>4, <1>6, <1>7 DEF Register

\* A panel shows texts when every register was read.
LEMMA PanelsTyped ==
  ASSUME Inv, NEW got, \A x \in DOMAIN got : got[x] \in Byte,
         \A l \in 4 .. Len(LoadCalls[session]) :
           AddressOf(LoadCalls[session][l]) \in DOMAIN got
  PROVE  Panels(got) \in [Ports -> [session.fields -> Text]]
  <1>1. session \in Sessions  BY DEF Inv, Types
  <1>2. SUFFICES ASSUME NEW p \in Ports, NEW name \in session.fields
                 PROVE  Panels(got)[p][name] \in Text
    <2>1. /\ DOMAIN Panels(got) = Ports
          /\ \A p \in Ports : DOMAIN Panels(got)[p] = session.fields
      BY DEF Panels, Inv, Types
    <2>2. Panels(got) =
            [p \in Ports |-> [name \in session.fields |-> Panels(got)[p][name]]]
      BY DEF Panels, Inv, Types
    <2>3. QED  BY <1>2, <2>2
  <1> DEFINE read == CHOOSE r \in Range(Reads[session]) : r.name = name
             bytes == [i \in DOMAIN read.at |-> got[<<p, read.at[i]>>]]
  <1>3. read \in Range(Reads[session]) /\ read.name = name
    <2>1. \E r \in Range(Reads[session]) : r.name = name  BY <1>1, FieldsAre
    <2>2. QED  BY <2>1
  <1>4. Panels(got)[p][name] = Shown(name, bytes)
    BY DEF Panels, Inv, Types
  <1> HIDE DEF read
  <1>5. /\ Len(read.at) \in 1 .. 3 /\ DOMAIN read.at = 1 .. Len(read.at)
        /\ read.name = "gain_index" => Len(read.at) = 2
    BY <1>1, <1>3, ReadRows
  <1>6. PICK i \in DOMAIN Reads[session] : read = Reads[session][i]
    BY <1>3 DEF Range
  <1>7. \A j \in DOMAIN read.at : got[<<p, read.at[j]>>] \in Byte
    <2>1. SUFFICES ASSUME NEW j \in DOMAIN read.at
                   PROVE  <<p, read.at[j]>> \in DOMAIN got
      OBVIOUS
    <2>2. p \in PortsOf(session)  BY PortsAre
    <2>3. PICK k \in 4 .. Len(LoadCalls[session]) :
                 LoadCalls[session][k] = Register(p, i, j)
      BY <1>1, <1>6, <2>2, LoadCallsAre
    <2>4. AddressOf(LoadCalls[session][k]) = <<p, read.at[j]>>
      BY <1>6, <2>3 DEF AddressOf, Register
    <2>5. QED  BY <2>3, <2>4
  <1>8. bytes \in Seq(Byte) /\ Len(bytes) = Len(read.at)
    <2>1. bytes \in [1 .. Len(read.at) -> Byte]  BY <1>5, <1>7
    <2>2. Len(read.at) \in Nat  BY <1>5
    <2> HIDE DEF bytes
    <2>3. bytes \in Seq(Byte)  BY <2>1, <2>2, SeqDef
    <2>4. 1 .. Len(bytes) = 1 .. Len(read.at) /\ Len(bytes) \in Nat
      BY <2>1, <2>3, LenProperties
    <2>5. QED  BY <1>5, <2>3, <2>4
  <1>9. Shown(name, bytes) \in Nat
    <2>1. \A k \in 1 .. Len(bytes) : bytes[k] \in Byte
      <3> HIDE DEF bytes
      <3>1. QED  BY <1>8, ElementOfSeq
    <2>2. Len(bytes) \in 1 .. 3 /\ (name = "gain_index" => Len(bytes) = 2)
      BY <1>3, <1>5, <1>8
    <2> HIDE DEF bytes
    <2>3. QED  BY ONLY <2>1, <2>2, ShownIs
  <1>10. QED  BY <1>4, <1>9 DEF Text

\* A load that goes on has bytes, or sets the panels to numbers.
LEMMA BytesGoOn ==
  ASSUME Inv, Values, NEW k \in 1 .. Len(LoadCalls[session]) + 1, NEW got, NEW failed,
         LoadGoesOn(k, got, failed), UNCHANGED <<session, regs, flash>>,
         \A x \in DOMAIN got : got[x] \in Byte,
         failed \/ \A l \in 4 .. k - 1 :
                     AddressOf(LoadCalls[session][l]) \in DOMAIN got
  PROVE  Values' /\ BytesRead'
  <1>1. Len(LoadCalls[session]) \in Nat  BY Calls DEF Inv, Types
  <1>2. CASE k <= Len(LoadCalls[session])
    <2>1. /\ loader' = [loader EXCEPT !.at = k, !.got = got, !.failed = failed]
          /\ panel' = panel
      BY <1>2 DEF LoadGoesOn
    <2>2. loader'.at = k /\ loader'.got = got /\ loader'.failed = failed
      BY <2>1 DEF Inv, Types
    <2>3. BytesRead'  BY Zenon, <2>2 DEF BytesRead, AddressOf
    <2>4. QED  BY <2>1, <2>3 DEF Values, Ports
  <1>3. CASE ~ (k <= Len(LoadCalls[session]))
    <2>1. loader' = NoLoad /\ (panel' = panel \/ (~failed /\ panel' = Panels(got)))
      BY <1>3 DEF LoadGoesOn
    <2>2. BytesRead'
      <3>1. loader'.at = 0 /\ loader'.got = << >>  BY <2>1 DEF NoLoad
      <3>2. DOMAIN loader'.got = {} /\ 4 .. loader'.at - 1 = {}  BY <3>1
      <3>3. QED  BY <3>2 DEF BytesRead
    <2>3. panel' \in [Ports -> [session.fields -> Text]]
      <3>1. k - 1 = Len(LoadCalls[session])  BY <1>1, <1>3
      <3>2. ~failed => Panels(got) \in [Ports -> [session.fields -> Text]]
        BY <3>1, PanelsTyped
      <3>3. QED  BY <2>1, <3>2 DEF Values
    <2>4. QED  BY <2>2, <2>3 DEF Values, Ports
  <1>4. QED  BY <1>2, <1>3

\* Whatever a load's call returns, it leaves bytes and numbers.
LEMMA BytesOfGeneral ==
  ASSUME Inv, Values, BytesRead, NEW answered \in BOOLEAN, LoadGeneral(answered)
  PROVE  Values' /\ BytesRead'
  <1>1. /\ loader.at \in 1 .. 3
        /\ LoadGoesOn(loader.at + 1, loader.got, loader.failed)
        /\ UNCHANGED <<session, regs, flash>>
    BY DEF LoadGeneral, device
  <1>2. loader.at + 1 \in 1 .. Len(LoadCalls[session]) + 1
    BY <1>1, Calls DEF Inv, Types
  <1>3. 4 .. loader.at + 1 - 1 = {}  BY <1>1
  <1>4. QED  BY <1>1, <1>2, <1>3, BytesGoOn DEF BytesRead

LEMMA BytesOfRegister ==
  ASSUME Inv, Values, BytesRead, NEW answered \in BOOLEAN, LoadRegister(answered)
  PROVE  Values' /\ BytesRead'
  <1> DEFINE calls == LoadCalls[session]
             address == AddressOf(calls[loader.at])
             read == Put(loader.got, address, regs[address[1]][address[2]])
  <1>1. /\ loader.at > 3 /\ UNCHANGED <<session, regs, flash>>
        /\ answered => LoadGoesOn(loader.at + 1, read, loader.failed)
        /\ ~answered => LoadGoesOn(AfterSection(calls, loader.at), loader.got, TRUE)
    BY Zenon DEF LoadRegister, AddressOf, device
  <1>2. Len(calls) \in Nat /\ loader.at \in 0 .. Len(calls)
    BY Calls DEF Inv, Types
  <1>3. regs[address[1]][address[2]] \in Byte
    <2>1. loader.at \in 4 .. Len(calls)
      <3> DEFINE n == Len(calls)
                 at == loader.at
      <3>1. n \in Nat /\ at \in 0 .. n /\ at > 3  BY <1>1, <1>2
      <3> HIDE DEF n, at
      <3>2. at \in 4 .. n  BY <3>1
      <3>3. QED  BY <3>2 DEF n, at
    <2>2. address[1] \in Ports /\ address[2] \in Registers(session.sensor)
      BY <2>1, CallReads DEF AddressOf
    <2> HIDE DEF address
    <2>3. QED  BY <2>2 DEF Values
  <1> HIDE DEF calls
  <1>4. loader.at \in 1 .. Len(calls) /\ loader.at + 1 \in 1 .. Len(calls) + 1
    <2>1. loader.at > 3  BY <1>1
    <2>2. QED  BY <1>2, <2>1
  <1>5. CASE answered
    <2>1. /\ DOMAIN read = DOMAIN loader.got \cup {address}
          /\ \A x \in DOMAIN read :
               read[x] = IF x = address THEN regs[address[1]][address[2]]
                         ELSE loader.got[x]
      <3> HIDE DEF address
      <3>1. QED  BY DEF Put
    <2>2. \A x \in DOMAIN read : read[x] \in Byte
      <3> HIDE DEF address, read
      <3>1. QED  BY <1>3, <2>1 DEF BytesRead
    <2>3. loader.failed \/ \A l \in 4 .. loader.at + 1 - 1 :
                             AddressOf(calls[l]) \in DOMAIN read
      <3>1. SUFFICES ASSUME ~loader.failed, NEW l \in 4 .. loader.at + 1 - 1
                     PROVE  AddressOf(calls[l]) \in DOMAIN read
        OBVIOUS
      <3>2. l = loader.at \/ l \in 4 .. loader.at - 1  BY <1>4
      <3>3. CASE l = loader.at  BY <2>1, <3>3
      <3>4. CASE l \in 4 .. loader.at - 1
        <4>1. AddressOf(calls[l]) \in DOMAIN loader.got
          BY <3>1, <3>4 DEF BytesRead, calls
        <4> HIDE DEF read
        <4>2. QED  BY <2>1, <4>1
      <3>5. QED  BY <3>2, <3>3, <3>4
    <2>4. LoadGoesOn(loader.at + 1, read, loader.failed)  BY <1>1, <1>5
    <2> HIDE DEF read
    <2>5. QED  BY <1>1, <1>4, <2>2, <2>3, <2>4, BytesGoOn DEF calls
  <1>6. CASE ~answered
    <2> DEFINE k == AfterSection(calls, loader.at)
    <2>1. k \in 1 .. Len(calls) + 1  BY <1>2, <1>4, AfterSectionIs
    <2>2. LoadGoesOn(k, loader.got, TRUE)  BY <1>1, <1>6
    <2> HIDE DEF k
    <2>3. QED  BY <1>1, <2>1, <2>2, BytesGoOn DEF BytesRead, calls
  <1>7. QED  BY <1>5, <1>6

\* What is written is bytes.
LEMMA ValuesWritten ==
  ASSUME Inv, Values, NEW j \in DOMAIN jobs, NEW done \in BOOLEAN,
         NEW answered \in BOOLEAN, WritePanel(j, done, answered)
  PROVE  regs' \in [Ports -> [Registers(session.sensor) -> Byte]]
  <1> DEFINE call == CallOf(j)
             w    == Writes[session][call.field]
             text == IF w.name = "sync" THEN NoNumber ELSE panel[call.port][w.name]
             at   == w.at[call.byte]
             byte == Written(w, text)[call.byte]
  <1>1. /\ Busy(j) /\ call.op = "register"
        /\ regs' = IF done THEN [regs EXCEPT ![call.port] = WriteRegister(@, at, byte)]
                   ELSE regs
    BY DEF WritePanel, JobStep
  <1>2. /\ call.port \in Ports /\ at \in Registers(session.sensor) /\ byte \in Byte
        /\ at = <<1, 1>> => session.sensor = "PAJ"
    BY <1>1, CallWrites
  <1> DEFINE new == WriteRegister(regs[call.port], at, byte)
  <1> HIDE DEF call, at, byte
  <1>3. regs[call.port] \in [Registers(session.sensor) -> Byte]
    BY <1>2 DEF Values
  <1>4. session \in Sessions  BY DEF Inv, Types
  <1>5. new \in [Registers(session.sensor) -> Byte]
    BY <1>2, <1>3, <1>4, WriteRegisterTyped
  <1>6. regs' = IF done THEN [regs EXCEPT ![call.port] = new] ELSE regs
    BY <1>1
  <1> HIDE DEF new
  <1>7. QED  BY <1>2, <1>5, <1>6 DEF Values

\* What the values are at the start, after every step and so always.
LEMMA ValuesInit == SettingsInit => Values /\ BytesRead
  <1> SUFFICES ASSUME SettingsInit PROVE Values /\ BytesRead
    OBVIOUS
  <1>1. session \in Sessions  BY Zenon DEF SettingsInit
  <1>2. regs \in [Ports -> [Registers(session.sensor) -> Byte]]
    <2>1. \A p \in Ports :
            OldRegs[session.sensor][p] \in [Registers(session.sensor) -> Byte]
      BY <1>1, PortsAre, SettingsParameters
    <2>2. QED  BY Zenon, <2>1 DEF SettingsInit
  <1>3. panel \in [Ports -> [session.fields -> Text]]
    BY Zenon, <1>1, DefaultsTyped DEF SettingsInit
  <1>4. flash.regs = regs  BY Zenon DEF SettingsInit
  <1>5. BytesRead
    <2>1. loader.at = 0 /\ loader.got = << >>  BY Zenon DEF SettingsInit, NoLoad
    <2>2. DOMAIN loader.got = {} /\ 4 .. loader.at - 1 = {}  BY <2>1
    <2>3. QED  BY <2>2 DEF BytesRead
  <1>6. QED  BY <1>2, <1>3, <1>4, <1>5 DEF Values

LEMMA ValuesStep ==
  Inv /\ Values /\ BytesRead /\ [SettingsNext]_settingsVars => Values' /\ BytesRead'
  <1> SUFFICES ASSUME Inv, Values, BytesRead, [SettingsNext]_settingsVars
               PROVE  Values' /\ BytesRead'
    OBVIOUS
  <1>1. ASSUME UNCHANGED <<session, loader>> PROVE BytesRead'
    BY Zenon, <1>1 DEF BytesRead, AddressOf
  <1>2. ASSUME session' = session, loader' = [loader EXCEPT !.clean = FALSE]
        PROVE  BytesRead'
    <2>1. UNCHANGED <<loader.at, loader.got, loader.failed>>
      BY <1>2 DEF Inv, Types
    <2>2. QED  BY Zenon, <1>2, <2>1 DEF BytesRead, AddressOf
  <1>3. ASSUME UNCHANGED <<session, regs, flash, panel>> PROVE Values'
    BY <1>3 DEF Values, Ports
  <1>4. session \in Sessions  BY DEF Inv, Types
  <1>5. CASE Toggle \/ Reload
    BY <1>1, <1>3, <1>5 DEF Toggle, Reload, device, texts
  <1>6. CASE Type
    <2>1. UNCHANGED <<session, regs, flash>> /\ Disturb
      BY <1>6 DEF Type, Edit, EditGeneral, device
    <2>2. panel' \in [Ports -> [session.fields -> Text]]
      <3>1. \A text \in Texts : text \in Text  BY SettingsParameters DEF Text
      <3>2. CASE \E p \in Ports, name \in session.typed \cap session.fields,
                    text \in Texts : Edit(p, name, text)
        <4>1. PICK p \in Ports, name \in session.fields, text \in Texts :
                     panel' = panel \/ panel' = [panel EXCEPT ![p][name] = text]
          BY <3>2 DEF Edit
        <4>2. text \in Text  BY <3>1
        <4>3. [panel EXCEPT ![p][name] = text] \in [Ports -> [session.fields -> Text]]
          BY <4>2 DEF Values
        <4>4. QED  BY <4>1, <4>3 DEF Values
      <3>3. CASE panel' = panel  BY <3>3 DEF Values
      <3>4. QED  BY <1>6, <3>2, <3>3 DEF Type, EditGeneral
    <2>3. QED  BY <1>2, <2>1, <2>2 DEF Values, Ports, Disturb
  <1>7. CASE LoadDefaults
    <2>1. /\ UNCHANGED <<session, regs, flash>> /\ Disturb
          /\ panel' = panel \/ panel' = [p \in Ports |-> TextsOf(Defaults(p))]
      BY Zenon, <1>7 DEF LoadDefaults, device
    <2>2. panel' \in [Ports -> [session.fields -> Text]]
      BY <1>4, <2>1, DefaultsTyped DEF Values
    <2>3. QED  BY <1>2, <2>1, <2>2 DEF Values, Ports, Disturb
  <1>8. CASE LosePower
    <2>1. UNCHANGED <<session, flash, panel>> /\ Disturb /\ regs' = flash.regs
      BY <1>8 DEF LosePower, texts
    <2>2. QED  BY <1>2, <2>1 DEF Values, Ports, Disturb
  <1>9. CASE LoadStarts
    <2>1. UNCHANGED <<session, regs, flash, panel>>
          /\ loader' = [at |-> 1, got |-> << >>, failed |-> FALSE, clean |-> NoTask]
      BY <1>9 DEF LoadStarts, device, texts
    <2>2. loader'.at = 1 /\ loader'.got = << >>  BY <2>1
    <2>3. DOMAIN loader'.got = {} /\ 4 .. loader'.at - 1 = {}  BY <2>2
    <2>4. BytesRead'  BY <2>3 DEF BytesRead
    <2>5. QED  BY <1>3, <2>1, <2>4
  <1>10. CASE \E answered \in BOOLEAN : LoadGeneral(answered) \/ LoadRegister(answered)
    BY <1>10, BytesOfGeneral, BytesOfRegister
  <1>11. CASE \E kind \in {"apply", "save"} : Click(kind)
    <2>1. UNCHANGED <<session, regs, flash, panel>>
          /\ loader' = [loader EXCEPT !.clean = FALSE]
      BY Zenon, <1>11 DEF Click, device, texts
    <2>2. QED  BY <1>2, <1>3, <2>1
  <1>12. CASE \E j \in DOMAIN jobs : Job(j)
    <2>1. PICK j \in DOMAIN jobs, done \in BOOLEAN, answered \in BOOLEAN :
                 \/ WriteGeneral(j, done)
                 \/ WritePanel(j, done, answered)
                 \/ FlashSettings(j, done, answered)
      BY <1>12 DEF Job
    <2>2. UNCHANGED <<session, loader, panel>>
      BY <2>1 DEF WriteGeneral, WritePanel, FlashSettings, JobStep, texts
    <2>3. CASE WriteGeneral(j, done)
      BY <1>1, <1>3, <2>2, <2>3 DEF WriteGeneral
    <2>4. CASE WritePanel(j, done, answered)
      <3>1. flash' = flash  BY <2>4 DEF WritePanel
      <3>2. regs' \in [Ports -> [Registers(session.sensor) -> Byte]]
        BY <2>4, ValuesWritten
      <3>3. QED  BY <1>1, <2>2, <3>1, <3>2 DEF Values, Ports
    <2>5. CASE FlashSettings(j, done, answered)
      <3>1. /\ regs' = regs
            /\ flash' = flash \/ flash' = [regs |-> regs, config |-> config]
        BY <2>5 DEF FlashSettings
      <3>2. flash'.regs \in [Ports -> [Registers(session.sensor) -> Byte]]
        BY <3>1 DEF Values
      <3>3. QED  BY <1>1, <2>2, <3>1, <3>2 DEF Values, Ports
    <2>6. QED  BY <2>1, <2>3, <2>4, <2>5
  <1>13. CASE UNCHANGED settingsVars
    BY <1>1, <1>3, <1>13 DEF settingsVars, device, texts
  <1>14. QED
    BY <1>5, <1>6, <1>7, <1>8, <1>9, <1>10, <1>11, <1>12, <1>13
       DEF SettingsNext, Load

LEMMA ValuesHold == SettingsSpec => [](Values /\ BytesRead)
  <1>1. QED  BY InvHolds, ValuesInit, ValuesStep, PTL DEF SettingsSpec

\* A register of either sensor holds a byte, whatever text it was written from,
\* and a panel shows numbers, whatever bytes were read.
THEOREM SettingsTyped == SettingsSpec => []SettingsTypeOK
  <1>1. Inv /\ Values => SettingsTypeOK
    <2> SUFFICES ASSUME Inv, Values PROVE SettingsTypeOK
      OBVIOUS
    <2>1. \A j \in DOMAIN jobs :
            jobs[j].at \in 0 .. Len(JobCalls[session][jobs[j].kind])
      <3>1. SUFFICES ASSUME NEW j \in DOMAIN jobs
                     PROVE  jobs[j].at \in 0 .. Len(JobCalls[session][jobs[j].kind])
        OBVIOUS
      <3>2. jobs[j] \in Tasks /\ AtCall(session, jobs[j])
        BY ElementOfSeq DEF Inv, Types
      <3>3. jobs[j].at \in Nat /\ jobs[j].kind \in {"apply", "save"}
        BY <3>2 DEF Tasks
      <3>4. Len(JobCalls[session][jobs[j].kind]) \in Nat
        BY <3>3, Calls DEF Inv, Types
      <3>5. QED  BY <3>2, <3>3, <3>4 DEF AtCall
    <2>2. QED  BY <2>1 DEF Inv, Types, Values, SettingsTypeOK
  <1>2. QED  BY <1>1, InvHolds, ValuesHold, PTL

(***************************************************************************)
(* What a click has done.                                                  *)
(***************************************************************************)
\* The ports hold what a call writes, and a call that syncs was the last to.
Holds(r, call) ==
  LET w    == Writes[session][call.field]
      text == IF w.name = "sync" THEN NoNumber ELSE panel[call.port][w.name]
  IN  /\ r[call.port][w.at[call.byte]] = Written(w, text)[call.byte]
      /\ w.at[call.byte] = <<1, 1>> =>
           \A x \in DOMAIN TakenFrom : r[call.port][x] = r[call.port][TakenFrom[x]]

\* What a register that is written leaves of the others.
LEMMA WriteRegisterIs ==
  ASSUME NEW sensor, NEW port \in [Registers(sensor) -> Byte],
         NEW at \in Registers(sensor), NEW byte \in Byte, at \notin DOMAIN TakenFrom,
         at = <<1, 1>> => sensor = "PAJ" /\ \E s \in Sessions : s.sensor = "PAJ"
  PROVE  LET new == WriteRegister(port, at, byte)
         IN  /\ new[at] = byte
             /\ \A x \in Registers(sensor) :
                  x # at /\ (x \notin DOMAIN TakenFrom \/ at # <<1, 1>>)
                    => new[x] = port[x]
             /\ at = <<1, 1>> =>
                  \A x \in DOMAIN TakenFrom : new[x] = new[TakenFrom[x]]
  <1> DEFINE written == [port EXCEPT ![at] = byte]
             new == WriteRegister(port, at, byte)
  <1>1. /\ DOMAIN written = Registers(sensor) /\ written[at] = byte
        /\ \A x \in Registers(sensor) : x # at => written[x] = port[x]
    OBVIOUS
  <1>2. CASE at = <<1, 1>>
    <2>1. new = [x \in DOMAIN port |->
                   IF x \in DOMAIN TakenFrom THEN written[TakenFrom[x]]
                   ELSE written[x]]
      BY <1>2 DEF WriteRegister
    <2> HIDE DEF written, new
    <2>2. \A x \in Registers(sensor) :
            new[x] = IF x \in DOMAIN TakenFrom THEN written[TakenFrom[x]]
                     ELSE written[x]
      BY <2>1
    <2>3. \A x \in DOMAIN TakenFrom :
            /\ x \in Registers(sensor) /\ TakenFrom[x] \in Registers(sensor)
            /\ TakenFrom[x] \notin DOMAIN TakenFrom
      BY <1>2, SyncRow
    <2>4. \A x \in DOMAIN TakenFrom : new[x] = new[TakenFrom[x]]
      BY <2>2, <2>3
    <2>5. QED  BY <1>1, <1>2, <2>2, <2>4 DEF new
  <1>3. CASE at # <<1, 1>>
    <2>1. new = written  BY <1>3 DEF WriteRegister
    <2>2. QED  BY <1>1, <1>3, <2>1
  <1>4. QED  BY <1>2, <1>3

\* A call that writes leaves what the calls before it wrote: no byte is
\* written again as another, and after a sync come only syncs.
LEMMA LaterCallsKeep ==
  ASSUME Inv, Values, NEW kind \in {"apply", "save"},
         NEW k \in 1 .. Len(JobCalls[session][kind]),
         NEW l \in 1 .. Len(JobCalls[session][kind]), k <= l,
         JobCalls[session][kind][k].op = "register",
         JobCalls[session][kind][l].op = "register",
         k # l => Holds(regs, JobCalls[session][kind][k])
  PROVE  LET call == JobCalls[session][kind][l]
             w    == Writes[session][call.field]
             text == IF w.name = "sync" THEN NoNumber ELSE panel[call.port][w.name]
         IN  Holds([regs EXCEPT ![call.port] =
                      WriteRegister(@, w.at[call.byte], Written(w, text)[call.byte])],
                   JobCalls[session][kind][k])
  <1> DEFINE calls == JobCalls[session][kind]
             c == calls[k]
             d == calls[l]
             w == Writes[session][c.field]
             v == Writes[session][d.field]
             TextOf(x, p) == IF x.name = "sync" THEN NoNumber ELSE panel[p][x.name]
             at == v.at[d.byte]
             byte == Written(v, TextOf(v, d.port))[d.byte]
             port == WriteRegister(regs[d.port], at, byte)
             new == [regs EXCEPT ![d.port] = port]
  <1>1. session \in Sessions  BY DEF Inv, Types
  <1>2. ASSUME NEW x \in {k, l}
        PROVE  /\ calls[x].port \in Ports /\ calls[x].field \in DOMAIN Writes[session]
               /\ calls[x].byte \in DOMAIN Writes[session][calls[x].field].at
    <2>1. x \in 1 .. Len(calls) /\ calls[x].op = "register"  OBVIOUS
    <2>2. PICK p \in PortsOf(session), i \in DOMAIN Writes[session] :
                 \E j \in DOMAIN Writes[session][i].at : calls[x] = Register(p, i, j)
      BY <1>1, <2>1, ClickCallsAre
    <2>3. PICK j \in DOMAIN Writes[session][i].at : calls[x] = Register(p, i, j)
      BY <2>2
    <2>4. calls[x].port = p /\ calls[x].field = i /\ calls[x].byte = j
      BY <2>3 DEF Register
    <2>5. p \in Ports  BY PortsAre
    <2>6. QED  BY <2>4, <2>5
  <1>3. /\ c.port \in Ports /\ d.port \in Ports
        /\ w \in Range(Writes[session]) /\ v \in Range(Writes[session])
        /\ c.byte \in DOMAIN w.at /\ d.byte \in DOMAIN v.at
    BY <1>2 DEF Range
  <1>4. /\ Row(w) /\ Row(v)
        /\ w.at[c.byte] \in Registers(session.sensor)
        /\ at \in Registers(session.sensor)
        /\ w.at[c.byte] = <<1, 1>> => session.sensor = "PAJ"
        /\ at = <<1, 1>> => session.sensor = "PAJ"
        /\ v.name \in session.fields \cup {"sync"}
        /\ w.at[c.byte] = at => w = v /\ c.byte = d.byte
    <2> HIDE DEF w, v, c, d
    <2>1. /\ Row(w) /\ w.at[c.byte] \in Registers(session.sensor)
          /\ w.at[c.byte] = <<1, 1>> => session.sensor = "PAJ"
      BY <1>1, <1>3, WriteRows
    <2>2. /\ Row(v) /\ v.at[d.byte] \in Registers(session.sensor)
          /\ v.at[d.byte] = <<1, 1>> => session.sensor = "PAJ"
          /\ v.name \in session.fields \cup {"sync"}
      BY <1>1, <1>3, WriteRows
    <2>3. w.at[c.byte] = v.at[d.byte] => w = v /\ c.byte = d.byte
      BY <1>1, <1>3, WriteRows
    <2>4. QED  BY <2>1, <2>2, <2>3
  <1>5. /\ w.at[c.byte] \notin DOMAIN TakenFrom /\ at \notin DOMAIN TakenFrom
        /\ w.at[c.byte] = <<1, 1>> => w.name = "sync"
        /\ v.name = "sync" => at \in {<<1, 1>>, <<0, 1>>}
    BY Zenon, <1>3, <1>4 DEF Row
  <1>6. c.port = d.port /\ w.name = "sync" => v.name = "sync"
    <2>1. CASE k = l  BY <2>1
    <2>2. CASE k # l
      <3>1. /\ Ordered(calls, SyncCallsLast(session))
            /\ calls \in Seq(Call) /\ DOMAIN calls = 1 .. Len(calls)
            /\ Len(calls) \in Nat
        BY <1>1, ClickCallsAre, JobCallsAre, LenProperties
      <3>2. k < l  BY <2>2, <3>1
      <3>3. <<c, d>> \in SyncCallsLast(session)  BY <3>1, <3>2 DEF Ordered
      <3>4. QED  BY <3>3 DEF SyncCallsLast
    <2>3. QED  BY <2>1, <2>2
  <1>7. byte \in Byte
    <2>1. TextOf(v, d.port) \in Text  BY Zenon, <1>3, <1>4 DEF Values, Text
    <2> HIDE DEF TextOf
    <2>2. QED  BY Zenon, <1>3, <1>4, <2>1, WrittenIs
  <1>8. regs[d.port] \in [Registers(session.sensor) -> Byte]
    <2> HIDE DEF d
    <2>1. QED  BY <1>3 DEF Values
  <1> HIDE DEF w, v, c, d, at, byte
  <1>9. /\ port[at] = byte
        /\ \A x \in Registers(session.sensor) :
             x # at /\ (x \notin DOMAIN TakenFrom \/ at # <<1, 1>>)
               => port[x] = regs[d.port][x]
        /\ at = <<1, 1>> =>
             \A x \in DOMAIN TakenFrom : port[x] = port[TakenFrom[x]]
    BY <1>1, <1>4, <1>5, <1>7, <1>8, WriteRegisterIs
  <1> HIDE DEF port
  <1>10. new[d.port] = port /\ \A p \in Ports : p # d.port => new[p] = regs[p]
    BY <1>3 DEF Values
  <1> HIDE DEF new
  <1>11. new[c.port][w.at[c.byte]] = Written(w, TextOf(w, c.port))[c.byte]
    <2>1. CASE c.port = d.port /\ w.at[c.byte] = at
      <3>1. w = v /\ c.byte = d.byte  BY <1>4, <2>1
      <3>2. QED  BY <1>9, <1>10, <2>1, <3>1 DEF byte
    <2>2. CASE ~ (c.port = d.port /\ w.at[c.byte] = at)
      <3>1. k # l  BY <2>2 DEF c, d, w, v, at
      <3>2. regs[c.port][w.at[c.byte]] = Written(w, TextOf(w, c.port))[c.byte]
        BY Zenon, <3>1 DEF Holds, c, w
      <3>3. new[c.port][w.at[c.byte]] = regs[c.port][w.at[c.byte]]
        BY <1>3, <1>4, <1>5, <1>9, <1>10, <2>2
      <3>4. QED  BY <3>2, <3>3
    <2>3. QED  BY <2>1, <2>2
  <1>12. ASSUME w.at[c.byte] = <<1, 1>>, NEW x \in DOMAIN TakenFrom
         PROVE  new[c.port][x] = new[c.port][TakenFrom[x]]
    <2>1. /\ session.sensor = "PAJ" /\ x \in Registers(session.sensor)
          /\ TakenFrom[x] \in Registers(session.sensor)
      BY <1>1, <1>4, <1>12, SyncRow
    <2>2. CASE c.port = d.port /\ at = <<1, 1>>  BY <1>9, <1>10, <2>2
    <2>3. CASE ~ (c.port = d.port /\ at = <<1, 1>>)
      <3>1. k # l  BY Zenon, <1>12, <2>3 DEF c, d, w, v, at
      <3>2. regs[c.port][x] = regs[c.port][TakenFrom[x]]
        BY Zenon, <1>12, <3>1 DEF Holds, c, w
      <3>3. CASE c.port = d.port
        <4>1. at = <<0, 1>>  BY <1>5, <1>6, <1>12, <2>3, <3>3
        <4>2. x # <<0, 1>> /\ TakenFrom[x] # <<0, 1>> /\ <<0, 1>> # <<1, 1>>
          <5>1. \A a \in {5, 6, 11, 12, 14, 15, 16} :
                  <<12, a>> # <<0, 1>> /\ <<1, a>> # <<0, 1>>
            OBVIOUS
          <5>2. <<0, 1>> # <<1, 1>>  OBVIOUS
          <5>3. QED  BY ONLY <1>12, <5>1, <5>2, TakenFromIs
        <4>3. /\ port[x] = regs[d.port][x]
              /\ port[TakenFrom[x]] = regs[d.port][TakenFrom[x]]
          BY <1>9, <2>1, <4>1, <4>2
        <4>4. QED  BY <1>10, <3>2, <3>3, <4>3
      <3>4. CASE c.port # d.port  BY <1>3, <1>10, <3>2, <3>4
      <3>5. QED  BY <3>3, <3>4
    <2>4. QED  BY <2>2, <2>3
  <1>13. Holds(new, c)  BY Zenon, <1>11, <1>12 DEF Holds, w
  <1>14. QED  BY Zenon, <1>13 DEF new, port, at, byte, v, d, c

\* Ports that hold all a click writes read back as what its panels show.
LEMMA AllReadsBack ==
  ASSUME Inv, Values, NEW kind \in {"apply", "save"}, NEW r,
         \A k \in 1 .. Len(JobCalls[session][kind]) :
           JobCalls[session][kind][k].op = "register" =>
             Holds(r, JobCalls[session][kind][k])
  PROVE  ReadsBack(r, panel)
  <1> DEFINE calls == JobCalls[session][kind]
  <1>1. session \in Sessions  BY DEF Inv, Types
  <1>2. SUFFICES ASSUME NEW p \in Ports, NEW read \in Range(Reads[session]),
                        NEW w \in Range(Writes[session]),
                        w.name = read.name, Fits(w, panel[p][w.name])
                 PROVE  panel[p][w.name] =
                          Shown(read.name, [i \in DOMAIN read.at |-> r[p][read.at[i]]])
    BY DEF ReadsBack
  <1> DEFINE text == panel[p][w.name]
             bytes == [i \in DOMAIN read.at |-> r[p][read.at[i]]]
  <1>3. w.name # "sync" /\ w.name \in session.fields
    BY <1>1, <1>2, ReadsAreFields DEF Named
  <1>4. Row(w) /\ text \in Text  BY <1>1, <1>3, WriteRows DEF Values
  <1>5. ASSUME NEW i \in DOMAIN Writes[session], NEW j \in DOMAIN Writes[session][i].at
        PROVE  Holds(r, Register(p, i, j))
    <2>1. p \in PortsOf(session)  BY PortsAre
    <2>2. PICK k \in 1 .. Len(calls) : calls[k] = Register(p, i, j)
      BY <1>1, <2>1, ClickCallsAre
    <2>3. calls[k].op = "register"  BY <2>2 DEF Register
    <2>4. QED  BY <2>2, <2>3
  <1>6. \A j \in DOMAIN w.at : r[p][w.at[j]] = Written(w, text)[j]
    <2>1. SUFFICES ASSUME NEW j \in DOMAIN w.at
                   PROVE  r[p][w.at[j]] = Written(w, text)[j]
      OBVIOUS
    <2>2. PICK i \in DOMAIN Writes[session] : w = Writes[session][i]
      BY DEF Range
    <2>3. Holds(r, Register(p, i, j))  BY <1>5, <2>2
    <2>4. Register(p, i, j).port = p /\ Register(p, i, j).field = i
          /\ Register(p, i, j).byte = j
      BY DEF Register
    <2>5. QED  BY Zenon, <1>3, <2>2, <2>3, <2>4 DEF Holds
  <1>7. session.sensor = "PAJ" =>
          \A x \in DOMAIN TakenFrom : r[p][x] = r[p][TakenFrom[x]]
    <2>1. SUFFICES ASSUME session.sensor = "PAJ", NEW x \in DOMAIN TakenFrom
                   PROVE  r[p][x] = r[p][TakenFrom[x]]
      OBVIOUS
    <2>2. PICK i \in DOMAIN Writes[session] :
                 /\ 1 \in DOMAIN Writes[session][i].at
                 /\ Writes[session][i].at[1] = <<1, 1>>
      BY <1>1, <2>1, SyncRow
    <2>3. Holds(r, Register(p, i, 1))  BY <1>5, <2>2
    <2>4. Register(p, i, 1).port = p /\ Register(p, i, 1).field = i
          /\ Register(p, i, 1).byte = 1
      BY DEF Register
    <2>5. QED  BY Zenon, <2>2, <2>3, <2>4 DEF Holds
  <1>8. /\ Pair(read, w) /\ (session.sensor # "PAJ" => read.at = w.at)
        /\ Len(read.at) \in 1 .. 3 /\ DOMAIN read.at = 1 .. Len(read.at)
    BY <1>1, <1>2, ReadRows
  <1> HIDE DEF text
  <1>9. \A i \in 1 .. Len(w.at) : bytes[i] = Written(w, text)[i]
    <2>1. SUFFICES ASSUME NEW i \in 1 .. Len(w.at)
                   PROVE  r[p][read.at[i]] = Written(w, text)[i]
      BY <1>8 DEF Pair
    <2>2. i \in DOMAIN read.at /\ i \in DOMAIN w.at  BY <1>8 DEF Pair
    <2>3. r[p][w.at[i]] = Written(w, text)[i]  BY <1>6, <2>2
    <2>4. r[p][read.at[i]] = r[p][w.at[i]]  BY <1>7, <1>8, <2>2 DEF Pair
    <2>5. QED  BY <2>3, <2>4
  <1>10. Len(bytes) = Len(w.at)
    <2>1. DOMAIN bytes = 1 .. Len(read.at) /\ Len(read.at) \in Nat  BY <1>8
    <2>2. bytes \in [1 .. Len(read.at) -> {bytes[i] : i \in 1 .. Len(read.at)}]
      BY <2>1
    <2> HIDE DEF bytes
    <2>3. bytes \in Seq({bytes[i] : i \in 1 .. Len(read.at)})
      BY <2>1, <2>2, SeqDef
    <2>4. 1 .. Len(bytes) = 1 .. Len(read.at) /\ Len(bytes) \in Nat
      BY <2>1, <2>3, LenProperties
    <2>5. QED  BY <1>8, <2>1, <2>4 DEF Pair
  <1> HIDE DEF bytes
  <1>11. Fits(w, text)  BY <1>2 DEF text
  <1>12. Shown(w.name, bytes) = text
    BY <1>4, <1>9, <1>10, <1>11, FieldsReadBack DEF text
  <1>13. QED  BY <1>2, <1>12 DEF text, bytes

\* A click that nothing disturbed is alone, and every register behind it holds
\* what it wrote unless a call failed.
Progress ==
  \A j \in DOMAIN jobs : jobs[j].clean /\ Busy(j) =>
    LET calls == JobCalls[session][jobs[j].kind]
    IN  /\ loader.at = 0
        /\ \A i \in DOMAIN jobs : i # j => ~Busy(i)
        /\ jobs[j].failed \/ \A k \in 1 .. jobs[j].at - 1 :
                               calls[k].op = "register" => Holds(regs, calls[k])

\* A save flashes only what was written whole.
FlashIsWhole ==
  \A j \in DOMAIN jobs : Busy(j) /\ CallOf(j).op = "flash" => ~jobs[j].failed

\* A disturbance leaves a click where it is.
LEMMA DirtyKeeps ==
  ASSUME Types, jobs' = Dirty(jobs)
  PROVE  /\ DOMAIN jobs' = DOMAIN jobs
         /\ \A j \in DOMAIN jobs :
              /\ jobs'[j].clean = FALSE /\ jobs'[j].kind = jobs[j].kind
              /\ jobs'[j].at = jobs[j].at /\ jobs'[j].failed = jobs[j].failed
  <1>1. \A j \in DOMAIN jobs : jobs[j] \in Tasks
    BY LenProperties, ElementOfSeq DEF Types
  <1>2. jobs' = [j \in DOMAIN jobs |-> [jobs[j] EXCEPT !.clean = FALSE]]
    BY DEF Dirty
  <1>3. ASSUME NEW j \in DOMAIN jobs
        PROVE  /\ jobs'[j].clean = FALSE /\ jobs'[j].kind = jobs[j].kind
               /\ jobs'[j].at = jobs[j].at /\ jobs'[j].failed = jobs[j].failed
    <2>1. jobs'[j] = [jobs[j] EXCEPT !.clean = FALSE]  BY <1>2
    <2>2. jobs[j] \in Tasks  BY <1>1
    <2>3. QED  BY <2>1, <2>2 DEF Tasks
  <1>4. QED  BY <1>2, <1>3

\* A disturbance ends what is claimed of the clicks.
LEMMA DirtyProgress ==
  ASSUME Types, FlashIsWhole, jobs' = Dirty(jobs), session' = session
  PROVE  Progress' /\ FlashIsWhole'
  BY Zenon, DirtyKeeps DEF Progress, FlashIsWhole, Busy, CallOf

\* The calls that a click passes over are none that writes a register.
LEMMA RegistersAreMade ==
  ASSUME NEW calls, Len(calls) \in Nat, NEW k \in 1 .. Len(calls) + 1, NEW failed,
         NEW l \in k .. NextCall(calls, k, failed) - 1
  PROVE  calls[l].op # "register"
  <1> DEFINE next == NextCall(calls, k, failed)
  <1>1. /\ next \in k .. Len(calls) + 1
        /\ \A m \in k .. Len(calls) : Made(calls[m], failed) => next <= m
    BY NextCallIs
  <1> HIDE DEF next
  <1>2. l \in k .. next - 1  BY DEF next
  <1>3. l \in k .. Len(calls) /\ ~ (next <= l)  BY <1>1, <1>2
  <1>4. ~Made(calls[l], failed)  BY <1>1, <1>3
  <1>5. "register" \notin Range(General)  BY DEF General, Range
  <1>6. calls[l].op = "register" => Made(calls[l], failed)  BY <1>5 DEF Made
  <1>7. QED  BY <1>4, <1>6

\* What a step of a click leaves of the clicks.
LEMMA GoOnLeaves ==
  ASSUME Inv, NEW j \in DOMAIN jobs,
         NEW k \in 1 .. Len(JobCalls[session][jobs[j].kind]) + 1,
         NEW failed \in BOOLEAN, GoOn(j, k, failed)
  PROVE  LET calls == JobCalls[session][jobs[j].kind]
             next  == NextCall(calls, k, failed)
         IN  /\ DOMAIN jobs' = DOMAIN jobs
             /\ \A i \in DOMAIN jobs : i # j => jobs'[i] = jobs[i]
             /\ jobs'[j].kind = jobs[j].kind /\ jobs'[j].clean = jobs[j].clean
             /\ jobs'[j].failed = failed
             /\ jobs'[j].at = IF next <= Len(calls) THEN next ELSE 0
             /\ ~ (next <= Len(calls)) =>
                  status' = IF failed THEN "Error"
                            ELSE IF jobs[j].kind = "apply" THEN "Applied" ELSE "Saved"
  <1> DEFINE calls == JobCalls[session][jobs[j].kind]
             next == NextCall(calls, k, failed)
             value == IF calls[next].op \in Range(General)
                      THEN general[calls[next].op] ELSE 0
             new == IF next <= Len(calls)
                    THEN [jobs[j] EXCEPT !.failed = failed, !.at = next,
                                         !.value = value]
                    ELSE [jobs[j] EXCEPT !.at = 0, !.failed = failed]
  <1>1. jobs[j] \in Tasks  BY ElementOfSeq DEF Inv, Types
  <1>2. jobs' = [jobs EXCEPT ![j] = new]
    <2>1. CASE next <= Len(calls)
      <3> DEFINE job == [jobs[j] EXCEPT !.failed = failed]
      <3>1. jobs' = [jobs EXCEPT ![j] = At(job, calls, next)]
        BY <2>1 DEF GoOn
      <3>2. At(job, calls, next) = [job EXCEPT !.at = next, !.value = value]
        BY DEF At
      <3> HIDE DEF value, next, calls
      <3>3. [job EXCEPT !.at = next, !.value = value] = new
        BY <1>1, <2>1 DEF Tasks
      <3>4. QED  BY <3>1, <3>2, <3>3
    <2>2. CASE ~ (next <= Len(calls))  BY <2>2 DEF GoOn
    <2>3. QED  BY <2>1, <2>2
  <1>3. ~ (next <= Len(calls)) =>
           status' = IF failed THEN "Error"
                     ELSE IF jobs[j].kind = "apply" THEN "Applied" ELSE "Saved"
    BY DEF GoOn
  <1> HIDE DEF calls, next, value
  <1>4. /\ new.kind = jobs[j].kind /\ new.clean = jobs[j].clean
        /\ new.failed = failed
        /\ new.at = IF next <= Len(calls) THEN next ELSE 0
    BY <1>1 DEF Tasks
  <1> HIDE DEF new
  <1>5. /\ DOMAIN jobs' = DOMAIN jobs /\ jobs'[j] = new
        /\ \A i \in DOMAIN jobs : i # j => jobs'[i] = jobs[i]
    BY <1>2
  <1>6. QED  BY <1>3, <1>4, <1>5 DEF calls, next

\* A step of a click, when the registers up to its call hold what it wrote.
LEMMA ProgressGoesOn ==
  ASSUME Inv, Values, Progress, FlashIsWhole,
         NEW j \in DOMAIN jobs, Busy(j), JobStep(j),
         NEW k \in 1 .. Len(JobCalls[session][jobs[j].kind]) + 1,
         NEW failed \in BOOLEAN, GoOn(j, k, failed),
         jobs[j].clean /\ ~failed =>
           \A l \in 1 .. k - 1 : JobCalls[session][jobs[j].kind][l].op = "register" =>
             Holds(regs', JobCalls[session][jobs[j].kind][l])
  PROVE  /\ Progress' /\ FlashIsWhole'
         /\ jobs[j].clean /\ jobs'[j].at = 0 /\ status' \in {"Applied", "Saved"} =>
              /\ ~failed /\ (status' = "Saved" => jobs[j].kind = "save")
              /\ NextCall(JobCalls[session][jobs[j].kind], k, failed)
                   = Len(JobCalls[session][jobs[j].kind]) + 1
              /\ ReadsBack(regs', panel)
  <1> DEFINE calls == JobCalls[session][jobs[j].kind]
             next == NextCall(calls, k, failed)
  <1>1. jobs[j] \in Tasks /\ jobs[j].kind \in {"apply", "save"} /\ Len(calls) \in Nat
    <2>1. jobs[j] \in Tasks  BY ElementOfSeq DEF Inv, Types
    <2>2. jobs[j].kind \in {"apply", "save"}  BY <2>1 DEF Tasks
    <2>3. QED  BY <2>1, <2>2, Calls DEF Inv, Types
  <1>2. /\ DOMAIN jobs' = DOMAIN jobs
        /\ \A i \in DOMAIN jobs : i # j => jobs'[i] = jobs[i]
        /\ jobs'[j].kind = jobs[j].kind /\ jobs'[j].clean = jobs[j].clean
        /\ jobs'[j].failed = failed
        /\ jobs'[j].at = IF next <= Len(calls) THEN next ELSE 0
        /\ ~ (next <= Len(calls)) =>
             status' = IF failed THEN "Error"
                       ELSE IF jobs[j].kind = "apply" THEN "Applied" ELSE "Saved"
    BY GoOnLeaves
  <1>3. UNCHANGED <<session, panel, loader>>  BY DEF JobStep, texts
  <1>4. /\ next \in k .. Len(calls) + 1
        /\ next <= Len(calls) => Made(calls[next], failed)
    <2> HIDE DEF calls
    <2>1. QED  BY <1>1, NextCallIs DEF calls
  <1>5. jobs[j].clean /\ ~failed =>
          \A l \in 1 .. next - 1 : calls[l].op = "register" => Holds(regs', calls[l])
    <2>1. SUFFICES ASSUME jobs[j].clean, ~failed, NEW l \in 1 .. next - 1,
                          calls[l].op = "register"
                   PROVE  Holds(regs', calls[l])
      OBVIOUS
    <2>2. CASE l < k
      <3>1. l \in 1 .. k - 1  BY <1>1, <2>2
      <3>2. QED  BY <2>1, <3>1
    <2>3. CASE ~ (l < k)
      <3> HIDE DEF next, calls
      <3>1. l \in k .. next - 1  BY <1>1, <1>4, <2>3 DEF calls
      <3>2. calls[l].op # "register"
        BY <1>1, <3>1, RegistersAreMade DEF next, calls
      <3>3. QED  BY <2>1, <3>2
    <2>4. QED  BY <2>2, <2>3
  <1> HIDE DEF next, calls
  <1>6. jobs[j].clean =>
          /\ loader.at = 0 /\ \A i \in DOMAIN jobs : i # j => jobs[i].at = 0
    BY DEF Progress, Busy
  <1>7. \A i \in DOMAIN jobs : i # j /\ jobs[i].clean => jobs[i].at = 0
    BY DEF Progress, Busy
  <1>8. Progress'
    <2> DEFINE Behind(i) ==
                 \A l \in 1 .. jobs[i].at - 1 :
                   JobCalls[session][jobs[i].kind][l].op = "register" =>
                     Holds(regs, JobCalls[session][jobs[i].kind][l])
    <2>1. SUFFICES ASSUME NEW i \in DOMAIN jobs, jobs'[i].clean, jobs'[i].at # 0
                   PROVE  /\ loader.at = 0
                          /\ \A m \in DOMAIN jobs : m # i => jobs'[m].at = 0
                          /\ jobs'[i].failed \/ Behind(i)'
      BY <1>2, <1>3 DEF Progress, Busy
    <2>2. i = j  BY <1>2, <1>7, <2>1
    <2>3. jobs[j].clean /\ jobs'[j].at = next  BY <1>2, <2>1, <2>2
    <2>4. \A m \in DOMAIN jobs : m # i => jobs'[m].at = 0  BY <1>2, <1>6, <2>2, <2>3
    <2>5. JobCalls[session][jobs'[i].kind] = calls  BY <1>2, <2>2 DEF calls
    <2>6. jobs'[i].failed = failed  BY <1>2, <2>2
    <2>7. ~failed => \A l \in 1 .. next - 1 :
                       calls[l].op = "register" => Holds(regs', calls[l])
      BY <1>5, <2>3
    <2>8. ~failed => Behind(i)'
      BY Zenon, <1>3, <2>2, <2>3, <2>5, <2>7 DEF Holds
    <2>9. QED  BY <1>6, <2>2, <2>3, <2>4, <2>6, <2>8
  <1>9. FlashIsWhole'
    <2>1. SUFFICES ASSUME NEW i \in DOMAIN jobs, jobs'[i].at # 0,
                          JobCalls[session][jobs'[i].kind][jobs'[i].at].op = "flash"
                   PROVE  ~jobs'[i].failed
      BY <1>2, <1>3 DEF FlashIsWhole, Busy, CallOf
    <2>2. CASE i = j
      <3>1. jobs'[j].at = next /\ next <= Len(calls)  BY <1>2, <2>1, <2>2
      <3>2. calls[next].op = "flash"  BY <1>2, <2>1, <2>2, <3>1 DEF calls
      <3>3. ~failed  BY <1>4, <3>1, <3>2 DEF Made
      <3>4. QED  BY <1>2, <2>2, <3>3
    <2>3. CASE i # j
      <3>1. jobs'[i] = jobs[i]  BY <1>2, <2>3
      <3>2. QED  BY <2>1, <3>1 DEF FlashIsWhole, Busy, CallOf
    <2>4. QED  BY <2>2, <2>3
  <1>10. ASSUME jobs[j].clean, jobs'[j].at = 0, status' \in {"Applied", "Saved"}
         PROVE  /\ ~failed /\ (status' = "Saved" => jobs[j].kind = "save")
                /\ next = Len(calls) + 1 /\ ReadsBack(regs', panel)
    <2>1. ~ (next <= Len(calls))
      <3>1. next # 0
        <4>1. k \in Nat /\ k >= 1 /\ next >= k  BY <1>1, <1>4 DEF calls
        <4>2. next \in Int  BY <1>1, <1>4 DEF calls
        <4>3. QED  BY <4>1, <4>2
      <3>2. QED  BY <1>2, <1>10, <3>1
    <2>2. next = Len(calls) + 1
      <3>1. k \in Int  BY <1>1 DEF calls
      <3>2. QED  BY <1>1, <1>4, <2>1, <3>1
    <2>3. ~failed /\ (status' = "Saved" => jobs[j].kind = "save")
      BY <1>1, <1>2, <1>10, <2>1
    <2>4. next - 1 = Len(calls)  BY <1>1, <2>2
    <2>5. \A l \in 1 .. Len(calls) : calls[l].op = "register" => Holds(regs', calls[l])
      BY <1>5, <1>10, <2>3, <2>4
    <2>6. ReadsBack(regs', panel)
      <3>1. PICK r : r = regs'  OBVIOUS
      <3>2. \A l \in 1 .. Len(calls) : calls[l].op = "register" => Holds(r, calls[l])
        BY <2>5, <3>1
      <3>3. ReadsBack(r, panel)  BY <1>1, <3>2, AllReadsBack DEF calls
      <3>4. QED  BY <3>1, <3>3
    <2>7. QED  BY <2>2, <2>3, <2>6
  <1>11. QED  BY <1>8, <1>9, <1>10 DEF next, calls

\* What a step of click j leaves, and what it has done when it ends.
Goes(j) ==
  /\ Progress' /\ FlashIsWhole'
  /\ jobs[j].clean /\ jobs'[j].at = 0 =>
       /\ status' = "Applied" => ReadsBack(regs', panel)
       /\ status' = "Saved" => ReadsBack(flash'.regs, panel)

\* The flash is the last call of a save, so a save that goes on from an earlier
\* call without a failure is not at its end.
LEMMA SaveEndsWithFlash ==
  ASSUME Inv, NEW j \in DOMAIN jobs, Busy(j), CallOf(j).op # "flash",
         jobs[j].kind = "save"
  PROVE  NextCall(JobCalls[session][jobs[j].kind], jobs[j].at + 1, FALSE)
           # Len(JobCalls[session][jobs[j].kind]) + 1
  <1> DEFINE calls == JobCalls[session][jobs[j].kind]
             next == NextCall(calls, jobs[j].at + 1, FALSE)
  <1>1. session \in Sessions  BY DEF Inv, Types
  <1>2. Len(calls) \in Nat /\ jobs[j].at \in 1 .. Len(calls)  BY BusyAt
  <1>3. calls[Len(calls)].op = "flash"  BY <1>1, ClickCallsAre
  <1>4. jobs[j].at # Len(calls)  BY <1>3 DEF CallOf
  <1>5. Made(calls[Len(calls)], FALSE)
    <2>1. "flash" \notin Range(General)  BY DEF General, Range
    <2>2. QED  BY <1>3, <2>1 DEF Made
  <1> HIDE DEF calls
  <1>6. /\ jobs[j].at + 1 \in 1 .. Len(calls) + 1
        /\ Len(calls) \in jobs[j].at + 1 .. Len(calls)
    BY <1>2, <1>4
  <1>7. next <= Len(calls) /\ next \in jobs[j].at + 1 .. Len(calls) + 1
    BY <1>2, <1>5, <1>6, NextCallIs
  <1> HIDE DEF next
  <1>8. next # Len(calls) + 1  BY <1>2, <1>7
  <1>9. QED  BY <1>8 DEF next, calls

\* What is behind a click whose call has just returned.
LEMMA BehindIs ==
  ASSUME Inv, Progress, NEW j \in DOMAIN jobs, Busy(j), jobs[j].clean, ~jobs[j].failed,
         NEW l \in 1 .. jobs[j].at,
         JobCalls[session][jobs[j].kind][l].op = "register"
  PROVE  l = jobs[j].at \/ Holds(regs, JobCalls[session][jobs[j].kind][l])
  <1>1. jobs[j].at \in Nat
    <2>1. jobs[j] \in Tasks  BY ElementOfSeq DEF Inv, Types
    <2>2. QED  BY <2>1 DEF Tasks
  <1>2. l = jobs[j].at \/ l \in 1 .. jobs[j].at - 1  BY <1>1
  <1>3. QED  BY <1>2 DEF Progress

\* The three kinds of call of a click.
LEMMA WriteGeneralGoes ==
  ASSUME Inv, Values, Progress, FlashIsWhole,
         NEW j \in DOMAIN jobs, NEW done \in BOOLEAN, WriteGeneral(j, done)
  PROVE  Goes(j)
  <1> DEFINE calls == JobCalls[session][jobs[j].kind]
             k == jobs[j].at + 1
  <1>1. /\ JobStep(j) /\ Busy(j) /\ CallOf(j).op \in Range(General)
        /\ GoOn(j, k, jobs[j].failed) /\ regs' = regs
    BY DEF WriteGeneral, JobStep
  <1>2. k \in 1 .. Len(calls) + 1 /\ jobs[j].failed \in BOOLEAN
        /\ jobs[j].at \in 1 .. Len(calls) /\ Len(calls) \in Nat
    BY <1>1, BusyAt
  <1>3. CallOf(j).op \notin {"register", "flash"} /\ CallOf(j) = calls[jobs[j].at]
    BY <1>1 DEF CallOf, General, Range
  <1>4. jobs[j].clean /\ ~jobs[j].failed =>
          \A l \in 1 .. k - 1 : calls[l].op = "register" => Holds(regs, calls[l])
    <2>1. k - 1 = jobs[j].at  BY <1>2
    <2>2. QED  BY <1>1, <1>3, <2>1, BehindIs
  <1>5. /\ Progress' /\ FlashIsWhole'
        /\ jobs[j].clean /\ jobs'[j].at = 0 /\ status' \in {"Applied", "Saved"} =>
              /\ ~jobs[j].failed /\ (status' = "Saved" => jobs[j].kind = "save")
              /\ NextCall(calls, k, jobs[j].failed) = Len(calls) + 1
              /\ ReadsBack(regs', panel)
    <2> HIDE DEF k
    <2>1. QED  BY <1>1, <1>2, <1>4, ProgressGoesOn
  <1>6. jobs[j].clean /\ jobs'[j].at = 0 => status' # "Saved"
    <2>1. SUFFICES ASSUME jobs[j].clean, jobs'[j].at = 0, status' = "Saved" PROVE FALSE
      OBVIOUS
    <2>2. jobs[j].failed = FALSE /\ jobs[j].kind = "save"
          /\ NextCall(calls, k, jobs[j].failed) = Len(calls) + 1
      BY <1>2, <1>5, <2>1
    <2>3. NextCall(calls, k, FALSE) # Len(calls) + 1
      BY <1>1, <1>3, <2>2, SaveEndsWithFlash
    <2> HIDE DEF calls, k
    <2>4. QED  BY <2>2, <2>3
  <1>7. QED  BY <1>5, <1>6 DEF Goes

LEMMA WritePanelGoes ==
  ASSUME Inv, Values, Progress, FlashIsWhole, NEW j \in DOMAIN jobs,
         NEW done \in BOOLEAN, NEW answered \in BOOLEAN, WritePanel(j, done, answered)
  PROVE  Goes(j)
  <1> DEFINE calls == JobCalls[session][jobs[j].kind]
             call == CallOf(j)
             w == Writes[session][call.field]
             text == IF w.name = "sync" THEN NoNumber ELSE panel[call.port][w.name]
             new == [regs EXCEPT ![call.port] =
                       WriteRegister(@, w.at[call.byte], Written(w, text)[call.byte])]
             k == IF answered THEN jobs[j].at + 1 ELSE AfterSection(calls, jobs[j].at)
             failed == IF answered THEN jobs[j].failed ELSE TRUE
  <1>1. /\ JobStep(j) /\ Busy(j) /\ call.op = "register" /\ (answered => done)
        /\ regs' = IF done THEN new ELSE regs
        /\ GoOn(j, k, failed)
    BY DEF WritePanel, JobStep
  <1>2. /\ jobs[j].at + 1 \in 1 .. Len(calls) + 1
        /\ AfterSection(calls, jobs[j].at) \in 1 .. Len(calls) + 1
        /\ jobs[j].failed \in BOOLEAN
        /\ jobs[j].at \in 1 .. Len(calls) /\ Len(calls) \in Nat
    BY <1>1, BusyAt
  <1>3. k \in 1 .. Len(calls) + 1 /\ failed \in BOOLEAN  BY <1>2
  <1>4. call = calls[jobs[j].at] /\ jobs[j].kind \in {"apply", "save"}
    <2>1. jobs[j] \in Tasks  BY ElementOfSeq DEF Inv, Types
    <2>2. QED  BY <2>1 DEF CallOf, Tasks
  <1>5. ASSUME jobs[j].clean, ~failed, NEW l \in 1 .. k - 1, calls[l].op = "register"
        PROVE  Holds(regs', calls[l])
    <2>1. answered /\ ~jobs[j].failed /\ k = jobs[j].at + 1  BY <1>5
    <2>2. l \in 1 .. jobs[j].at  BY <1>2, <2>1
    <2>3. l = jobs[j].at \/ Holds(regs, calls[l])
      BY <1>1, <1>5, <2>1, <2>2, BehindIs
    <2>4. l \in 1 .. Len(calls) /\ l <= jobs[j].at  BY <1>2, <2>2
    <2>5. Holds(new, calls[l])
      <3> HIDE DEF k, failed
      <3> DEFINE m == jobs[j].at
                 kind == jobs[j].kind
                 made == JobCalls[session][kind]
      <3>1. made[m].op = "register" /\ made[l].op = "register"
        BY Zenon, <1>1, <1>4, <1>5
      <3>2. /\ m \in 1 .. Len(made) /\ l \in 1 .. Len(made) /\ l <= m
            /\ kind \in {"apply", "save"}
        BY <1>2, <1>4, <2>4
      <3>3. l # m => Holds(regs, made[l])  BY <2>3
      <3> HIDE DEF m, kind
      <3>4. LET c == JobCalls[session][kind][m]
                x == Writes[session][c.field]
                t == IF x.name = "sync" THEN NoNumber ELSE panel[c.port][x.name]
            IN  Holds([regs EXCEPT ![c.port] =
                         WriteRegister(@, x.at[c.byte], Written(x, t)[c.byte])],
                      JobCalls[session][kind][l])
        BY Zenon, <3>1, <3>2, <3>3, LaterCallsKeep
      <3>5. call = JobCalls[session][kind][m]  BY <1>4 DEF m, kind
      <3> HIDE DEF call
      <3>6. QED  BY Zenon, <3>4, <3>5 DEF kind
    <2> HIDE DEF new
    <2>6. regs' = new  BY <1>1, <2>1
    <2>7. PICK r : r = new  OBVIOUS
    <2>8. QED  BY <2>5, <2>6, <2>7
  <1> HIDE DEF k, failed, new
  <1>6. /\ Progress' /\ FlashIsWhole'
        /\ jobs[j].clean /\ jobs'[j].at = 0 /\ status' \in {"Applied", "Saved"} =>
              /\ ~failed /\ (status' = "Saved" => jobs[j].kind = "save")
              /\ NextCall(calls, k, failed) = Len(calls) + 1
              /\ ReadsBack(regs', panel)
    BY <1>1, <1>3, <1>5, ProgressGoesOn
  <1>7. jobs[j].clean /\ jobs'[j].at = 0 => status' # "Saved"
    <2>1. SUFFICES ASSUME jobs[j].clean, jobs'[j].at = 0, status' = "Saved" PROVE FALSE
      OBVIOUS
    <2>2. failed = FALSE /\ jobs[j].kind = "save"
          /\ NextCall(calls, k, failed) = Len(calls) + 1
      BY <1>3, <1>6, <2>1
    <2>3. k = jobs[j].at + 1  BY <2>2 DEF k, failed
    <2>4. CallOf(j).op # "flash"  BY <1>1
    <2>5. NextCall(calls, k, FALSE) # Len(calls) + 1
      BY <1>1, <2>2, <2>3, <2>4, SaveEndsWithFlash
    <2> HIDE DEF calls
    <2>6. QED  BY <2>2, <2>5
  <1>8. QED  BY <1>6, <1>7 DEF Goes

LEMMA FlashGoes ==
  ASSUME Inv, Values, Progress, FlashIsWhole, NEW j \in DOMAIN jobs,
         NEW done \in BOOLEAN, NEW answered \in BOOLEAN,
         FlashSettings(j, done, answered)
  PROVE  Goes(j)
  <1> DEFINE calls == JobCalls[session][jobs[j].kind]
             k == jobs[j].at + 1
             failed == ~answered
  <1>1. /\ JobStep(j) /\ Busy(j) /\ CallOf(j).op = "flash" /\ (answered => done)
        /\ flash' = IF done THEN [regs |-> regs, config |-> config] ELSE flash
        /\ GoOn(j, k, failed) /\ regs' = regs
    BY DEF FlashSettings, JobStep
  <1>2. k \in 1 .. Len(calls) + 1 /\ failed \in BOOLEAN
        /\ jobs[j].at \in 1 .. Len(calls) /\ Len(calls) \in Nat
    BY <1>1, BusyAt
  <1>3. ~jobs[j].failed  BY <1>1 DEF FlashIsWhole
  <1>4. CallOf(j) = calls[jobs[j].at]  BY DEF CallOf
  <1>5. jobs[j].clean /\ ~failed =>
          \A l \in 1 .. k - 1 : calls[l].op = "register" => Holds(regs, calls[l])
    <2>1. k - 1 = jobs[j].at  BY <1>2
    <2>2. QED  BY <1>1, <1>3, <1>4, <2>1, BehindIs
  <1> HIDE DEF k, failed
  <1>6. /\ Progress' /\ FlashIsWhole'
        /\ jobs[j].clean /\ jobs'[j].at = 0 /\ status' \in {"Applied", "Saved"} =>
              /\ ~failed /\ (status' = "Saved" => jobs[j].kind = "save")
              /\ NextCall(calls, k, failed) = Len(calls) + 1
              /\ ReadsBack(regs', panel)
    BY <1>1, <1>2, <1>5, ProgressGoesOn
  <1>7. ~failed => flash'.regs = regs'  BY <1>1 DEF failed
  <1>8. QED
    <2>1. jobs[j].clean /\ jobs'[j].at = 0 /\ status' \in {"Applied", "Saved"} =>
            flash'.regs = regs' /\ ReadsBack(regs', panel)
      BY <1>6, <1>7
    <2>2. PICK r : r = regs'  OBVIOUS
    <2>3. QED  BY <1>6, <2>1, <2>2 DEF Goes

\* A click starts before any register, with nothing failed.
LEMMA ClickProgress ==
  ASSUME Inv, FlashIsWhole, NEW kind \in {"apply", "save"}, Click(kind)
  PROVE  Progress' /\ FlashIsWhole'
  <1> DEFINE calls == JobCalls[session][kind]
             job == [kind |-> kind, at |-> 0, value |-> 0, failed |-> FALSE,
                     clean |-> NoTask]
             next == NextCall(calls, 1, FALSE)
             value == IF calls[next].op \in Range(General)
                      THEN general[calls[next].op] ELSE 0
             new == At(job, calls, next)
             n == Len(jobs)
  <1>1. /\ session' = session /\ jobs' = Append(Dirty(jobs), new)
        /\ loader' = [loader EXCEPT !.clean = FALSE]
    BY Zenon DEF Click
  <1>2. /\ new.kind = kind /\ new.failed = FALSE /\ new.clean = NoTask
        /\ new.at = next
    <2> HIDE DEF calls, next
    <2>1. QED  BY DEF At
  <1>3. loader'.at = loader.at  BY <1>1 DEF Inv, Types
  <1>4. \A l \in 1 .. next - 1 : calls[l].op # "register"
    <2>1. Len(calls) \in Nat  BY Calls DEF Inv, Types
    <2> HIDE DEF calls
    <2>2. 1 \in 1 .. Len(calls) + 1  BY <2>1
    <2>3. QED  BY <2>1, <2>2, RegistersAreMade
  <1> HIDE DEF new, next
  <1>5. PICK dirty : dirty = Dirty(jobs)  OBVIOUS
  <1>6. /\ dirty \in Seq(Tasks) /\ DOMAIN dirty = DOMAIN jobs /\ Len(dirty) = n
        /\ DOMAIN jobs = 1 .. n /\ n \in Nat
    BY <1>5, DirtyIs, LenProperties DEF Inv, Types
  <1>7. \A j \in DOMAIN jobs :
          /\ dirty[j].clean = FALSE /\ dirty[j].kind = jobs[j].kind
          /\ dirty[j].at = jobs[j].at /\ dirty[j].failed = jobs[j].failed
    <2>1. \A j \in DOMAIN jobs : jobs[j] \in Tasks
      BY LenProperties, ElementOfSeq DEF Inv, Types
    <2>2. dirty = [j \in DOMAIN jobs |-> [jobs[j] EXCEPT !.clean = FALSE]]
      BY <1>5 DEF Dirty
    <2>3. \A j \in DOMAIN jobs : dirty[j] = [jobs[j] EXCEPT !.clean = FALSE]
      BY <2>2
    <2>4. QED  BY <2>1, <2>3 DEF Tasks
  <1>8. /\ DOMAIN jobs' = 1 .. n + 1 /\ jobs'[n + 1] = new
        /\ \A j \in DOMAIN jobs : jobs'[j] = dirty[j]
    <2> DEFINE all == Append(dirty, new)
    <2>1. /\ DOMAIN all = 1 .. n + 1 /\ all[n + 1] = new
          /\ \A j \in 1 .. n : all[j] = dirty[j]
      BY <1>6
    <2>2. jobs' = all  BY <1>1, <1>5
    <2> HIDE DEF all
    <2>3. QED  BY <1>6, <2>1, <2>2
  <1>9. \A j \in DOMAIN jobs' : j # n + 1 => j \in DOMAIN jobs
    BY <1>6, <1>8
  <1>10. Progress'
    <2>1. \A j \in DOMAIN jobs' : jobs'[j].clean => j = n + 1 /\ NoTask
      BY <1>2, <1>7, <1>8, <1>9
    <2>2. NoTask => /\ loader'.at = 0
                    /\ \A j \in DOMAIN jobs' : j # n + 1 => jobs'[j].at = 0
      BY <1>3, <1>7, <1>8, <1>9 DEF NoTask, Busy
    <2>3. \A l \in 1 .. jobs'[n + 1].at - 1 :
            JobCalls[session][jobs'[n + 1].kind][l].op # "register"
      BY <1>2, <1>4, <1>8
    <2> HIDE DEF calls
    <2>4. QED  BY <1>1, <2>1, <2>2, <2>3 DEF Progress, Busy
  <1>11. FlashIsWhole'
    <2>1. SUFFICES ASSUME NEW j \in DOMAIN jobs', jobs'[j].at # 0,
                          JobCalls[session][jobs'[j].kind][jobs'[j].at].op = "flash"
                   PROVE  ~jobs'[j].failed
      BY <1>1 DEF FlashIsWhole, Busy, CallOf
    <2>2. CASE j = n + 1  BY <1>2, <1>8, <2>2
    <2>3. CASE j # n + 1
      <3>1. /\ j \in DOMAIN jobs /\ jobs'[j].kind = jobs[j].kind
            /\ jobs'[j].at = jobs[j].at /\ jobs'[j].failed = jobs[j].failed
        BY <1>7, <1>8, <1>9, <2>3
      <3>2. QED  BY <2>1, <3>1 DEF FlashIsWhole, Busy, CallOf
    <2>4. QED  BY <2>2, <2>3
  <1>12. QED  BY <1>10, <1>11

\* Every step of a click goes on or ends as Goes says.
LEMMA JobGoes ==
  ASSUME Inv, Values, Progress, FlashIsWhole, NEW j \in DOMAIN jobs, Job(j)
  PROVE  Goes(j)
  <1>1. PICK done \in BOOLEAN, answered \in BOOLEAN :
               \/ WriteGeneral(j, done)
               \/ WritePanel(j, done, answered)
               \/ FlashSettings(j, done, answered)
    BY DEF Job
  <1>2. QED  BY <1>1, WriteGeneralGoes, WritePanelGoes, FlashGoes

\* No step but its own ends a click.
LEMMA OthersEnd ==
  ASSUME Inv, Progress, NEW j \in DOMAIN jobs, Busy(j), jobs[j].clean,
         jobs'[j].at = 0, [SettingsNext]_settingsVars
  PROVE  Job(j)
  <1>1. jobs[j].at # 0 /\ jobs' # jobs  BY DEF Busy
  <1>2. jobs' # Dirty(jobs)
    <2>1. jobs' = Dirty(jobs) => jobs'[j].at = jobs[j].at
      BY DirtyKeeps DEF Inv
    <2>2. QED  BY <1>1, <2>1
  <1>3. ASSUME NEW kind \in {"apply", "save"}, Click(kind) PROVE FALSE
    <2>1. PICK job : jobs' = Append(Dirty(jobs), job)  BY Zenon, <1>3 DEF Click
    <2>2. PICK dirty : dirty = Dirty(jobs)  OBVIOUS
    <2>3. /\ dirty = [i \in DOMAIN jobs |-> [jobs[i] EXCEPT !.clean = FALSE]]
          /\ dirty \in Seq(Tasks)
      BY <2>2, DirtyIs DEF Inv, Types, Dirty
    <2>4. dirty[j].at = jobs[j].at
      <3>1. jobs[j] \in Tasks  BY ElementOfSeq DEF Inv, Types
      <3>2. dirty[j] = [jobs[j] EXCEPT !.clean = FALSE]  BY <2>3
      <3>3. QED  BY <3>1, <3>2 DEF Tasks
    <2>5. j \in 1 .. Len(dirty)
      <3>1. DOMAIN dirty = DOMAIN jobs  BY <2>3
      <3>2. QED  BY <2>3, <3>1, LenProperties
    <2>6. Append(dirty, job)[j] = dirty[j]  BY <2>3, <2>5
    <2>7. QED  BY <1>1, <2>1, <2>2, <2>4, <2>6
  <1>4. ASSUME NEW i \in DOMAIN jobs, Job(i) PROVE i = j
    <2>1. Busy(i)
      BY Zenon, <1>4 DEF Job, WriteGeneral, WritePanel, FlashSettings, JobStep
    <2>2. QED  BY <2>1 DEF Progress
  <1>5. ~ (Toggle \/ Reload \/ Type \/ LoadDefaults \/ LosePower \/ Load)
    BY Zenon, <1>1, <1>2
    DEF Toggle, Reload, Type, Edit, EditGeneral, LoadDefaults, LosePower, Disturb,
        Load, LoadStarts, LoadGeneral, LoadRegister
  <1>6. ~ UNCHANGED settingsVars  BY <1>1 DEF settingsVars
  <1>7. QED  BY <1>3, <1>4, <1>5, <1>6 DEF SettingsNext

\* Both hold at the start and after every step.
LEMMA ProgressInit == SettingsInit => Progress /\ FlashIsWhole
  <1> SUFFICES ASSUME SettingsInit PROVE Progress /\ FlashIsWhole
    OBVIOUS
  <1>1. DOMAIN jobs = {}
    <2>1. jobs = << >>  BY Zenon DEF SettingsInit
    <2>2. QED  BY <2>1
  <1>2. QED  BY <1>1 DEF Progress, FlashIsWhole

LEMMA ProgressStep ==
  Inv /\ Values /\ Progress /\ FlashIsWhole /\ [SettingsNext]_settingsVars
    => Progress' /\ FlashIsWhole'
  <1> SUFFICES ASSUME Inv, Values, Progress, FlashIsWhole,
                      [SettingsNext]_settingsVars
               PROVE  Progress' /\ FlashIsWhole'
    OBVIOUS
  <1>1. ASSUME UNCHANGED <<session, regs, panel, loader, jobs>>
        PROVE  Progress' /\ FlashIsWhole'
    <2>1. Progress'
      <3>1. SUFFICES ASSUME NEW j \in DOMAIN jobs, jobs[j].clean, jobs[j].at # 0
                     PROVE  /\ loader.at = 0
                            /\ \A i \in DOMAIN jobs : i # j => jobs[i].at = 0
                            /\ \/ jobs[j].failed
                               \/ \A k \in 1 .. jobs[j].at - 1 :
                                    JobCalls[session][jobs[j].kind][k].op = "register" =>
                                      Holds(regs, JobCalls[session][jobs[j].kind][k])'
        BY <1>1 DEF Progress, Busy
      <3>2. /\ loader.at = 0
            /\ \A i \in DOMAIN jobs : i # j => jobs[i].at = 0
            /\ \/ jobs[j].failed
               \/ \A k \in 1 .. jobs[j].at - 1 :
                    JobCalls[session][jobs[j].kind][k].op = "register" =>
                      Holds(regs, JobCalls[session][jobs[j].kind][k])
        BY <3>1 DEF Progress, Busy
      <3>3. QED  BY Zenon, <1>1, <3>2 DEF Holds
    <2>2. FlashIsWhole'  BY <1>1 DEF FlashIsWhole, Busy, CallOf
    <2>3. QED  BY <2>1, <2>2
  <1>2. ASSUME jobs' = Dirty(jobs), session' = session
        PROVE  Progress' /\ FlashIsWhole'
    BY <1>2, DirtyProgress DEF Inv
  <1>3. CASE Toggle \/ Reload
    BY <1>1, <1>3 DEF Toggle, Reload, device, texts
  <1>4. CASE Type \/ LoadDefaults \/ LosePower \/ LoadStarts
    BY Zenon, <1>2, <1>4
    DEF Type, Edit, EditGeneral, LoadDefaults, LosePower, LoadStarts, Disturb
  <1>5. CASE \E answered \in BOOLEAN : LoadGeneral(answered) \/ LoadRegister(answered)
    <2>1. UNCHANGED <<session, jobs>>
      BY Zenon, <1>5 DEF LoadGeneral, LoadRegister
    <2>2. loader.at \in 1 .. 3 \/ loader.at > 3
      BY Zenon, <1>5 DEF LoadGeneral, LoadRegister
    <2>3. loader.at # 0  BY <2>2
    <2>4. \A j \in DOMAIN jobs : ~ (jobs[j].clean /\ Busy(j))
      BY <2>3 DEF Progress
    <2>5. QED  BY <2>1, <2>4 DEF Progress, FlashIsWhole, Busy, CallOf
  <1>6. CASE \E kind \in {"apply", "save"} : Click(kind)
    BY <1>6, ClickProgress
  <1>7. CASE \E j \in DOMAIN jobs : Job(j)
    BY <1>7, JobGoes DEF Goes
  <1>8. CASE UNCHANGED settingsVars
    BY <1>1, <1>8 DEF settingsVars, device, texts
  <1>9. QED
    BY <1>3, <1>4, <1>5, <1>6, <1>7, <1>8 DEF SettingsNext, Load

\* An Apply or Save that nothing disturbed and that says "Applied" or "Saved"
\* (1245, 1303) has brought every field of both sensors where a later load
\* reads it, and where it survives a loss of power if it was a Save.
THEOREM ClickIsDone == SettingsSpec => DoneIsDone
  <1>1. ASSUME Inv, Values, Progress, FlashIsWhole, [SettingsNext]_settingsVars,
               NEW j \in DOMAIN jobs, Busy(j), jobs[j].clean, jobs'[j].at = 0
        PROVE  /\ status' = "Applied" => ReadsBack(regs', panel)
               /\ status' = "Saved" => ReadsBack(flash'.regs, panel)
    <2>1. Goes(j)  BY <1>1, OthersEnd, JobGoes
    <2>2. QED  BY <1>1, <2>1 DEF Goes
  <1>2. Inv /\ Values /\ Progress /\ FlashIsWhole /\ [SettingsNext]_settingsVars =>
          [\A j \in DOMAIN jobs :
             Busy(j) /\ jobs[j].clean /\ jobs'[j].at = 0 =>
               /\ status' = "Applied" => ReadsBack(regs', panel)
               /\ status' = "Saved" => ReadsBack(flash'.regs, panel)]_settingsVars
    BY <1>1
  <1>3. QED
    BY <1>2, InvHolds, ValuesHold, ProgressInit, ProgressStep, PTL
       DEF SettingsSpec, DoneIsDone
=============================================================================
