-------------------------- MODULE RingBufferProofs --------------------------
(***************************************************************************)
(* Proofs about RingBuffer for every ring size, every width of size_t and  *)
(* every set of processes.  TypeOK and StoredFits are inductive together;  *)
(* that a read returns stored bytes and that the ring implements LogTail   *)
(* follow from them and from arithmetic modulo the size of the ring, whose *)
(* facts come first.                                                       *)
(***************************************************************************)
EXTENDS RingBuffer, SequenceTheorems, TLAPS

Inv == TypeOK /\ StoredFits

\* The smaller of two naturals is a natural no larger than either.
LEMMA Min2Nat ==
  ASSUME NEW a \in Nat, NEW b \in Nat
  PROVE  Min2(a, b) \in Nat /\ Min2(a, b) <= a /\ Min2(a, b) <= b
  BY DEF Min2

\* A difference that fits size_t is not changed by the cast of __ring_buffer_len.
LEMMA RingLenExact ==
  ASSUME NEW i \in Nat, NEW o \in Nat, o <= i, i - o < SizeT
  PROVE  RingLen(i, o) = i - o
  BY RingAssumption DEF RingLen

\* A read settles on a natural number of bytes whatever pos is.
LEMMA GetLenNat ==
  ASSUME TypeOK, NEW count \in Counts
  PROVE  GetLen(count) \in Nat
  <1>1. SizeT \in Nat \ {0} /\ count \in Nat
    BY RingAssumption
  <1>2. (pos - out) % SizeT \in Nat
    BY <1>1 DEF TypeOK
  <1>3. ring_buffer_len \in Nat
    BY <1>1 DEF TypeOK, ring_buffer_len, RingLen
  <1>4. (ring_buffer_len - ((pos - out) % SizeT)) % SizeT \in Nat
    BY <1>1, <1>2, <1>3
  <1> QED
    BY <1>1, <1>4 DEF GetLen, Min2

\* The copy of a write leaves a ring of bytes.
LEMMA PutType ==
  ASSUME TypeOK, NEW count \in Nat, NEW data \in [1 .. count -> Byte],
         NEW len \in Nat, len <= count
  PROVE  Put(data, len) \in [Index -> Byte]
  <1> SUFFICES ASSUME NEW j \in Index
               PROVE  Put(data, len)[j] \in Byte
    BY DEF Put
  <1> DEFINE i == (j - in) % Size
  <1>1. i \in Nat
    BY RingAssumption DEF TypeOK, Index
  <1>2. CASE i < len
    <2>1. i + 1 \in 1 .. count
      BY <1>1, <1>2
    <2> QED
      BY <1>2, <2>1 DEF Put
  <1>3. CASE ~(i < len)
    BY <1>3 DEF Put, TypeOK
  <1> QED
    BY <1>2, <1>3

\* The invariant holds for an empty ring.
LEMMA InitInv == Init => Inv
  BY RingAssumption DEF Init, Inv, TypeOK, StoredFits

\* Every operation keeps it.
LEMMA NextInv == Inv /\ [Next]_vars => Inv'
  <1> SUFFICES ASSUME Inv, [Next]_vars
               PROVE  Inv'
    OBVIOUS
  <1> USE DEF Inv
  <1>1. ASSUME NEW f \in Files, ring_buffer_open(f)
        PROVE  Inv'
    BY <1>1 DEF ring_buffer_open, TypeOK, StoredFits
  <1>2. ASSUME NEW f \in Files, ring_buffer_release(f)
        PROVE  Inv'
    BY <1>2 DEF ring_buffer_release, TypeOK, StoredFits
  <1>3. ASSUME NEW f \in Files, NEW count \in Counts, ring_buffer_read(f, count)
        PROVE  Inv'
    BY <1>3, GetLenNat DEF ring_buffer_read, TypeOK, StoredFits
  <1>4. ASSUME NEW f \in Files, NEW count \in Counts, NEW data \in [1 .. count -> Byte],
               ring_buffer_write(f, data, count)
        PROVE  Inv'
    <2> DEFINE len == Min2(count, Size)
    <2>1. count \in Nat /\ len \in Nat /\ len <= count /\ len <= Size
      BY RingAssumption, Min2Nat, Zenon
    <2>2. buffer' \in [Index -> Byte]
      BY <1>4, <2>1, PutType DEF ring_buffer_write
    <2>3. RingLen(in + len, out) = in + len - out
      BY <2>1, RingLenExact, RingAssumption DEF TypeOK, StoredFits
    <2>4. in' \in Nat /\ out' \in Nat /\ StoredFits'
      <3>1. in' = in + len
        BY <1>4 DEF ring_buffer_write
      <3>2. out' = IF in + len - out > Size THEN in + len - Size ELSE out
        BY <1>4, <2>3 DEF ring_buffer_write
      <3>3. Size \in Nat
        BY RingAssumption
      <3> HIDE DEF len
      <3> QED
        BY <2>1, <3>1, <3>2, <3>3 DEF TypeOK, StoredFits
    <2>5. f_pos' \in [Files -> Int] /\ pos' \in Int /\ pc' = pc
      BY <1>4, <2>1 DEF ring_buffer_write, TypeOK
    <2> QED
      BY <2>2, <2>4, <2>5 DEF TypeOK
  <1>5. ASSUME NEW f \in Files, NEW off \in Offsets, NEW whence \in {"SET", "CUR", "END"},
               llseek_move(f, off, whence)
        PROVE  Inv'
    <2>1. pos' \in Int
      BY <1>5, RingAssumption DEF llseek_move
    <2> QED
      BY <1>5, <2>1 DEF llseek_move, TypeOK, StoredFits
  <1>6. ASSUME NEW f \in Files, llseek_tell(f)
        PROVE  Inv'
    BY <1>6 DEF llseek_tell, TypeOK, StoredFits
  <1>7. CASE ring_buffer_proc_write
    BY <1>7, RingAssumption DEF ring_buffer_proc_write, TypeOK, StoredFits
  <1>8. CASE UNCHANGED vars
    BY <1>8 DEF vars, TypeOK, StoredFits
  <1> QED
    BY <1>1, <1>2, <1>3, <1>4, <1>5, <1>6, <1>7, <1>8 DEF Next, Read, Write, Seek

\* For every ring size the window between out and in fits the ring, whatever the
\* processes open, read, write, seek or clear.
THEOREM WindowFits == Spec => [](TypeOK /\ StoredFits)
  BY InitInv, NextInv, PTL DEF Spec, Inv
-----------------------------------------------------------------------------
\* Quotient and remainder.
LEMMA DivMod ==
  ASSUME NEW x \in Int
  PROVE  /\ x = Size * (x \div Size) + (x % Size)
         /\ x % Size \in Index /\ x \div Size \in Int
  BY RingAssumption DEF Index

\* How a multiple of Size compares with Size.
LEMMA Multiple ==
  ASSUME NEW q \in Int
  PROVE  (q >= 1 => Size * q >= Size) /\ (q <= -1 => Size * q <= -Size)
  BY RingAssumption

\* The difference of two multiples of Size.
LEMMA Distributes ==
  ASSUME NEW q \in Int, NEW p \in Int
  PROVE  Size * (q - p) = Size * q - Size * p
  BY RingAssumption

\* A number that is k in 0 .. Size - 1 plus a multiple of Size has the remainder k.
LEMMA ModIs ==
  ASSUME NEW x \in Int, NEW q \in Int, NEW k \in Index, x = Size * q + k
  PROVE  x % Size = k
<1>. DEFINE p == x \div Size
            d == q - p
<1>0. Size \in Nat
  BY RingAssumption
<1>1. x = Size * p + (x % Size) /\ x % Size \in 0 .. Size - 1 /\ p \in Int
  BY DivMod DEF Index
<1>2. Size * d = (x % Size) - k /\ d \in Int
  BY <1>0, <1>1, Distributes DEF Index
<1>3. d = 0
  BY <1>0, <1>1, <1>2, Multiple DEF Index
<1>. QED BY <1>0, <1>1, <1>3 DEF Index

\* Where a position a of the log lies, counted from position b around the ring.
LEMMA Around ==
  ASSUME NEW a \in Int, NEW b \in Int, NEW k \in Index, a - b = k \/ a - b = k - Size
  PROVE  ((a % Size) - b) % Size = k
<1>. DEFINE q == a \div Size
<1>0. Size \in Nat
  BY RingAssumption
<1>1. a = Size * q + (a % Size) /\ a % Size \in Int /\ q \in Int
  BY DivMod DEF Index
<1>2. Size * (0 - q) = 0 - Size * q /\ Size * (-1 - q) = -Size - Size * q
  BY <1>0, <1>1
<1>3. CASE a - b = k
  <2>1. (a % Size) - b = Size * (0 - q) + k
    BY <1>0, <1>1, <1>2, <1>3 DEF Index
  <2>. QED BY <1>1, <2>1, ModIs
<1>4. CASE a - b = k - Size
  <2>1. (a % Size) - b = Size * (-1 - q) + k
    BY <1>0, <1>1, <1>2, <1>4 DEF Index
  <2>. QED BY <1>1, <2>1, ModIs
<1>. QED BY <1>3, <1>4

\* The slot of the position i after a, in terms of the slot of a.
LEMMA SlotAfter ==
  ASSUME NEW a \in Int, NEW i \in Nat, i < Size
  PROVE  (a + i) % Size = IF (a % Size) + i < Size THEN (a % Size) + i
                          ELSE (a % Size) + i - Size
<1>. DEFINE q == a \div Size
<1>0. Size \in Nat
  BY RingAssumption
<1>1. a = Size * q + (a % Size) /\ a % Size \in 0 .. Size - 1 /\ q \in Int
  BY DivMod DEF Index
<1>2. CASE (a % Size) + i < Size
  <2>1. a + i = Size * q + ((a % Size) + i) /\ (a % Size) + i \in Index
    BY <1>0, <1>1, <1>2 DEF Index
  <2>2. (a + i) % Size = (a % Size) + i
    BY <1>1, <2>1, ModIs
  <2>. QED BY <1>2, <2>2
<1>3. CASE (a % Size) + i >= Size
  <2>1. Size * (q + 1) = Size * q + Size
    BY <1>0, <1>1
  <2>2. /\ a + i = Size * (q + 1) + ((a % Size) + i - Size)
        /\ (a % Size) + i - Size \in Index
    BY <1>0, <1>1, <1>3, <2>1 DEF Index
  <2>3. (a + i) % Size = (a % Size) + i - Size
    BY <1>1, <2>2, ModIs
  <2>4. ~((a % Size) + i < Size)
    BY <1>0, <1>1, <1>3
  <2>. QED BY <2>3, <2>4
<1>. QED BY <1>0, <1>1, <1>2, <1>3

-----------------------------------------------------------------------------
\* The bytes between two positions of a ring are a sequence ...
LEMMA WindowSeq ==
  ASSUME NEW b \in [Index -> Byte], NEW i \in Nat, NEW o \in Nat, o <= i,
         NEW s, s = [k \in 1 .. i - o |-> b[(o + k - 1) % Size]]
  PROVE  /\ s \in Seq(Byte) /\ Len(s) = i - o
         /\ \A k \in 1 .. i - o : s[k] = b[(o + k - 1) % Size]
<1>1. ASSUME NEW k \in 1 .. i - o PROVE b[(o + k - 1) % Size] \in Byte
  <2>1. (o + k - 1) % Size \in Index
    BY DivMod, o + k - 1 \in Int
  <2>. QED BY <2>1
<1>. QED BY <1>1, i - o \in Nat

\* ... and so are the stored bytes.
LEMMA StoredSeq ==
  ASSUME Inv
  PROVE  /\ StoredTail \in Seq(Byte) /\ Len(StoredTail) = in - out
         /\ \A i \in 1 .. in - out : StoredTail[i] = buffer[(out + i - 1) % Size]
<1>1. buffer \in [Index -> Byte] /\ in \in Nat /\ out \in Nat /\ out <= in
  BY DEF Inv, TypeOK, StoredFits
<1>. QED BY <1>1, WindowSeq, Zenon DEF StoredTail

\* Inside the window the casts of __ring_buffer_get lose nothing.
LEMMA GetLenIs ==
  ASSUME Inv, pos \in out .. in, NEW count \in Counts
  PROVE  /\ GetLen(count) = Min2(count, in - pos)
         /\ GetLen(count) \in 0 .. in - pos
<1>1. /\ in \in Nat /\ out \in Nat /\ pos \in Nat /\ out <= pos /\ pos <= in
      /\ in - out <= Size /\ Size \in Nat /\ SizeT \in Nat /\ Size < SizeT
      /\ count \in Nat
  BY RingAssumption DEF Inv, TypeOK, StoredFits
<1>2. RingLen(in, out) = in - out /\ RingLen(pos, out) = pos - out /\ RingLen(in, pos) = in - pos
  BY <1>1, RingLenExact
<1>3. ring_buffer_len = in - out /\ (pos - out) % SizeT = pos - out
  BY <1>2 DEF ring_buffer_len, RingLen
<1>4. ring_buffer_len - ((pos - out) % SizeT) = in - pos
  BY <1>1, <1>3
<1>5. (in - pos) % SizeT = in - pos
  BY <1>2 DEF RingLen
<1>6. GetLen(count) = Min2(count, in - pos)
  BY <1>4, <1>5 DEF GetLen
<1>. QED BY <1>1, <1>6 DEF Min2

\* There a read copies the bytes of the positions from pos on.
LEMMA GetSlots ==
  ASSUME Inv, pos \in out .. in, NEW count \in Counts, NEW i \in 1 .. GetLen(count)
  PROVE  Get(count)[i] = buffer[(pos + i - 1) % Size]
<1>. DEFINE len == GetLen(count)
            p == pos % Size
            l == Min2(len, Size - p)
            At(k) == IF k \in Index THEN buffer[k] ELSE Outside
<1>1. len \in Nat /\ len <= Size /\ Size \in Nat /\ pos \in Int
  BY GetLenIs, RingAssumption DEF Inv, TypeOK, StoredFits
<1>2. p \in 0 .. Size - 1
  BY <1>1, DivMod DEF Index
<1>3. Get(count)[i] = IF i <= l THEN At(p + i - 1) ELSE At(i - l - 1)
  BY DEF Get
<1>4. i \in Int /\ i >= 1 /\ i <= len /\ i - 1 \in Nat /\ i - 1 < Size
  BY <1>1
<1>5. (pos + (i - 1)) % Size = IF p + (i - 1) < Size THEN p + (i - 1) ELSE p + (i - 1) - Size
  BY <1>1, <1>4, SlotAfter, Zenon
<1>. HIDE DEF len, p
<1>6. CASE i <= l
  <2>1. p + i - 1 < Size /\ p + i - 1 \in Index
    BY <1>1, <1>2, <1>4, <1>6 DEF Min2, Index
  <2>2. (pos + i - 1) % Size = p + i - 1
    BY <1>1, <1>2, <1>4, <1>5, <2>1
  <2>. QED BY <1>3, <1>6, <2>1, <2>2
<1>7. CASE ~(i <= l)
  <2>1. l = Size - p /\ p + (i - 1) >= Size
    BY <1>1, <1>2, <1>4, <1>7 DEF Min2
  <2>2. i - l - 1 = p + (i - 1) - Size /\ i - l - 1 \in Index
    BY <1>1, <1>2, <1>4, <2>1 DEF Index
  <2>3. (pos + i - 1) % Size = i - l - 1
    BY <1>1, <1>2, <1>4, <1>5, <2>1, <2>2
  <2>. QED BY <1>3, <1>7, <2>2, <2>3
<1>. QED BY <1>6, <1>7

\* A read in the window returns the next stored bytes.
LEMMA TailRead == ASSUME Inv PROVE ReadsTheTail
<1>. SUFFICES ASSUME pos \in out .. in, NEW count \in Counts
              PROVE  Get(count) = SubSeq(StoredTail, pos - out + 1,
                                         pos - out + Min2(count, in - pos))
  BY DEF ReadsTheTail
<1>. DEFINE m == pos - out
            len == GetLen(count)
            s == SubSeq(StoredTail, m + 1, m + len)
<1>1. len = Min2(count, in - pos) /\ len \in Nat /\ len <= in - pos
  BY GetLenIs DEF Inv, TypeOK
<1>2. m \in Nat /\ m + len <= in - out /\ out \in Nat /\ pos \in Nat /\ in \in Nat
  BY <1>1 DEF Inv, TypeOK
<1>. HIDE DEF m, len
<1>3. \A i \in m + 1 .. m + len : StoredTail[i] \in Byte
  <2>1. \A i \in m + 1 .. m + len : i \in 1 .. Len(StoredTail)
    BY <1>1, <1>2, StoredSeq
  <2>. QED BY <2>1, StoredSeq, ElementOfSeq
<1>4. /\ s \in Seq(Byte) /\ Len(s) = len
      /\ \A i \in 1 .. len : s[i] = StoredTail[m + i]
  <2>1. /\ s \in Seq(Byte) /\ Len(s) = IF m + 1 <= m + len THEN m + len - (m + 1) + 1 ELSE 0
        /\ \A i \in 1 .. m + len - (m + 1) + 1 : s[i] = StoredTail[m + 1 + i - 1]
    BY <1>1, <1>2, <1>3, SubSeqProperties, m + 1 \in Int, m + len \in Int
  <2>2. Len(s) = len /\ m + len - (m + 1) + 1 = len
    BY <1>1, <1>2, <2>1
  <2>3. \A i \in 1 .. len : m + 1 + i - 1 = m + i
    BY <1>1, <1>2
  <2>. QED BY <2>1, <2>2, <2>3
<1>5. ASSUME NEW i \in 1 .. len PROVE Get(count)[i] = s[i]
  <2>1. Get(count)[i] = buffer[(pos + i - 1) % Size]
    BY GetSlots DEF len
  <2>2. m + i \in 1 .. in - out /\ out + (m + i) - 1 = pos + i - 1
    BY <1>1, <1>2 DEF m
  <2>3. StoredTail[m + i] = buffer[(pos + i - 1) % Size]
    BY <2>2, StoredSeq
  <2>. QED BY <1>4, <2>1, <2>3
<1>6. Get(count) = [i \in 1 .. len |-> Get(count)[i]]
  BY DEF Get, len
<1>7. s = [i \in 1 .. len |-> s[i]]
  BY <1>4, LenProperties
<1>8. Get(count) = s
  BY <1>5, <1>6, <1>7, Zenon
<1>. QED BY <1>1, <1>8 DEF m

\* For every ring size, a read that starts between out and in returns exactly the bytes
\* that were written there, however the window wraps and whatever the casts.
THEOREM TailIsRead == Spec => []ReadsTheTail
<1>1. Spec => []Inv
  BY InitInv, NextInv, PTL DEF Spec
<1>2. Inv => ReadsTheTail
  BY TailRead
<1>. QED BY <1>1, <1>2, PTL

-----------------------------------------------------------------------------
\* What __ring_buffer_put leaves at a position a of the log, at most Size before the
\* new end: the new byte if it was just written, and otherwise what was there.
LEMMA PutSlots ==
  ASSUME Inv, NEW len \in Nat, len <= Size, NEW data, NEW a \in Int,
         in + len - Size <= a, a < in + len
  PROVE  Put(data, len)[a % Size] = IF a >= in THEN data[a - in + 1] ELSE buffer[a % Size]
<1>. DEFINE j == a % Size
            k == IF a >= in THEN a - in ELSE a - in + Size
<1>1. in \in Int /\ Size \in Nat
  BY RingAssumption DEF Inv, TypeOK
<1>2. k \in Index /\ (a - in = k \/ a - in = k - Size) /\ (k < len <=> a >= in)
  BY <1>1 DEF Index
<1>3. (j - in) % Size = k
  BY <1>1, <1>2, Around, Zenon
<1>4. j \in Index
  BY DivMod
<1>5. Put(data, len)[j] = IF k < len THEN data[k + 1] ELSE buffer[j]
  BY <1>3, <1>4 DEF Put
<1>. QED BY <1>2, <1>5

\* What the log keeps of a sequence, all but its first elements.
LEMMA LastOfSeq ==
  ASSUME NEW s \in Seq(Byte), NEW cut, cut = IF Len(s) <= Size THEN 0 ELSE Len(s) - Size
  PROVE  /\ Log!LastOf(s) \in Seq(Byte) /\ Len(Log!LastOf(s)) = Len(s) - cut
         /\ \A i \in 1 .. Len(s) - cut : Log!LastOf(s)[i] = s[cut + i]
<1>. DEFINE n == Len(s)
<1>1. n \in Nat /\ Size \in Nat /\ Size > 0
  BY RingAssumption, LenProperties
<1>2. CASE n <= Size
  <2>1. Log!LastOf(s) = s /\ cut = 0
    BY <1>2 DEF Log!LastOf
  <2>2. n - cut = n /\ \A i \in 1 .. n - cut : cut + i = i
    BY <1>1, <2>1
  <2>. QED BY <2>1, <2>2
<1>3. CASE ~(n <= Size)
  <2>. DEFINE a == cut + 1
              t == SubSeq(s, a, n)
  <2>1. cut = n - Size
    BY <1>3
  <2>2. cut \in Nat /\ a \in Int /\ a >= 1 /\ a <= n
    BY <1>1, <1>3, <2>1
  <2>3. Log!LastOf(s) = t
    BY <1>3, <2>1 DEF Log!LastOf
  <2>4. \A i \in a .. n : s[i] \in Byte
    <3>1. \A i \in a .. n : i \in 1 .. Len(s)
      BY <1>1, <2>2
    <3>. QED BY <3>1, ElementOfSeq
  <2>. HIDE DEF n, a
  <2>5. /\ t \in Seq(Byte) /\ Len(t) = (IF a <= n THEN n - a + 1 ELSE 0)
        /\ \A i \in 1 .. n - a + 1 : t[i] = s[a + i - 1]
    BY <1>1, <2>2, <2>4, SubSeqProperties, n \in Int
  <2>6. n - a + 1 = n - cut /\ \A i \in 1 .. n - cut : a + i - 1 = cut + i
    BY <1>1, <2>2 DEF a
  <2>7. t \in Seq(Byte) /\ Len(t) = n - cut /\ \A i \in 1 .. n - cut : t[i] = s[cut + i]
    BY <2>2, <2>5, <2>6
  <2>. QED BY <2>3, <2>7 DEF n
<1>. QED BY <1>2, <1>3

\* A write appends its bytes to the log, which then forgets all but the last Size.
LEMMA WriteAppends ==
  ASSUME Inv, NEW f \in Files, NEW count \in Counts, NEW data \in [1 .. count -> Byte],
         ring_buffer_write(f, data, count), Inv'
  PROVE  Log!Write(data, count)
<1>. DEFINE len == Min2(count, Size)
            n == in - out
            new == SubSeq(data, 1, len)
            all == StoredTail \o new
            cut == IF Len(all) <= Size THEN 0 ELSE Len(all) - Size
            m == Len(all) - cut
<1>1. count \in Nat /\ len \in Nat /\ len <= count /\ len <= Size /\ Size \in Nat
  BY RingAssumption, Min2Nat, Zenon
<1>2. in \in Nat /\ out \in Nat /\ n \in Nat /\ n <= Size /\ out + n = in
  BY DEF Inv, TypeOK, StoredFits
<1>3. buffer' = Put(data, len) /\ in' = in + len
  BY DEF ring_buffer_write
<1>4. RingLen(in + len, out) = in + len - out
  BY <1>1, <1>2, RingLenExact, RingAssumption
<1>5. out' = IF in + len - out > Size THEN in + len - Size ELSE out
  BY <1>4 DEF ring_buffer_write
<1>. HIDE DEF len, n
<1>6. new \in Seq(Byte) /\ Len(new) = len /\ \A i \in 1 .. len : new[i] = data[i]
  <2>1. \A i \in 1 .. len : data[i] \in Byte
    BY <1>1
  <2>. QED BY <1>1, <2>1, SubSeqProperties
<1>7. /\ StoredTail \in Seq(Byte) /\ Len(StoredTail) = n
      /\ \A i \in 1 .. n : StoredTail[i] = buffer[(out + i - 1) % Size]
  BY StoredSeq DEF n
<1>. HIDE DEF new
<1>8. all \in Seq(Byte) /\ Len(all) = n + len
  BY <1>6, <1>7, ConcatProperties, Zenon
<1>9. ASSUME NEW k \in 1 .. n + len
      PROVE  all[k] = IF k <= n THEN buffer[(out + k - 1) % Size] ELSE data[k - n]
  <2>1. all[k] = IF k <= n THEN StoredTail[k] ELSE new[k - n]
    BY <1>6, <1>7, ConcatProperties, Zenon
  <2>2. CASE k <= n
    BY <1>1, <1>2, <1>7, <2>1, <2>2
  <2>3. CASE ~(k <= n)
    <3>1. k - n \in 1 .. len
      BY <1>1, <1>2, <2>3
    <3>. QED BY <1>6, <2>1, <2>3, <3>1
  <2>. QED BY <2>2, <2>3, Zenon
<1>. HIDE DEF all
<1>10. /\ out' = out + cut /\ cut \in Nat
       /\ in' - out' = m /\ m = n + len - cut /\ m \in Nat /\ m <= Size
  BY <1>1, <1>2, <1>3, <1>5, <1>8 DEF n
<1>11. /\ Log!LastOf(all) \in Seq(Byte) /\ Len(Log!LastOf(all)) = m
       /\ \A i \in 1 .. m : Log!LastOf(all)[i] = all[cut + i]
  <2>1. cut = IF Len(all) <= Size THEN 0 ELSE Len(all) - Size
    OBVIOUS
  <2>. HIDE DEF cut
  <2>. QED BY <1>8, <2>1, LastOfSeq
<1>. HIDE DEF cut, m
<1>12. /\ StoredTail' \in Seq(Byte) /\ Len(StoredTail') = m
       /\ \A i \in 1 .. m : StoredTail'[i] = buffer'[(out' + i - 1) % Size]
  <2>1. buffer' \in [Index -> Byte] /\ in' \in Nat /\ out' \in Nat /\ out' <= in'
    BY DEF Inv, TypeOK, StoredFits
  <2>2. /\ StoredTail' \in Seq(Byte) /\ Len(StoredTail') = in' - out'
        /\ \A i \in 1 .. in' - out' : StoredTail'[i] = buffer'[(out' + i - 1) % Size]
    <3>1. StoredTail' = [k \in 1 .. in' - out' |-> buffer'[(out' + k - 1) % Size]]
      BY Zenon DEF StoredTail
    <3>2. \A k \in 1 .. in' - out' : buffer'[(out' + k - 1) % Size] \in Byte
      <4>1. ASSUME NEW k \in 1 .. in' - out' PROVE (out' + k - 1) % Size \in Index
        BY <2>1, DivMod, out' + k - 1 \in Int
      <4>. QED BY <2>1, <4>1, Zenon
    <3>3. in' - out' \in Nat
      BY <1>10
    <3>. QED BY <3>1, <3>2, <3>3
  <2>. QED BY <1>10, <2>2
<1>13. ASSUME NEW i \in 1 .. m PROVE StoredTail'[i] = Log!LastOf(all)[i]
  <2>. DEFINE k == cut + i
              a == out + k - 1
  <2>1. /\ k \in 1 .. n + len /\ a \in Int /\ in + len - Size <= a /\ a < in + len
        /\ (a >= in <=> ~(k <= n)) /\ a - in + 1 = k - n /\ out' + i - 1 = a
    BY <1>1, <1>2, <1>10
  <2>. HIDE DEF k
  <2>2. all[k] = IF k <= n THEN buffer[a % Size] ELSE data[k - n]
    BY <1>9, <2>1
  <2>. HIDE DEF a
  <2>3. StoredTail'[i] = IF a >= in THEN data[a - in + 1] ELSE buffer[a % Size]
    BY <1>1, <1>3, <1>12, <2>1, PutSlots, Zenon
  <2>4. Log!LastOf(all)[i] = all[k]
    BY <1>11 DEF k
  <2>. QED BY <2>1, <2>2, <2>3, <2>4
<1>14. StoredTail' = Log!LastOf(all)
  BY <1>11, <1>12, <1>13, SeqEqual
<1>15. len = IF count <= Size THEN count ELSE Size
  BY DEF len, Min2
<1>. QED BY <1>14, <1>15 DEF Log!Write, all, new

\* The ring starts as the empty log.
LEMMA StartsEmpty == Init => Log!Init
<1>. SUFFICES ASSUME Init PROVE StoredTail = <<>>
  BY DEF Log!Init
<1>1. StoredTail \in Seq(Byte) /\ Len(StoredTail) = 0
  BY InitInv, StoredSeq DEF Init
<1>. QED BY <1>1, EmptySeq

\* Every operation is a write to the log, its clearing, or nothing.
LEMMA StepsOfLog == ASSUME Inv, [Next]_vars PROVE [Log!Next]_StoredTail
<1>. USE DEF Log!Next
<1>1. Inv'
  BY NextInv
<1>2. ASSUME UNCHANGED <<buffer, in, out>> PROVE StoredTail' = StoredTail
  BY <1>2 DEF StoredTail
<1>3. ASSUME NEW f \in Files, Write(f) PROVE Log!Next
  BY <1>1, <1>3, WriteAppends DEF Write
<1>4. CASE ring_buffer_proc_write
  <2>1. buffer' \in [Index -> Byte] /\ in' = 0 /\ out' = 0
    BY <1>1, <1>4 DEF ring_buffer_proc_write, Inv, TypeOK
  <2>2. StoredTail' \in Seq(Byte) /\ Len(StoredTail') = 0
    BY <2>1, WindowSeq DEF StoredTail
  <2>. QED BY <2>2, EmptySeq DEF Log!Clear
<1>5. ASSUME NEW f \in Files,
             ring_buffer_open(f) \/ ring_buffer_release(f) \/ Read(f) \/ Seek(f)
      PROVE  UNCHANGED <<buffer, in, out>>
  BY <1>5 DEF ring_buffer_open, ring_buffer_release, Read, ring_buffer_read, Seek,
              llseek_move, llseek_tell
<1>6. CASE UNCHANGED vars
  BY <1>2, <1>6 DEF vars
<1>. QED BY <1>2, <1>3, <1>4, <1>5, <1>6 DEF Next

\* For every ring size and every set of files, the ring implements the log that keeps
\* its last Size bytes: a write is an append that forgets the oldest bytes, a clear
\* through /proc forgets all, and reads and seeks change nothing.
THEOREM RingIsLog == Spec => KeepsTheTail
<1>1. Spec => []Inv
  BY InitInv, NextInv, PTL DEF Spec
<1>2. Init => Log!Init
  BY StartsEmpty
<1>3. Inv /\ [Next]_vars => [Log!Next]_StoredTail
  BY StepsOfLog
<1>. QED BY <1>1, <1>2, <1>3, PTL DEF Spec, KeepsTheTail, Log!Spec

=============================================================================
