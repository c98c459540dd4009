----------------------- MODULE AntiReplayWindow_proofs -----------------------
(***************************************************************************)
(* For every word size, every number of words and every set of counters:   *)
(* the bitmap is exact, no counter is accepted twice, and the window       *)
(* implements the abstract filter.                                         *)
(***************************************************************************)
EXTENDS AntiReplayWindow, TLAPS

(* Multiplying by the word size preserves order: the only fact about the
   product that the proofs below need.                                     *)
LEMMA TimesWordBits ==
  ASSUME NEW p \in Int, NEW q \in Int, p < q
  PROVE  WordBits * p + WordBits <= WordBits * q
<1>1. WordBits \in Int /\ WordBits >= 1
  BY WordBitsAssumption
<1>2. PICK k \in Nat : q = p + 1 + k
  <2>1. q - p - 1 \in Nat /\ q = p + 1 + (q - p - 1)
    OBVIOUS
  <2> QED BY <2>1
<1>3. WordBits * q = WordBits * p + WordBits + WordBits * k
  BY <1>1, <1>2
<1>4. WordBits * k >= 0
  BY <1>1, <1>2
<1>5. WordBits * p \in Int /\ WordBits * q \in Int /\ WordBits * k \in Int
  BY <1>1, <1>2
<1> QED BY <1>1, <1>3, <1>4, <1>5

(* Division with remainder by the word size. *)
LEMMA WordAndBit ==
  ASSUME NEW d \in Nat
  PROVE  /\ d \div WordBits \in Nat
         /\ d % WordBits \in Bits
         /\ d = WordBits * (d \div WordBits) + (d % WordBits)
BY WordBitsAssumption DEF Bits

(* A position is in only one word and at only one bit of it. *)
LEMMA WordAndBitUnique ==
  ASSUME NEW d \in Nat, NEW i \in Int, NEW k \in Bits, d = WordBits * i + k
  PROVE  d \div WordBits = i /\ d % WordBits = k
<1> DEFINE q == d \div WordBits
           r == d % WordBits
<1>1. q \in Nat /\ r \in Bits /\ d = WordBits * q + r
  BY WordAndBit
<1>2. WordBits \in Int /\ WordBits >= 1
  BY WordBitsAssumption
<1>3. k \in Int /\ r \in Int /\ 0 <= k /\ k < WordBits /\ 0 <= r /\ r < WordBits
  BY <1>1, <1>2 DEF Bits
<1>4. WordBits * i \in Int /\ WordBits * q \in Int
  BY <1>1, <1>2
<1> HIDE DEF q, r
<1>5. ~ (q < i)
  <2> SUFFICES ASSUME q < i PROVE FALSE
    OBVIOUS
  <2>1. WordBits * q + WordBits <= WordBits * i
    BY <1>1, TimesWordBits
  <2> QED BY <2>1, <1>1, <1>2, <1>3, <1>4
<1>6. ~ (i < q)
  <2> SUFFICES ASSUME i < q PROVE FALSE
    OBVIOUS
  <2>1. WordBits * i + WordBits <= WordBits * q
    BY <1>1, TimesWordBits
  <2> QED BY <2>1, <1>1, <1>2, <1>3, <1>4
<1>7. q = i
  BY <1>1, <1>5, <1>6
<1>8. r = k
  BY <1>7, <1>1, <1>3, <1>4
<1> QED BY <1>7, <1>8 DEF q, r

(* The positions of the window are exactly those whose word exists. *)
LEMMA WindowWords ==
  ASSUME NEW d \in Nat
  PROVE  d < REPLAY_WINDOW_SIZE <=> d \div WordBits \in Words
<1> DEFINE q == d \div WordBits
           r == d % WordBits
<1>1. q \in Nat /\ r \in Bits /\ d = WordBits * q + r
  BY WordAndBit
<1>2. WordBits \in Int /\ WordBits >= 1 /\ BITMAP_WORDS \in Int
  BY WordBitsAssumption, BitmapWordsAssumption
<1>3. r \in Int /\ 0 <= r /\ r < WordBits
  BY <1>1, <1>2 DEF Bits
<1>4. REPLAY_WINDOW_SIZE = WordBits * BITMAP_WORDS
  BY <1>2 DEF REPLAY_WINDOW_SIZE
<1>5. WordBits * BITMAP_WORDS \in Int /\ WordBits * q \in Int
  BY <1>1, <1>2
<1> HIDE DEF q, r
<1>6. CASE q < BITMAP_WORDS
  <2>1. WordBits * q + WordBits <= WordBits * BITMAP_WORDS
    BY <1>1, <1>2, <1>6, TimesWordBits
  <2>2. d < REPLAY_WINDOW_SIZE
    BY <2>1, <1>1, <1>2, <1>3, <1>4, <1>5
  <2>3. q \in Words
    BY <1>1, <1>2, <1>6 DEF Words
  <2> QED BY <2>2, <2>3 DEF q
<1>7. CASE ~ (q < BITMAP_WORDS)
  <2>1. WordBits * BITMAP_WORDS <= WordBits * q
    <3>1. CASE q = BITMAP_WORDS
      BY <3>1, <1>5
    <3>2. CASE BITMAP_WORDS < q
      <4>1. WordBits * BITMAP_WORDS + WordBits <= WordBits * q
        BY <1>1, <1>2, <3>2, TimesWordBits
      <4> QED BY <4>1, <1>2, <1>5
    <3> QED BY <3>1, <3>2, <1>1, <1>2, <1>7
  <2>2. ~ (d < REPLAY_WINDOW_SIZE)
    BY <2>1, <1>1, <1>2, <1>3, <1>4, <1>5
  <2>3. q \notin Words
    BY <1>1, <1>2, <1>7 DEF Words
  <2> QED BY <2>2, <2>3 DEF q
<1> QED BY <1>6, <1>7

(* Setting one bit changes that bit only. *)
LEMMA MarkOneBit ==
  ASSUME NEW b \in [Words -> SUBSET Bits],
         NEW e \in Nat, e < REPLAY_WINDOW_SIZE,
         NEW d \in Nat, d < REPLAY_WINDOW_SIZE
  PROVE  /\ Mark(b, e) \in [Words -> SUBSET Bits]
         /\ Marked(Mark(b, e), d) <=> d = e \/ Marked(b, d)
<1>1. e \div WordBits \in Words /\ e % WordBits \in Bits
  BY WindowWords, WordAndBit
<1>2. d \div WordBits \in Words /\ d % WordBits \in Bits
  BY WindowWords, WordAndBit
<1>3. d \div WordBits = e \div WordBits /\ d % WordBits = e % WordBits => d = e
  <2>1. d = WordBits * (d \div WordBits) + (d % WordBits)
    BY WordAndBit
  <2>2. e = WordBits * (e \div WordBits) + (e % WordBits)
    BY WordAndBit
  <2> QED BY <2>1, <2>2
<1>4. Mark(b, e) \in [Words -> SUBSET Bits]
  BY <1>1 DEF Mark
<1>5. CASE d \div WordBits = e \div WordBits
  <2>1. Mark(b, e)[d \div WordBits] = b[d \div WordBits] \cup {e % WordBits}
    BY <1>1, <1>2, <1>5 DEF Mark
  <2> QED BY <2>1, <1>3, <1>4, <1>5 DEF Marked
<1>6. CASE d \div WordBits # e \div WordBits
  <2>1. Mark(b, e)[d \div WordBits] = b[d \div WordBits]
    BY <1>1, <1>2, <1>6 DEF Mark
  <2> QED BY <2>1, <1>4, <1>6 DEF Marked
<1> QED BY <1>5, <1>6

(* shift_bitmap moves bit d - n to bit d and fills the low bits with 0: word
   by word, with the carry, for every word size.                           *)
LEMMA ShiftMovesBits ==
  ASSUME NEW b \in [Words -> SUBSET Bits],
         NEW n \in Nat,
         NEW d \in Nat, d < REPLAY_WINDOW_SIZE
  PROVE  /\ shift_bitmap(b, n) \in [Words -> SUBSET Bits]
         /\ Marked(shift_bitmap(b, n), d) <=> d >= n /\ Marked(b, d - n)
<1>1. WordBits \in Int /\ WordBits >= 1 /\ BITMAP_WORDS \in Int
  BY WordBitsAssumption, BitmapWordsAssumption
<1>2. REPLAY_WINDOW_SIZE \in Int
  BY <1>1 DEF REPLAY_WINDOW_SIZE
<1> DEFINE i == d \div WordBits
           k == d % WordBits
           ws == n \div WordBits
           bs == n % WordBits
<1>3. i \in Words /\ i \in Nat /\ k \in Bits /\ d = WordBits * i + k
  BY WindowWords, WordAndBit
<1>4. ws \in Nat /\ bs \in Bits /\ n = WordBits * ws + bs
  BY WordAndBit
<1>5. CASE n >= REPLAY_WINDOW_SIZE
  <2>1. shift_bitmap(b, n) = Clear
    BY <1>5 DEF shift_bitmap
  <2>2. ~ (d >= n)
    BY <1>2, <1>5
  <2> QED BY <2>1, <2>2, <1>3 DEF Clear, Marked
<1>6. CASE ~ (n >= REPLAY_WINDOW_SIZE)
  <2> DEFINE s == ShiftWords(b, ws)
  <2>1. shift_bitmap(b, n) = ShiftBits(s, bs)
    BY <1>6 DEF shift_bitmap
  <2>2. s \in [Words -> SUBSET Bits]
    <3>1. \A j \in Words : j >= ws => j - ws \in Words
      BY <1>1, <1>4 DEF Words
    <3> QED BY <3>1 DEF ShiftWords
  <2>3. shift_bitmap(b, n) \in [Words -> SUBSET Bits]
    BY <2>1, <2>2 DEF ShiftBits, ShiftLeft, ShiftRight
  <2> HIDE DEF i, k, ws, bs
  <2>4. k \in Int /\ 0 <= k /\ k < WordBits /\ bs \in Int /\ 0 <= bs /\ bs < WordBits
    BY <1>1, <1>3, <1>4 DEF Bits
  <2>5. WordBits * i \in Int /\ WordBits * ws \in Int
    BY <1>1, <1>3, <1>4
  <2>6. Marked(shift_bitmap(b, n), d)
          <=> k \in ShiftLeft(s[i], bs) \/ (i > 0 /\ k \in ShiftRight(s[i - 1], WordBits - bs))
    <3>1. Marked(shift_bitmap(b, n), d) <=> k \in ShiftBits(s, bs)[i]
      BY <2>1 DEF Marked, i, k
    <3> QED BY <3>1, <1>3 DEF ShiftBits
  <2>7. CASE k >= bs
    <3>1. k \notin ShiftRight(s[i - 1], WordBits - bs) \/ ~ (i > 0)
      <4> SUFFICES ASSUME i > 0 PROVE k + (WordBits - bs) \notin s[i - 1]
        BY DEF ShiftRight
      <4>1. i - 1 \in Words
        BY <1>1, <1>3 DEF Words
      <4>2. k + (WordBits - bs) \notin Bits
        BY <1>1, <2>4, <2>7 DEF Bits
      <4> QED BY <4>1, <4>2, <2>2
    <3>2. Marked(shift_bitmap(b, n), d) <=> k - bs \in s[i]
      BY <2>6, <3>1, <1>3 DEF ShiftLeft
    <3>3. k - bs \in Bits
      BY <1>1, <2>4, <2>7 DEF Bits
    <3>4. CASE i >= ws
      <4>1. d - n = WordBits * (i - ws) + (k - bs)
        BY <1>1, <1>3, <1>4, <2>4, <2>5
      <4>2. d - n \in Nat
        <5>1. i = ws \/ ws < i
          BY <3>4, <1>3, <1>4
        <5>2. WordBits * ws <= WordBits * i
          <6>1. CASE i = ws
            BY <6>1, <2>5
          <6>2. CASE ws < i
            <7>1. WordBits * ws + WordBits <= WordBits * i
              BY <6>2, <1>3, <1>4, TimesWordBits
            <7> QED BY <7>1, <1>1, <2>5
          <6> QED BY <5>1, <6>1, <6>2
        <5> QED BY <5>2, <1>3, <1>4, <2>4, <2>5, <2>7
      <4>3. i - ws \in Int
        BY <1>3, <1>4
      <4>4. (d - n) \div WordBits = i - ws /\ (d - n) % WordBits = k - bs
        BY <4>1, <4>2, <4>3, <3>3, WordAndBitUnique
      <4>5. s[i] = b[i - ws]
        BY <1>3, <3>4 DEF ShiftWords
      <4>6. d >= n
        BY <4>2
      <4> QED BY <2>3, <3>2, <4>4, <4>5, <4>6 DEF Marked
    <3>5. CASE ~ (i >= ws)
      <4>1. s[i] = {}
        BY <1>3, <3>5 DEF ShiftWords
      <4>2. WordBits * i + WordBits <= WordBits * ws
        BY <3>5, <1>3, <1>4, TimesWordBits
      <4>3. ~ (d >= n)
        BY <4>2, <1>1, <1>3, <1>4, <2>4, <2>5
      <4> QED BY <2>3, <3>2, <4>1, <4>3
    <3> QED BY <3>4, <3>5
  <2>8. CASE ~ (k >= bs)
    <3>1. k \notin ShiftLeft(s[i], bs)
      <4>1. k - bs \notin Bits
        BY <1>1, <2>4, <2>8 DEF Bits
      <4> QED BY <4>1, <2>2, <1>3 DEF ShiftLeft
    <3>2. Marked(shift_bitmap(b, n), d) <=> i > 0 /\ k + (WordBits - bs) \in s[i - 1]
      BY <2>6, <3>1, <1>3 DEF ShiftRight
    <3>3. k + (WordBits - bs) \in Bits
      BY <1>1, <2>4, <2>8 DEF Bits
    <3>4. CASE i > ws
      <4>1. d - n = WordBits * (i - ws - 1) + (k + (WordBits - bs))
        BY <1>1, <1>3, <1>4, <2>4, <2>5
      <4>2. d - n \in Nat
        <5>1. WordBits * ws + WordBits <= WordBits * i
          BY <3>4, <1>3, <1>4, TimesWordBits
        <5> QED BY <5>1, <1>1, <1>3, <1>4, <2>4, <2>5
      <4>3. i - ws - 1 \in Int
        BY <1>3, <1>4
      <4>4. (d - n) \div WordBits = i - ws - 1 /\ (d - n) % WordBits = k + (WordBits - bs)
        BY <4>1, <4>2, <4>3, <3>3, WordAndBitUnique
      <4>5. i - 1 \in Words /\ i - 1 >= ws /\ (i - 1) - ws = i - ws - 1 /\ i > 0
        BY <1>1, <1>3, <1>4, <3>4 DEF Words
      <4>6. s[i - 1] = b[i - ws - 1]
        BY <4>5 DEF ShiftWords
      <4>7. d >= n
        BY <4>2
      <4> QED BY <2>3, <3>2, <4>4, <4>5, <4>6, <4>7 DEF Marked
    <3>5. CASE ~ (i > ws)
      <4>1. i > 0 => s[i - 1] = {}
        <5> SUFFICES ASSUME i > 0 PROVE s[i - 1] = {}
          OBVIOUS
        <5>1. i - 1 \in Words /\ ~ (i - 1 >= ws)
          BY <1>1, <1>3, <1>4, <3>5 DEF Words
        <5> QED BY <5>1 DEF ShiftWords
      <4>2. WordBits * i <= WordBits * ws
        <5>1. CASE i = ws
          BY <5>1, <2>5
        <5>2. CASE i < ws
          <6>1. WordBits * i + WordBits <= WordBits * ws
            BY <5>2, <1>3, <1>4, TimesWordBits
          <6> QED BY <6>1, <1>1, <2>5
        <5> QED BY <5>1, <5>2, <3>5, <1>3, <1>4
      <4>3. ~ (d >= n)
        BY <4>2, <1>1, <1>3, <1>4, <2>4, <2>5, <2>8
      <4> QED BY <2>3, <3>2, <4>1, <4>3
    <3> QED BY <3>4, <3>5
  <2> QED BY <2>7, <2>8
<1> QED BY <1>5, <1>6

-----------------------------------------------------------------------------
(* The inductive invariant.  AcceptedAtMostOnce alone is not inductive: that
   an unmarked counter was never accepted is BitmapIsExact, and that the
   filter would refuse what falls off the window needs LastWasAccepted.    *)
IInv == TypeOK /\ AcceptedAtMostOnce /\ BitmapIsExact /\ LastWasAccepted

(* A window position is a natural number: last_counter - c for a counter c
   that is not above last_counter.                                         *)
LEMMA Behind ==
  ASSUME TypeOK, NEW c \in Counters
  PROVE  /\ c \in Nat /\ last_counter \in Nat
         /\ c <= last_counter => last_counter - c \in Nat
         /\ REPLAY_WINDOW_SIZE \in Nat /\ 0 < REPLAY_WINDOW_SIZE
<1>1. c \in Nat /\ last_counter \in Nat
  BY CountersAssumption DEF TypeOK
<1>2. WordBits \in Int /\ BITMAP_WORDS \in Int /\ 0 < BITMAP_WORDS /\ WordBits >= 1
  BY WordBitsAssumption, BitmapWordsAssumption
<1>3. WordBits * 0 + WordBits <= WordBits * BITMAP_WORDS
  BY <1>2, TimesWordBits
<1>4. REPLAY_WINDOW_SIZE = WordBits * BITMAP_WORDS
  BY <1>2 DEF REPLAY_WINDOW_SIZE
<1>5. WordBits * BITMAP_WORDS \in Int /\ WordBits * 0 = 0
  BY <1>2
<1> QED BY <1>1, <1>2, <1>3, <1>4, <1>5

LEMMA InitIInv == Init => IInv
<1> SUFFICES ASSUME Init PROVE IInv
  OBVIOUS
<1>1. Clear \in [Words -> SUBSET Bits]
  BY DEF Clear
<1>2. TypeOK
  BY <1>1 DEF Init, TypeOK, NoVerdict, Verdict
<1>3. BitmapIsExact
  <2> SUFFICES ASSUME NEW c \in Counters, c <= last_counter,
                      last_counter - c < REPLAY_WINDOW_SIZE
               PROVE  ~ Marked(bitmap, last_counter - c)
    BY DEF BitmapIsExact, Init
  <2>1. last_counter - c \in Nat
    BY <1>2, Behind
  <2>2. (last_counter - c) \div WordBits \in Words
    BY <2>1, WindowWords
  <2> QED BY <2>2 DEF Init, Clear, Marked
<1>4. AcceptedAtMostOnce /\ LastWasAccepted
  BY DEF Init, AcceptedAtMostOnce, LastWasAccepted
<1> QED BY <1>2, <1>3, <1>4 DEF IInv

LEMMA AdvanceIInv == ASSUME IInv, NEW c \in Counters, Advance(c) PROVE IInv'
<1> USE DEF IInv
<1> DEFINE n == c - last_counter
           b == shift_bitmap(bitmap, n)
<1>1. c \in Nat /\ last_counter \in Nat /\ n \in Nat /\ n > 0
  BY Behind DEF Advance
<1>2. REPLAY_WINDOW_SIZE \in Nat /\ 0 < REPLAY_WINDOW_SIZE
  BY Behind
<1>3. bitmap \in [Words -> SUBSET Bits]
  BY DEF TypeOK
<1>4. b \in [Words -> SUBSET Bits]
  BY <1>1, <1>2, <1>3, ShiftMovesBits
<1>5. bitmap' = Mark(b, 0) /\ last_counter' = c
  BY DEF Advance
<1>6. accepts' = [accepts EXCEPT ![c] = @ + 1] /\ verdict' = Verdict("accept", c)
  BY DEF Advance, Accept
<1>7. accepts[c] = 0
  BY <1>1 DEF TypeOK, BitmapIsExact, Advance
<1> HIDE DEF n, b
<1>8. bitmap' \in [Words -> SUBSET Bits]
  BY <1>2, <1>4, <1>5, MarkOneBit
<1>9. TypeOK'
  BY <1>1, <1>5, <1>6, <1>8, CountersAssumption DEF TypeOK, Verdict
<1>10. AcceptedAtMostOnce'
  BY <1>6, <1>7 DEF AcceptedAtMostOnce, TypeOK
<1>11. LastWasAccepted'
  BY <1>5, <1>6, <1>7 DEF LastWasAccepted, TypeOK
<1>12. ASSUME NEW e \in Counters, accepts'[e] > 0 PROVE e <= last_counter'
  <2>1. e \in Nat
    BY CountersAssumption
  <2>2. CASE e = c
    BY <2>1, <2>2, <1>5
  <2>3. CASE e # c
    <3>1. accepts[e] > 0
      BY <2>3, <1>6, <1>12 DEF TypeOK
    <3>2. e <= last_counter
      BY <3>1 DEF BitmapIsExact
    <3> QED BY <3>2, <2>1, <1>1, <1>5 DEF n
  <2> QED BY <2>2, <2>3
<1>13. ASSUME NEW e \in Counters, e <= c, c - e < REPLAY_WINDOW_SIZE
       PROVE  Marked(bitmap', c - e) <=> accepts'[e] > 0
  <2>1. e \in Nat /\ c - e \in Nat
    BY <1>1, <1>13, CountersAssumption
  <2>2. Marked(bitmap', c - e) <=> c - e = 0 \/ Marked(b, c - e)
    BY <2>1, <1>2, <1>4, <1>5, <1>13, MarkOneBit
  <2>3. Marked(b, c - e) <=> c - e >= n /\ Marked(bitmap, (c - e) - n)
    BY <2>1, <1>1, <1>3, <1>13, ShiftMovesBits DEF b
  <2>4. CASE e = c
    BY <2>1, <2>2, <2>4, <1>6, <1>7 DEF TypeOK
  <2>5. CASE e # c
    <3>1. accepts'[e] = accepts[e]
      BY <2>5, <1>6 DEF TypeOK
    <3>2. c - e # 0
      BY <2>1, <2>5, <1>1
    <3>3. CASE e <= last_counter
      <4>1. c - e >= n /\ (c - e) - n = last_counter - e
        BY <3>3, <2>1, <1>1 DEF n
      <4>2. last_counter - e < REPLAY_WINDOW_SIZE
        BY <4>1, <2>1, <1>1, <1>2, <1>13
      <4>3. Marked(bitmap, last_counter - e) <=> accepts[e] > 0
        BY <4>2, <3>3 DEF BitmapIsExact
      <4> QED BY <4>1, <4>3, <3>1, <3>2, <2>2, <2>3
    <3>4. CASE ~ (e <= last_counter)
      <4>1. ~ (c - e >= n)
        BY <3>4, <2>1, <1>1 DEF n
      <4>2. ~ (accepts[e] > 0)
        BY <3>4 DEF BitmapIsExact
      <4> QED BY <4>1, <4>2, <3>1, <3>2, <2>2, <2>3
    <3> QED BY <3>3, <3>4
  <2> QED BY <2>4, <2>5
<1>14. BitmapIsExact'
  BY <1>5, <1>12, <1>13 DEF BitmapIsExact, Marked
<1> QED BY <1>9, <1>10, <1>11, <1>14

LEMMA FillInIInv == ASSUME IInv, NEW c \in Counters, FillIn(c) PROVE IInv'
<1> USE DEF IInv
<1> DEFINE d == last_counter - c
<1>1. c \in Nat /\ last_counter \in Nat /\ d \in Nat /\ c <= last_counter
  BY Behind DEF FillIn
<1>2. REPLAY_WINDOW_SIZE \in Nat /\ 0 < REPLAY_WINDOW_SIZE
  BY Behind
<1>3. d < REPLAY_WINDOW_SIZE /\ ~ Marked(bitmap, d)
  BY <1>1 DEF FillIn, check
<1>4. bitmap \in [Words -> SUBSET Bits]
  BY DEF TypeOK
<1>5. bitmap' = Mark(bitmap, d) /\ last_counter' = last_counter
  BY DEF FillIn
<1>6. accepts' = [accepts EXCEPT ![c] = @ + 1] /\ verdict' = Verdict("accept", c)
  BY DEF FillIn, Accept
<1>7. accepts[c] = 0
  BY <1>1, <1>3 DEF TypeOK, BitmapIsExact
<1> HIDE DEF d
<1>8. bitmap' \in [Words -> SUBSET Bits]
  BY <1>1, <1>3, <1>4, <1>5, MarkOneBit
<1>9. TypeOK'
  BY <1>1, <1>5, <1>6, <1>8, CountersAssumption DEF TypeOK, Verdict
<1>10. AcceptedAtMostOnce'
  BY <1>6, <1>7 DEF AcceptedAtMostOnce, TypeOK
<1>11. LastWasAccepted'
  BY <1>5, <1>6 DEF LastWasAccepted, TypeOK
<1>12. ASSUME NEW e \in Counters, accepts'[e] > 0 PROVE e <= last_counter'
  BY <1>1, <1>5, <1>6, <1>12 DEF BitmapIsExact, TypeOK
<1>13. ASSUME NEW e \in Counters, e <= last_counter, last_counter - e < REPLAY_WINDOW_SIZE
       PROVE  Marked(bitmap', last_counter - e) <=> accepts'[e] > 0
  <2>1. e \in Nat /\ last_counter - e \in Nat
    BY <1>1, <1>13, CountersAssumption
  <2>2. Marked(bitmap', last_counter - e) <=> last_counter - e = d \/ Marked(bitmap, last_counter - e)
    BY <2>1, <1>1, <1>3, <1>4, <1>5, <1>13, MarkOneBit
  <2>3. Marked(bitmap, last_counter - e) <=> accepts[e] > 0
    BY <1>13 DEF BitmapIsExact
  <2>4. last_counter - e = d <=> e = c
    BY <2>1, <1>1 DEF d
  <2> QED BY <2>2, <2>3, <2>4, <1>6, <1>7 DEF TypeOK
<1>14. BitmapIsExact'
  BY <1>5, <1>12, <1>13 DEF BitmapIsExact, Marked
<1> QED BY <1>9, <1>10, <1>11, <1>14

LEMMA NextIInv == IInv /\ [Next]_vars => IInv'
<1> SUFFICES ASSUME IInv, [Next]_vars PROVE IInv'
  OBVIOUS
<1>1. CASE reset
  <2>1. Init'
    BY <1>1 DEF reset, Init
  <2> QED BY <2>1, InitIInv, PTL
<1>2. ASSUME NEW c \in Counters, check_and_update(c) PROVE IInv'
  <2>1. CASE Advance(c)
    BY <2>1, AdvanceIInv
  <2>2. CASE FillIn(c)
    BY <2>2, FillInIInv
  <2>3. CASE Refuse(c)
    BY <2>3, CountersAssumption DEF Verdict, IInv, TypeOK, AcceptedAtMostOnce, BitmapIsExact, LastWasAccepted, Marked, Refuse
  <2> QED BY <1>2, <2>1, <2>2, <2>3 DEF check_and_update
<1>3. CASE UNCHANGED vars
  BY <1>3 DEF IInv, TypeOK, AcceptedAtMostOnce, BitmapIsExact, LastWasAccepted, Marked, vars
<1> QED BY <1>1, <1>2, <1>3 DEF Next

LEMMA SpecIInv == Spec => []IInv
BY InitIInv, NextIInv, PTL DEF Spec

(* Every field of the window keeps its type. *)
THEOREM TypeCorrect == Spec => []TypeOK
BY SpecIInv, PTL DEF IInv

(* check_and_update accepts no counter twice between two resets. *)
THEOREM NoReplay == Spec => []AcceptedAtMostOnce
BY SpecIInv, PTL DEF IInv

(* The bitmap records exactly the accepted counters of the window, through
   every slide by any number of words and bits.                            *)
THEOREM ExactBitmap == Spec => []BitmapIsExact
BY SpecIInv, PTL DEF IInv

-----------------------------------------------------------------------------
(* The window gives the verdict the filter would give. *)
LEMMA CheckIsFresh ==
  ASSUME IInv, NEW c \in Counters
  PROVE  check(c) <=> Filter!Fresh({e \in Counters : accepts[e] > 0}, c)
<1> USE DEF IInv
<1> DEFINE S == {e \in Counters : accepts[e] > 0}
<1>1. c \in Nat /\ last_counter \in Nat /\ (c <= last_counter => last_counter - c \in Nat)
  BY Behind
<1>2. REPLAY_WINDOW_SIZE \in Nat /\ 0 < REPLAY_WINDOW_SIZE
  BY Behind
<1>3. \A s \in S : s \in Nat /\ s <= last_counter
  BY CountersAssumption DEF BitmapIsExact
<1>4. CASE c > last_counter
  <2>1. c \notin S /\ \A s \in S : s - c < REPLAY_WINDOW_SIZE
    BY <1>1, <1>2, <1>3, <1>4
  <2> QED BY <2>1, <1>4 DEF check, Filter!Fresh
<1>5. CASE ~ (c > last_counter) /\ last_counter - c < REPLAY_WINDOW_SIZE
  <2>1. Marked(bitmap, last_counter - c) <=> c \in S
    BY <1>1, <1>5 DEF BitmapIsExact
  <2>2. \A s \in S : s - c < REPLAY_WINDOW_SIZE
    BY <1>1, <1>2, <1>3, <1>5
  <2> QED BY <2>1, <2>2, <1>5 DEF check, Filter!Fresh
<1>6. CASE ~ (c > last_counter) /\ ~ (last_counter - c < REPLAY_WINDOW_SIZE)
  <2>1. last_counter > 0
    BY <1>1, <1>2, <1>6
  <2>2. last_counter \in S
    BY <2>1 DEF LastWasAccepted
  <2> QED BY <2>2, <1>6 DEF check, Filter!Fresh
<1> QED BY <1>4, <1>5, <1>6

(* The bitmap window implements the abstract filter: every call of
   check_and_update and every reset is a step of ReplayFilter.             *)
THEOREM Refinement == Spec => ImplementsFilter
<1>1. Init => Filter!Init
  BY DEF Init, Filter!Init, NoVerdict, Verdict, Filter!NoVerdict, Filter!Verdict
<1>2. IInv /\ [Next]_vars => [Filter!Next]_(Filter!vars)
  <2> SUFFICES ASSUME IInv, [Next]_vars PROVE [Filter!Next]_(Filter!vars)
    OBVIOUS
  <2> DEFINE S == {e \in Counters : accepts[e] > 0}
  <2>1. CASE reset
    <3>1. S' = {}
      BY <2>1 DEF reset
    <3> QED BY <3>1, <2>1
           DEF reset, Filter!Next, Filter!Forget, NoVerdict, Verdict, Filter!NoVerdict, Filter!Verdict
  <2>2. ASSUME NEW c \in Counters, check_and_update(c) PROVE Filter!Present(c)
    <3>1. CASE Advance(c) \/ FillIn(c)
      <4>1. check(c)
        BY <3>1 DEF Advance, FillIn, check
      <4>2. Filter!Fresh(S, c)
        BY <4>1, CheckIsFresh
      <4>3. accepts' = [accepts EXCEPT ![c] = @ + 1] /\ verdict' = Verdict("accept", c)
        BY <3>1 DEF Advance, FillIn, Accept
      <4>4. S' = S \cup {c}
        BY <4>3 DEF IInv, TypeOK
      <4> QED BY <4>2, <4>3, <4>4 DEF Filter!Present, Verdict, Filter!Verdict
    <3>2. CASE Refuse(c)
      <4>1. ~ Filter!Fresh(S, c)
        BY <3>2, CheckIsFresh DEF Refuse
      <4> QED BY <3>2, <4>1 DEF Refuse, Filter!Present, Verdict, Filter!Verdict
    <3> QED BY <2>2, <3>1, <3>2 DEF check_and_update
  <2>3. CASE UNCHANGED vars
    BY <2>3 DEF vars, Filter!vars
  <2> QED BY <2>1, <2>2, <2>3 DEF Next, Filter!Next
<1> QED BY <1>1, <1>2, SpecIInv, PTL DEF Spec, ImplementsFilter, Filter!Spec
=============================================================================
