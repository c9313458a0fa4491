------------------------- MODULE ClientFilesProofs --------------------------
(***************************************************************************)
(* What ClientFiles guarantees for every size of the buffers and every set *)
(* of names, identifiers, keys and files: what is written or sent is read  *)
(* as what it was.                                                         *)
(***************************************************************************)
EXTENDS ClientFiles, FiniteSetTheorems, WellFoundedInduction, SequenceTheorems, TLAPS

-----------------------------------------------------------------------------
(* Sets of numbers in order.                                               *)

(* A set of numbers has a least one.                                       *)
LEMMA LeastOf ==
  ASSUME NEW S, S \subseteq Nat, S # {}
  PROVE  \E i \in S : \A j \in S : i <= j
  <1>1. IsWellFoundedOn(OpToRel(<, Nat), Nat)
    BY NatLessThanWellFounded
  <1>2. \A i, j \in Nat : <<j, i>> \in OpToRel(<, Nat) <=> j < i
    BY DEF OpToRel
  <1>3. PICK i \in S : \A j \in S : ~(<<j, i>> \in OpToRel(<, Nat))
    BY <1>1, WFMin
  <1>4. ASSUME NEW j \in S PROVE i <= j
    <2>1. ~(j < i)
      BY <1>2, <1>3
    <2> QED
      BY <2>1
  <1> QED
    BY <1>4

Ascending(s) == \A i, j \in DOMAIN s : i < j => s[i] < s[j]

(* The least element is put in front of the others in order.               *)
LEMMA SortedWithLeast ==
  ASSUME NEW S, S \subseteq Nat, IsFiniteSet(S), NEW x \in S, \A y \in S : x <= y,
         NEW s \in [1..Cardinality(S \ {x}) -> S \ {x}], Ascending(s)
  PROVE  \E t \in [1..Cardinality(S) -> S] : Ascending(t)
  <1>1. Cardinality(S) \in Nat /\ Cardinality(S \ {x}) = Cardinality(S) - 1
    BY FS_CardinalityType, FS_RemoveElement
  <1>2. Cardinality(S) >= 1
    BY <1>1, FS_RemoveElement, FS_CardinalityType
  <1> DEFINE t == [i \in 1..Cardinality(S) |-> IF i = 1 THEN x ELSE s[i - 1]]
  <1>3. ASSUME NEW i \in 1..Cardinality(S), i # 1
        PROVE  i - 1 \in 1..Cardinality(S \ {x}) /\ s[i - 1] \in S \ {x}
    <2>1. i - 1 \in 1..Cardinality(S \ {x})
      BY <1>1, <1>3
    <2> QED
      BY <2>1
  <1>4. t \in [1..Cardinality(S) -> S]
    BY <1>3
  <1>5. ASSUME NEW i \in 1..Cardinality(S), NEW j \in 1..Cardinality(S), i < j
        PROVE  t[i] < t[j]
    <2>1. j # 1 /\ t[j] = s[j - 1] /\ s[j - 1] \in S \ {x}
      BY <1>1, <1>3, <1>5
    <2>2. CASE i = 1
      <3>1. t[i] = x /\ x <= s[j - 1] /\ x # s[j - 1]
        BY <2>1, <2>2
      <3>2. x \in Nat /\ s[j - 1] \in Nat
        BY <2>1
      <3> HIDE DEF t
      <3> QED
        BY <2>1, <3>1, <3>2
    <2>3. CASE i # 1
      <3>1. t[i] = s[i - 1] /\ i - 1 < j - 1
        BY <1>1, <1>5, <2>3
      <3>2. i - 1 \in DOMAIN s /\ j - 1 \in DOMAIN s
        BY <1>3, <2>1, <2>3
      <3> QED
        BY <2>1, <3>1, <3>2 DEF Ascending
    <2> QED
      BY <2>2, <2>3
  <1>6. Ascending(t)
    BY <1>5 DEF Ascending
  <1> QED
    BY <1>4, <1>6

(* Every finite set of numbers can be put in order: there is no smallest   *)
(* one that cannot.                                                        *)
LEMMA SortedExists ==
  ASSUME NEW S, S \subseteq Nat, IsFiniteSet(S)
  PROVE  \E s \in [1..Cardinality(S) -> S] : Ascending(s)
  <1> DEFINE Can(T) == \E s \in [1..Cardinality(T) -> T] : Ascending(s)
             Bad == {n \in Nat : \E T \in SUBSET Nat : /\ IsFiniteSet(T) /\ Cardinality(T) = n
                                                       /\ ~Can(T)}
  <1>1. SUFFICES ASSUME ~Can(S) PROVE FALSE
    OBVIOUS
  <1>2. Bad # {}
    <2>1. Cardinality(S) \in Bad
      BY <1>1, FS_CardinalityType
    <2> QED
      BY <2>1
  <1>3. PICK n \in Bad : \A m \in Bad : n <= m
    BY <1>2, LeastOf
  <1>4. PICK T \in SUBSET Nat : IsFiniteSet(T) /\ Cardinality(T) = n /\ ~Can(T)
    OBVIOUS
  <1>5. CASE T = {}
    <2>1. Cardinality(T) = 0
      BY <1>5, FS_EmptySet
    <2>2. [i \in 1..0 |-> 0] \in [1..Cardinality(T) -> T] /\ Ascending([i \in 1..0 |-> 0])
      BY <2>1 DEF Ascending
    <2> QED
      BY <1>4, <2>2
  <1>6. CASE T # {}
    <2>1. PICK x \in T : \A y \in T : x <= y
      BY <1>4, <1>6, LeastOf
    <2>2. IsFiniteSet(T \ {x}) /\ Cardinality(T \ {x}) = n - 1 /\ Cardinality(T \ {x}) \in Nat
      BY <1>4, <2>1, FS_RemoveElement, FS_CardinalityType
    <2>3. n - 1 \notin Bad
      <3>1. n \in Nat /\ n - 1 \in Nat
        BY <2>2
      <3> QED
        BY <1>3, <3>1
    <2>4. Can(T \ {x})
      BY <2>2, <2>3
    <2>5. Can(T)
      BY <1>4, <2>1, <2>4, SortedWithLeast
    <2> QED
      BY <1>4, <2>5
  <1> QED
    BY <1>5, <1>6

(* Sorted is such an order.                                                *)
LEMMA SortedOrders ==
  ASSUME NEW S, S \subseteq Nat, IsFiniteSet(S)
  PROVE  /\ Sorted(S) \in [1..Cardinality(S) -> S] /\ Ascending(Sorted(S))
         /\ Cardinality(S) \in Nat
  <1>1. \E s \in [1..Cardinality(S) -> S] : Ascending(s)
    BY SortedExists
  <1>2. Sorted(S) = CHOOSE s \in [1..Cardinality(S) -> S] : Ascending(s)
    BY DEF Sorted, Ascending
  <1> QED
    BY <1>1, <1>2, FS_CardinalityType
-----------------------------------------------------------------------------
(* Names in their buffers.                                                 *)

NameChar == Letter \cup {SPACE}

(* The strings; the provers need to be told of those that are written out. *)
Char == STRING \cup {NL, NUL, SPACE, ":"} \cup HexDigit

(* What a name may be.                                                     *)
Writable(word) ==
  word \in Seq(Char) /\ Len(word) < NameBuffer /\ \A i \in DOMAIN word : word[i] \in NameChar

(* The texts and sizes of the constants.                                   *)
LEMMA Sizes ==
  /\ NameBuffer \in Nat /\ NameBuffer > 0 /\ UuidLength \in Nat
  /\ NL \notin NameChar /\ NUL \notin NameChar /\ NL \in Char /\ NUL \in Char
  /\ Word \subseteq Seq(Char) /\ Encoded \subseteq Seq(Char)
  /\ Address \subseteq Seq(Char) /\ ServerInfo \subseteq Seq(Char)
  <1>1. /\ NameBuffer \in Nat /\ NameBuffer > 0 /\ UuidLength \in Nat
        /\ Letter \cap {NL, NUL, SPACE} = {}
        /\ Word \cup Encoded \cup Address \cup ServerInfo \subseteq Seq(STRING)
    BY ConstantsAssumption
  <1>2. NL # SPACE /\ NUL # SPACE
    BY DEF NL, NUL, SPACE
  <1>3. \A text \in Seq(STRING) : text \in Seq(Char)
    BY SeqMonotonic DEF Char
  <1>4. NL \in Char /\ NUL \in Char
    BY DEF Char
  <1>5. NL \notin NameChar /\ NUL \notin NameChar
    BY <1>1, <1>2 DEF NameChar
  <1> QED
    BY <1>1, <1>3, <1>4, <1>5

(* A string ends before its first NUL.                                     *)
LEMMA CStringEnds ==
  ASSUME NEW s, NEW n \in 1..Len(s), Len(s) \in Nat,
         s[n] = NUL, \A i \in 1..n - 1 : s[i] # NUL
  PROVE  CString(s) = SubSeq(s, 1, n - 1)
  <1> DEFINE I == {i \in 1..Len(s) : s[i] = NUL}
             end == IF I # {} THEN Min(I) ELSE 0
  <1>1. CString(s) = IF end = 0 THEN s \o <<"behind">> ELSE SubSeq(s, 1, end - 1)
    BY DEF CString, SelectInSeq
  <1>2. n \in I /\ I \subseteq Nat /\ \A i \in I : n <= i
    OBVIOUS
  <1> HIDE DEF I
  <1>3. \A i \in I : (\A j \in I : i <= j) => i = n
    BY <1>2
  <1>5. Min(I) = n
    BY <1>2, <1>3 DEF Min
  <1>4. end = n /\ n # 0
    BY <1>2, <1>5
  <1> HIDE DEF end
  <1> QED
    BY <1>1, <1>4

(* A name in a buffer that holds nothing else is read as it was written,   *)
(* and was acceptable.                                                     *)
LEMMA NameIsRead ==
  ASSUME NEW word, Writable(word)
  PROVE  /\ CString(NameOf(EmptyName, word).data) = word
         /\ NameAccepted(EmptyName, word)
  <1> DEFINE data == NameOf(EmptyName, word).data
             n == Len(word) + 1
  <1>1. Len(word) \in Nat /\ DOMAIN word = 1..Len(word) /\ n <= NameBuffer /\ n \in 1..NameBuffer
    BY Sizes DEF Writable
  <1>2. data = [i \in 1..NameBuffer |-> IF i <= Len(word) THEN word[i] ELSE NUL]
    BY <1>1, Sizes DEF NameOf, EmptyName
  <1>3. data \in [1..NameBuffer -> Char]
    <2>1. \A i \in 1..NameBuffer : i <= Len(word) => word[i] \in Char
      BY <1>1, Sizes DEF Writable
    <2> QED
      BY <1>2, <2>1, Sizes
  <1>4. data \in Seq(Char) /\ Len(data) = NameBuffer
    BY <1>3, Sizes, IsASeq, LenProperties
  <1>5. \A i \in 1..n - 1 : data[i] = word[i] /\ data[i] # NUL
    BY <1>1, <1>2, Sizes DEF Writable
  <1>6. data[n] = NUL
    BY <1>1, <1>2
  <1> HIDE DEF data
  <1>7. CString(data) = SubSeq(data, 1, n - 1)
    BY <1>1, <1>4, <1>5, <1>6, CStringEnds, Sizes
  <1>8. /\ SubSeq(data, 1, Len(word)) \in Seq(Char)
        /\ Len(SubSeq(data, 1, Len(word))) = Len(word)
        /\ \A i \in 1..Len(word) : SubSeq(data, 1, Len(word))[i] = data[i]
    BY <1>1, <1>4, Sizes, SubSeqProperties
  <1>9. SubSeq(data, 1, Len(word)) = word
    <2>1. word \in Seq(Char)
      BY DEF Writable
    <2> QED
      BY <1>1, <1>5, <1>8, <2>1, SeqEqual
  <1>10. NameAccepted(EmptyName, word)
    BY <1>1, Sizes DEF NameAccepted, NameTooLong, EmptyName, Writable, NameChar
  <1> QED
    BY <1>1, <1>7, <1>9, <1>10 DEF data
-----------------------------------------------------------------------------
(* Identifiers in hexadecimal.                                             *)

(* A digit is read as the value it was written for.                        *)
LEMMA DigitValue ==
  ASSUME NEW d \in 0..15
  PROVE  Value(DIGITS[d + 1]) = d /\ DIGITS[d + 1] \in HexDigit
  <1>1. \A i, j \in 1..16 : DIGITS[i] = DIGITS[j] => i = j
    BY DEF DIGITS
  <1>2. d + 1 \in 1..16
    OBVIOUS
  <1>3. DIGITS[d + 1] \in HexDigit
    BY <1>2 DEF HexDigit
  <1>4. \A i \in 1..16 : DIGITS[i] = DIGITS[d + 1] <=> i = d + 1
    BY <1>1, <1>2
  <1>5. \A i \in 1..16, j \in 1..6 : DIGITS[i] # CAPITALS[j]
    BY DEF DIGITS, CAPITALS
  <1>6. DIGITS[d + 1] \notin Capital
    BY <1>2, <1>5 DEF Capital
  <1>7. PICK i \in 1..16 : Value(DIGITS[d + 1]) = i - 1 /\ DIGITS[i] = DIGITS[d + 1]
    BY <1>2, <1>6 DEF Value
  <1> QED
    BY <1>3, <1>4, <1>7

(* The value of a digit.                                                   *)
LEMMA ValueOfDigit ==
  ASSUME NEW c \in HexDigit
  PROVE  Value(c) \in 0..15
  <1>1. CASE c \in Capital
    <2>1. \E d \in 1..6 : CAPITALS[d] = c
      BY <1>1 DEF Capital
    <2>2. (CHOOSE d \in 1..6 : CAPITALS[d] = c) \in 1..6
      BY <2>1
    <2>3. PICK e \in 1..6 : Value(c) = e + 9
      BY <1>1, <2>2 DEF Value
    <2> QED
      BY <2>3
  <1>2. CASE c \notin Capital
    <2>1. \E d \in 1..16 : DIGITS[d] = c
      BY <1>2 DEF HexDigit
    <2>2. (CHOOSE d \in 1..16 : DIGITS[d] = c) \in 1..16
      BY <2>1
    <2> QED
      BY <1>2, <2>2 DEF Value
  <1> QED
    BY <1>1, <1>2

(* What is read for an identifier is one.                                  *)
LEMMA FromFileIsUuid ==
  ASSUME NEW text, UuidAccepted(EmptyUuid, text), Len(text) \in Nat, DOMAIN text = 1..Len(text)
  PROVE  FromFile(text).data \in [1..UuidLength -> 0..255] /\ FromFile(text).isInit = TRUE
  <1>1. ASSUME NEW i \in 1..UuidLength
        PROVE  16 * Value(text[2 * i - 1]) + Value(text[2 * i]) \in 0..255
    <2>1. 2 * i - 1 \in DOMAIN text /\ 2 * i \in DOMAIN text
      BY Sizes DEF UuidAccepted
    <2>2. Value(text[2 * i - 1]) \in 0..15 /\ Value(text[2 * i]) \in 0..15
      BY <2>1, ValueOfDigit DEF UuidAccepted
    <2>3. \A a, b \in 0..15 : 16 * a + b \in 0..255
      OBVIOUS
    <2> QED
      BY <2>2, <2>3
  <1> QED
    BY <1>1 DEF FromFile, UuidOf

(* An identifier is written with two digits for every byte, and read back. *)
LEMMA UuidIsRead ==
  ASSUME NEW bytes \in [1..UuidLength -> 0..255]
  PROVE  /\ ToFile(bytes) \in Seq(Char) /\ NL \notin {ToFile(bytes)[i] : i \in DOMAIN ToFile(bytes)}
         /\ UuidAccepted(EmptyUuid, ToFile(bytes))
         /\ FromFile(ToFile(bytes)) = UuidOf(bytes)
  <1> DEFINE text == ToFile(bytes)
  <1>1. UuidLength \in Nat /\ 2 * UuidLength \in Nat
    BY Sizes
  <1>2. ASSUME NEW i \in 1..UuidLength
        PROVE  /\ text[2 * i - 1] = DIGITS[1 + (bytes[i] \div 16)]
               /\ text[2 * i] = DIGITS[1 + (bytes[i] % 16)]
    <2>1. 2 * i - 1 \in 1..2 * UuidLength /\ 2 * i \in 1..2 * UuidLength
      BY <1>1
    <2>2. (2 * i - 1) % 2 = 1 /\ ((2 * i - 1) + 1) \div 2 = i
      BY <1>1
    <2>3. (2 * i) % 2 = 0 /\ (2 * i + 1) \div 2 = i
      BY <1>1
    <2>4. \A j \in 1..2 * UuidLength :
            text[j] = DIGITS[1 + (IF j % 2 = 1 THEN bytes[(j + 1) \div 2] \div 16
                                  ELSE bytes[(j + 1) \div 2] % 16)]
      BY DEF ToFile
    <2> HIDE DEF text
    <2>5. text[2 * i - 1] = DIGITS[1 + (bytes[i] \div 16)]
      BY <2>1, <2>2, <2>4
    <2>6. text[2 * i] = DIGITS[1 + (bytes[i] % 16)]
      BY <2>1, <2>3, <2>4
    <2> QED
      BY <2>5, <2>6
  <1>3. ASSUME NEW i \in 1..2 * UuidLength
        PROVE  text[i] \in HexDigit
    <2>1. (i + 1) \div 2 \in 1..UuidLength
      BY <1>1
    <2>2. bytes[(i + 1) \div 2] \in 0..255
      BY <2>1
    <2>3. ASSUME NEW b \in 0..255
          PROVE  b \div 16 \in 0..15 /\ b % 16 \in 0..15
      OBVIOUS
    <2>4. bytes[(i + 1) \div 2] \div 16 \in 0..15 /\ bytes[(i + 1) \div 2] % 16 \in 0..15
      BY <2>2, <2>3
    <2>5. \A d \in 0..15 : DIGITS[1 + d] \in HexDigit
      BY DigitValue
    <2> QED
      BY <2>4, <2>5 DEF ToFile
  <1>4. Len(text) = 2 * UuidLength /\ DOMAIN text = 1..2 * UuidLength
    BY <1>1 DEF ToFile
  <1>5. text \in [1..2 * UuidLength -> HexDigit]
    BY <1>3 DEF ToFile
  <1>6. text \in Seq(Char)
    BY <1>1, <1>5, IsASeq DEF Char
  <1>7. UuidAccepted(EmptyUuid, text)
    BY <1>3, <1>4 DEF UuidAccepted, EmptyUuid
  <1>8. ASSUME NEW i \in 1..UuidLength
        PROVE  16 * Value(text[2 * i - 1]) + Value(text[2 * i]) = bytes[i]
    <2>1. bytes[i] \in 0..255
      OBVIOUS
    <2>2. ASSUME NEW b \in 0..255
          PROVE  /\ b \div 16 \in 0..15 /\ b % 16 \in 0..15
                 /\ 16 * (b \div 16) + (b % 16) = b
      OBVIOUS
    <2>3. \A d \in 0..15 : Value(DIGITS[1 + d]) = d
      BY SMTT(30), DigitValue
    <2>4. bytes[i] \div 16 \in 0..15 /\ bytes[i] % 16 \in 0..15
      BY <2>1, <2>2
    <2>5. 16 * (bytes[i] \div 16) + (bytes[i] % 16) = bytes[i]
      BY <2>1, <2>2
    <2>6. /\ Value(text[2 * i - 1]) = bytes[i] \div 16
          /\ Value(text[2 * i]) = bytes[i] % 16
      BY SMTT(30), <1>2, <2>3, <2>4
    <2> QED
      BY <2>5, <2>6
  <1>9. FromFile(text) = UuidOf(bytes)
    BY <1>8 DEF FromFile, UuidOf
  <1>10. NL \notin HexDigit
    BY DEF NL, HexDigit, Capital, DIGITS, CAPITALS
  <1> QED
    BY <1>3, <1>4, <1>6, <1>7, <1>9, <1>10
-----------------------------------------------------------------------------
(* Files line by line.                                                     *)

OneLine(text) == text \in Seq(Char) /\ \A i \in DOMAIN text : text[i] # NL

(* A key is written in one line, and no other key is read from it.         *)
LEMMA KeyIsRead ==
  ASSUME NEW k \in Encoded
  PROVE  OneLine(KeyLine(k)) /\ KeyLine(k) # <<>> /\ KeyRead(KeyLine(k)) = {k}
  <1> DEFINE kept == {i \in DOMAIN k : k[i] # NL}
             order == Sorted(kept)
  <1>1. k \in Seq(Char) /\ DOMAIN k = 1..Len(k) /\ Len(k) \in Nat
    BY Sizes, LenProperties
  <1>2. IsFiniteSet(kept) /\ kept \subseteq Nat
    <2>1. IsFiniteSet(1..Len(k))
      BY <1>1, FS_Interval
    <2>2. kept \in SUBSET (1..Len(k))
      BY <1>1
    <2> QED
      BY <1>1, <2>1, <2>2, FS_Subset
  <1>3. Cardinality(kept) \in Nat /\ order \in [1..Cardinality(kept) -> kept]
    BY <1>2, SortedOrders
  <1>4. KeyLine(k) = [j \in 1..Cardinality(kept) |-> k[order[j]]]
    BY <1>3 DEF KeyLine
  <1>5. ASSUME NEW j \in 1..Cardinality(kept)
        PROVE  k[order[j]] \in Char /\ k[order[j]] # NL
    <2>1. order[j] \in kept
      BY <1>3
    <2> QED
      BY <1>1, <2>1, ElementOfSeq
  <1>6. KeyLine(k) \in Seq(Char)
    <2>1. [j \in 1..Cardinality(kept) |-> k[order[j]]] \in [1..Cardinality(kept) -> Char]
      BY <1>5
    <2> QED
      BY <1>3, <1>4, <2>1, SeqDef
  <1>7. OneLine(KeyLine(k))
    BY <1>4, <1>5, <1>6 DEF OneLine
  <1> QED
    BY <1>7, KeysAssumption DEF KeyRead

(* Where lines end.                                                        *)
LineEnds(text) ==
  {i \in DOMAIN text : text[i] = NL}
  \cup (IF text # <<>> /\ Last(text) # NL THEN {Len(text) + 1} ELSE {})

(* The l-th line is what is between the l-th end and the one before it.    *)
LinesAreBetween(text, ends) ==
  /\ Sorted(ends) \in [1..Cardinality(ends) -> ends] /\ Ascending(Sorted(ends))
  /\ Len(Lines(text)) = Cardinality(ends)
  /\ \A l \in 1..Cardinality(ends), b \in ends \cup {0} :
       b < Sorted(ends)[l] /\ (\A e \in ends : e < Sorted(ends)[l] => e <= b) =>
         Lines(text)[l] = SubSeq(text, b + 1, Sorted(ends)[l] - 1)

(* So Lines reads them.                                                    *)
LEMMA LinesBetween ==
  ASSUME NEW text, LineEnds(text) \subseteq Nat, IsFiniteSet(LineEnds(text))
  PROVE  LinesAreBetween(text, LineEnds(text))
  <1> DEFINE ends == LineEnds(text)
  <1> DEFINE sorted == Sorted(ends)
             starts(i) == {j + 1 : j \in {k \in ends : k < i}} \cup {1}
             begin(i) == CHOOSE j \in starts(i) : \A k \in starts(i) : k <= j
             n == Cardinality(ends)
  <1>1. sorted \in [1..n -> ends] /\ Ascending(sorted) /\ n \in Nat
    BY SortedOrders
  <1>2. Lines(text) = [l \in DOMAIN sorted |-> SubSeq(text, begin(sorted[l]), sorted[l] - 1)]
    BY DEF Lines, LineEnds
  <1> HIDE DEF n
  <1>3. ASSUME NEW i \in ends, NEW b \in ends \cup {0}, b < i, \A e \in ends : e < i => e <= b
        PROVE  begin(i) = b + 1
    <2>1. b + 1 \in starts(i) /\ \A k \in starts(i) : k <= b + 1 /\ k \in Nat
      BY <1>3
    <2>2. \A j \in starts(i) : (\A k \in starts(i) : k <= j) => j = b + 1
      <3> HIDE DEF starts
      <3>1. b + 1 \in Nat
        OBVIOUS
      <3> QED
        BY <2>1, <3>1
    <2> HIDE DEF starts
    <2> QED
      BY <2>1, <2>2
  <1> HIDE DEF sorted, begin, starts
  <1>4. ASSUME NEW l \in 1..n, NEW b \in ends \cup {0}, b < sorted[l],
               \A e \in ends : e < sorted[l] => e <= b
        PROVE  Lines(text)[l] = SubSeq(text, b + 1, sorted[l] - 1)
    <2>1. sorted[l] \in ends
      BY <1>1
    <2>2. begin(sorted[l]) = b + 1
      BY <1>3, <1>4, <2>1
    <2> QED
      BY <1>1, <1>2, <2>2
  <1>5. Len(Lines(text)) = n
    <2>1. Lines(text) = [l \in 1..n |-> SubSeq(text, begin(sorted[l]), sorted[l] - 1)]
      BY <1>1, <1>2
    <2> QED
      BY <1>1, <2>1
  <1> QED
    BY <1>1, <1>4, <1>5 DEF sorted, n, LinesAreBetween

(* A text without a newline is one line.                                   *)
LEMMA OneLineIsRead ==
  ASSUME NEW text, OneLine(text), text # <<>>
  PROVE  Len(Lines(text)) = 1 /\ Lines(text)[1] = text
  <1>1. text \in Seq(Char) /\ DOMAIN text = 1..Len(text) /\ Len(text) \in Nat /\ Len(text) > 0
    BY LenProperties, EmptySeq DEF OneLine
  <1> DEFINE ends == {Len(text) + 1}
  <1>2. ends = LineEnds(text)
    BY <1>1 DEF OneLine, Last, LineEnds
  <1>3. IsFiniteSet(ends) /\ Cardinality(ends) = 1
    BY FS_Singleton
  <1>4. ends \subseteq Nat
    BY <1>1
  <1>5. Len(text) + 1 \in ends /\ \A e \in ends : e = Len(text) + 1
    OBVIOUS
  <1> HIDE DEF ends
  <1>6. LinesAreBetween(text, ends)
    BY <1>2, <1>3, <1>4, LinesBetween
  <1> USE DEF LinesAreBetween
  <1>7. Sorted(ends)[1] = Len(text) + 1
    BY <1>3, <1>5, <1>6
  <1>8. 0 < Sorted(ends)[1] /\ \A e \in ends : ~(e < Sorted(ends)[1])
    BY <1>1, <1>5, <1>7
  <1>9. Lines(text)[1] = SubSeq(text, 0 + 1, Sorted(ends)[1] - 1)
    BY <1>3, <1>6, <1>8
  <1>10. Lines(text)[1] = SubSeq(text, 1, Len(text))
    BY <1>1, <1>7, <1>9
  <1> QED
    BY <1>1, <1>3, <1>6, <1>10, SubSeqFull

(* A text behind a text.                                                   *)
LEMMA Joined ==
  ASSUME NEW s \in Seq(Char), NEW t \in Seq(Char)
  PROVE  /\ s \o t \in Seq(Char) /\ Len(s \o t) = Len(s) + Len(t)
         /\ \A i \in 1..Len(s) : (s \o t)[i] = s[i]
         /\ \A i \in 1..Len(t) : (s \o t)[Len(s) + i] = t[i]
  <1>1. s \o t \in Seq(Char) /\ Len(s \o t) = Len(s) + Len(t)
    OBVIOUS
  <1>2. \A i \in 1..Len(s) : (s \o t)[i] = s[i]
    OBVIOUS
  <1>3. \A i \in 1..Len(t) : (s \o t)[Len(s) + i] = t[i]
    OBVIOUS
  <1> QED
    BY <1>1, <1>2, <1>3

(* A newline behind a text.                                                *)
LEMMA NewlineBehind ==
  ASSUME NEW s \in Seq(Char), NEW t \in Seq(Char), Len(t) = 1, t[1] = NL
  PROVE  /\ s \o t \in Seq(Char) /\ Len(s \o t) = Len(s) + 1
         /\ \A i \in 1..Len(s) : (s \o t)[i] = s[i]
         /\ (s \o t)[Len(s) + 1] = NL
  <1>1. 1 \in 1..Len(t)
    OBVIOUS
  <1>2. (s \o t)[Len(s) + 1] = t[1]
    BY <1>1, Joined
  <1> QED
    BY <1>2, Joined

ThreeLines(a, b, c) == a \o <<NL>> \o b \o <<NL>> \o c

(* What stands where in three lines.                                       *)
AreThreeLines(text, a, b, c) ==
  /\ text \in Seq(Char) /\ Len(text) = Len(a) + Len(b) + Len(c) + 2
  /\ \A i \in 1..Len(a) : text[i] = a[i]
  /\ text[Len(a) + 1] = NL
  /\ \A i \in 1..Len(b) : text[Len(a) + 1 + i] = b[i]
  /\ text[Len(a) + Len(b) + 2] = NL
  /\ \A i \in 1..Len(c) : text[Len(a) + Len(b) + 2 + i] = c[i]

(* That is how they are put together.                                      *)
LEMMA ThreeLineText ==
  ASSUME NEW a \in Seq(Char), NEW b \in Seq(Char), NEW c \in Seq(Char)
  PROVE  AreThreeLines(ThreeLines(a, b, c), a, b, c)
  <1> DEFINE text == ThreeLines(a, b, c)
             nl == <<NL>>
             ab == a \o nl
             b2 == ab \o b
             bc == b2 \o nl
  <1>1. nl \in Seq(Char) /\ Len(nl) = 1 /\ nl[1] = NL
    BY Sizes
  <1>2. Len(a) \in Nat /\ Len(b) \in Nat /\ Len(c) \in Nat
    BY LenProperties
  <1>3. text = bc \o c
    BY DEF ThreeLines
  <1> HIDE DEF text
  <1> HIDE DEF nl
  <1>4. /\ ab \in Seq(Char) /\ Len(ab) = Len(a) + 1
        /\ \A i \in 1..Len(a) : ab[i] = a[i]
        /\ ab[Len(a) + 1] = NL
    BY <1>1, NewlineBehind
  <1> HIDE DEF ab
  <1>5. /\ b2 \in Seq(Char) /\ Len(b2) = Len(ab) + Len(b)
        /\ \A i \in 1..Len(ab) : b2[i] = ab[i]
        /\ \A i \in 1..Len(b) : b2[Len(ab) + i] = b[i]
    BY <1>4, Joined
  <1> HIDE DEF b2
  <1>6. /\ bc \in Seq(Char) /\ Len(bc) = Len(b2) + 1
        /\ \A i \in 1..Len(b2) : bc[i] = b2[i]
        /\ bc[Len(b2) + 1] = NL
    BY <1>1, <1>5, NewlineBehind
  <1> HIDE DEF bc
  <1>7. /\ text \in Seq(Char) /\ Len(text) = Len(bc) + Len(c)
        /\ \A i \in 1..Len(bc) : text[i] = bc[i]
        /\ \A i \in 1..Len(c) : text[Len(bc) + i] = c[i]
    <2> DEFINE joined == bc \o c
    <2>1. /\ joined \in Seq(Char) /\ Len(joined) = Len(bc) + Len(c)
          /\ \A i \in 1..Len(bc) : joined[i] = bc[i]
          /\ \A i \in 1..Len(c) : joined[Len(bc) + i] = c[i]
      BY <1>6, Joined
    <2>2. text = joined
      BY <1>3
    <2> HIDE DEF joined
    <2> QED
      BY <2>1, <2>2
  <1>l. Len(ab) = Len(a) + 1 /\ Len(b2) = Len(a) + 1 + Len(b) /\ Len(bc) = Len(a) + Len(b) + 2
    BY <1>2, <1>4, <1>5, <1>6
  <1>8. ASSUME NEW i \in 1..Len(a) PROVE text[i] = a[i]
    <2>1. i \in 1..Len(ab) /\ i \in 1..Len(b2) /\ i \in 1..Len(bc)
      BY <1>2, <1>l
    <2> QED
      BY <2>1, <1>4, <1>5, <1>6, <1>7
  <1>9. text[Len(a) + 1] = NL
    <2>1. Len(a) + 1 \in 1..Len(ab) /\ Len(a) + 1 \in 1..Len(b2) /\ Len(a) + 1 \in 1..Len(bc)
      BY <1>2, <1>l
    <2> QED
      BY <2>1, <1>4, <1>5, <1>6, <1>7
  <1>10. ASSUME NEW i \in 1..Len(b) PROVE text[Len(a) + 1 + i] = b[i]
    <2>1. Len(a) + 1 + i \in 1..Len(b2) /\ Len(a) + 1 + i \in 1..Len(bc)
      BY <1>2, <1>l
    <2>2. b2[Len(a) + 1 + i] = b[i]
      BY <1>5, <1>l
    <2> QED
      BY <2>1, <2>2, <1>6, <1>7
  <1>11. text[Len(a) + Len(b) + 2] = NL
    BY <1>2, <1>6, <1>7, <1>l
  <1>12. ASSUME NEW i \in 1..Len(c) PROVE text[Len(a) + Len(b) + 2 + i] = c[i]
    BY <1>7, <1>l
  <1>13. Len(text) = Len(a) + Len(b) + Len(c) + 2
    BY <1>2, <1>7, <1>l
  <1> QED
    BY <1>7, <1>8, <1>9, <1>10, <1>11, <1>12, <1>13 DEF AreThreeLines, text

(* A part of a text, by its characters.                                    *)
LEMMA PartOfText ==
  ASSUME NEW text \in Seq(Char), NEW part \in Seq(Char), NEW n \in Nat,
         n + Len(part) <= Len(text),
         \A i \in 1..Len(part) : text[n + i] = part[i]
  PROVE  SubSeq(text, n + 1, n + Len(part)) = part
  <1>1. Len(part) \in Nat /\ Len(text) \in Nat
    BY LenProperties
  <1> DEFINE sub == SubSeq(text, n + 1, n + Len(part))
  <1>2. /\ sub \in Seq(Char)
        /\ Len(sub) = Len(part)
        /\ \A i \in 1..Len(part) : sub[i] = text[n + i]
    OBVIOUS
  <1> QED
    BY <1>1, <1>2, SeqEqual

(* Three lines are read as what was written.                               *)
LEMMA ThreeLinesAreRead ==
  ASSUME NEW a, OneLine(a), NEW b, OneLine(b), NEW c, OneLine(c), c # <<>>
  PROVE  LET lines == Lines(ThreeLines(a, b, c))
         IN  Len(lines) = 3 /\ lines[1] = a /\ lines[2] = b /\ lines[3] = c
  <1> DEFINE text == ThreeLines(a, b, c)
             e1 == Len(a) + 1
             e2 == Len(a) + Len(b) + 2
             e3 == Len(text) + 1
             ends == LineEnds(text)
  <1>1. /\ a \in Seq(Char) /\ Len(a) \in Nat /\ DOMAIN a = 1..Len(a)
        /\ b \in Seq(Char) /\ Len(b) \in Nat /\ DOMAIN b = 1..Len(b)
        /\ c \in Seq(Char) /\ Len(c) \in Nat /\ DOMAIN c = 1..Len(c) /\ Len(c) > 0
    BY LenProperties, EmptySeq DEF OneLine
  <1>2. /\ text \in Seq(Char) /\ Len(text) = Len(a) + Len(b) + Len(c) + 2
        /\ \A i \in 1..Len(a) : text[i] = a[i]
        /\ text[Len(a) + 1] = NL
        /\ \A i \in 1..Len(b) : text[Len(a) + 1 + i] = b[i]
        /\ text[Len(a) + Len(b) + 2] = NL
        /\ \A i \in 1..Len(c) : text[Len(a) + Len(b) + 2 + i] = c[i]
    BY ZenonT(60), <1>1, ThreeLineText DEF AreThreeLines
  <1> HIDE DEF text
  <1>3. DOMAIN text = 1..Len(text) /\ Len(text) \in Nat /\ text # <<>>
    BY <1>1, <1>2, LenProperties, EmptySeq
  <1>4. e1 \in Nat /\ e2 \in Nat /\ e3 \in Nat /\ 0 < e1 /\ e1 < e2 /\ e2 < e3
    BY <1>1, <1>2
  <1>5. ASSUME NEW i \in 1..Len(text), text[i] = NL
        PROVE  i = e1 \/ i = e2
    <2>1. ~(i <= Len(a))
      <3>1. SUFFICES ASSUME i \in 1..Len(a) PROVE FALSE
        BY <1>1
      <3> QED
        BY <1>1, <1>2, <1>5, <3>1 DEF OneLine
    <2>2. ~(e1 < i /\ i <= Len(a) + 1 + Len(b))
      <3>1. SUFFICES ASSUME i - e1 \in 1..Len(b) PROVE FALSE
        BY <1>1
      <3>2. text[Len(a) + 1 + (i - e1)] = b[i - e1]
        BY <1>2, <3>1
      <3>3. Len(a) + 1 + (i - e1) = i
        BY <1>1
      <3> QED
        BY <1>1, <1>5, <3>1, <3>2, <3>3 DEF OneLine
    <2>3. ~(e2 < i /\ i <= Len(a) + Len(b) + 2 + Len(c))
      <3>1. SUFFICES ASSUME i - e2 \in 1..Len(c) PROVE FALSE
        BY <1>1
      <3>2. text[Len(a) + Len(b) + 2 + (i - e2)] = c[i - e2]
        BY <1>2, <3>1
      <3>3. Len(a) + Len(b) + 2 + (i - e2) = i
        BY <1>1
      <3> QED
        BY <1>1, <1>5, <3>1, <3>2, <3>3 DEF OneLine
    <2>4. i \in Nat /\ i >= 1 /\ i <= Len(a) + Len(b) + Len(c) + 2
      BY <1>2, <1>3
    <2> QED
      BY SMTT(30), <1>1, <2>1, <2>2, <2>3, <2>4
  <1>6. Last(text) # NL
    <2>1. Len(text) \in 1..Len(text) /\ Len(text) # e1 /\ Len(text) # e2
      BY <1>1, <1>2
    <2> QED
      BY <1>5, <2>1 DEF Last
  <1>7. LineEnds(text) = {e1, e2, e3}
    <2>1. e1 \in 1..Len(text) /\ e2 \in 1..Len(text) /\ text[e1] = NL /\ text[e2] = NL
      BY <1>1, <1>2
    <2>2. {i \in DOMAIN text : text[i] = NL} = {e1, e2}
      BY <1>3, <1>5, <2>1
    <2> QED
      BY <1>3, <1>6, <2>2 DEF LineEnds
  <1> HIDE DEF e1, e2, e3
  <1>8. IsFiniteSet({e1, e2, e3}) /\ Cardinality({e1, e2, e3}) = 3
    <2>1. IsFiniteSet({e1}) /\ Cardinality({e1}) = 1
      BY FS_Singleton
    <2>2. e1 # e2 /\ e1 # e3 /\ e2 # e3
      BY <1>4
    <2>a. e2 \notin {e1} /\ e3 \notin {e1} \cup {e2}
      BY <2>2
    <2>3. IsFiniteSet({e1} \cup {e2}) /\ Cardinality({e1} \cup {e2}) = 2
      <3>1. Cardinality({e1} \cup {e2}) = Cardinality({e1}) + 1
        BY <2>1, <2>a, FS_AddElement
      <3>2. IsFiniteSet({e1} \cup {e2})
        BY <2>1, FS_AddElement
      <3> QED
        BY <2>1, <3>1, <3>2
    <2> DEFINE two == {e1} \cup {e2}
    <2> HIDE DEF two
    <2>4. IsFiniteSet(two \cup {e3}) /\ Cardinality(two \cup {e3}) = 3
      <3>1. IsFiniteSet(two) /\ Cardinality(two) = 2 /\ e3 \notin two
        BY <2>3, <2>a DEF two
      <3>2. Cardinality(two \cup {e3}) = Cardinality(two) + 1
        BY <3>1, FS_AddElement
      <3>3. IsFiniteSet(two \cup {e3})
        BY <3>1, FS_AddElement
      <3> QED
        BY <3>1, <3>2, <3>3
    <2>5. two \cup {e3} = {e1, e2, e3}
      BY DEF two
    <2> QED
      BY <2>4, <2>5
  <1>9. LinesAreBetween(text, {e1, e2, e3})
    BY <1>4, <1>7, <1>8, LinesBetween
  <1> DEFINE ends3 == {e1, e2, e3}
             s == Sorted(ends3)
  <1>10. /\ s \in [1..3 -> ends3] /\ \A i, j \in 1..3 : i < j => s[i] < s[j]
         /\ Len(Lines(text)) = 3
    BY <1>8, <1>9 DEF LinesAreBetween, Ascending
  <1>b. \A l \in 1..3, n \in ends3 \cup {0} :
          n < s[l] /\ (\A e \in ends3 : e < s[l] => e <= n) =>
            Lines(text)[l] = SubSeq(text, n + 1, s[l] - 1)
    BY <1>8, <1>9 DEF LinesAreBetween
  <1> HIDE DEF s
  <1>11. s[1] = e1 /\ s[2] = e2 /\ s[3] = e3
    <2>1. s[1] < s[2] /\ s[2] < s[3]
      BY <1>10
    <2>2. s[1] \in {e1, e2, e3} /\ s[2] \in {e1, e2, e3} /\ s[3] \in {e1, e2, e3}
      BY <1>10
    <2> QED
      BY <1>4, <2>1, <2>2
  <1>12. Lines(text)[1] = a
    <2>1. Lines(text)[1] = SubSeq(text, 0 + 1, e1 - 1)
      BY <1>4, <1>11, <1>b
    <2>2. e1 - 1 = 0 + Len(a)
      BY <1>1 DEF e1
    <2> QED
      BY <1>1, <1>2, <2>1, <2>2, PartOfText
  <1>13. Lines(text)[2] = b
    <2>1. Lines(text)[2] = SubSeq(text, e1 + 1, e2 - 1)
      BY <1>4, <1>11, <1>b
    <2>2. e2 - 1 = e1 + Len(b) /\ e1 + Len(b) <= Len(text)
      BY <1>1, <1>2 DEF e1, e2
    <2>3. \A i \in 1..Len(b) : text[e1 + i] = b[i]
      BY <1>2 DEF e1
    <2> QED
      BY SMTT(30), <1>1, <1>2, <1>4, <2>1, <2>2, <2>3, PartOfText
  <1>14. Lines(text)[3] = c
    <2>1. Lines(text)[3] = SubSeq(text, e2 + 1, e3 - 1)
      BY <1>4, <1>11, <1>b
    <2>2. e3 - 1 = e2 + Len(c) /\ e2 + Len(c) <= Len(text)
      BY <1>1, <1>2 DEF e2, e3
    <2>3. \A i \in 1..Len(c) : text[e2 + i] = c[i]
      BY <1>2 DEF e2
    <2> QED
      BY SMTT(30), <1>1, <1>2, <1>4, <2>1, <2>2, <2>3, PartOfText
  <1> QED
    BY <1>10, <1>12, <1>13, <1>14 DEF text
-----------------------------------------------------------------------------
(* me.info and server.info                                                 *)

(* me.info is read as the identity that it was written from.               *)
LEMMA MeInfoIsRead ==
  ASSUME NEW word, Writable(word), NEW bytes \in Uuid, NEW k \in Encoded
  PROVE  /\ MeInfo(NameOf(EmptyName, word), bytes, k) # <<>>
         /\ ParseMeInfo(MeInfo(NameOf(EmptyName, word), bytes, k)) =
              {[name |-> NameOf(EmptyName, word), uuid |-> UuidOf(bytes), key |-> k]}
  <1> DEFINE text == MeInfo(NameOf(EmptyName, word), bytes, k)
             hex == ToFile(bytes)
  <1>1. CString(NameOf(EmptyName, word).data) = word /\ NameAccepted(EmptyName, word)
    BY NameIsRead
  <1>2. OneLine(word)
    BY Sizes DEF Writable, OneLine
  <1>3. bytes \in [1..UuidLength -> 0..255]
    BY ConstantsAssumption
  <1>4. OneLine(hex) /\ UuidAccepted(EmptyUuid, hex) /\ FromFile(hex) = UuidOf(bytes)
    BY <1>3, UuidIsRead DEF OneLine
  <1>5. OneLine(KeyLine(k)) /\ KeyLine(k) # <<>> /\ KeyRead(KeyLine(k)) = {k}
    BY KeyIsRead
  <1>6. text = ThreeLines(word, hex, KeyLine(k))
    BY <1>1 DEF MeInfo, ThreeLines
  <1> HIDE DEF text, hex
  <1>7. /\ Len(Lines(text)) = 3 /\ Lines(text)[1] = word /\ Lines(text)[2] = hex
        /\ Lines(text)[3] = KeyLine(k)
    BY <1>2, <1>4, <1>5, <1>6, ThreeLinesAreRead
  <1>8. ParseMeInfo(text) =
          {[name |-> NameOf(EmptyName, word), uuid |-> UuidOf(bytes), key |-> k]}
    BY <1>1, <1>4, <1>5, <1>7 DEF ParseMeInfo
  <1>9. text # <<>>
    <2>1. text \in Seq(Char) /\ Len(text) = Len(word) + Len(hex) + Len(KeyLine(k)) + 2
      BY <1>2, <1>4, <1>5, <1>6, ThreeLineText DEF OneLine, AreThreeLines
    <2>2. Len(word) \in Nat /\ Len(hex) \in Nat /\ Len(KeyLine(k)) \in Nat
      BY <1>2, <1>4, <1>5, LenProperties DEF OneLine
    <2>3. Len(text) # 0
      BY <2>1, <2>2
    <2> QED
      BY <2>3, EmptySeq
  <1> QED
    BY <1>8, <1>9 DEF text

(* An identity is initialised as a whole.                                  *)
LEMMA IdentityIsWhole ==
  ASSUME NEW word, Writable(word), NEW bytes \in Uuid, NEW k \in Encoded
  PROVE  /\ NameOf(EmptyName, word).isInit = TRUE
         /\ DOMAIN NameOf(EmptyName, word).data = 1..NameBuffer
         /\ UuidOf(bytes).isInit = TRUE /\ UuidOf(bytes).data = bytes
         /\ bytes \in [1..UuidLength -> 0..255]
         /\ k # <<>>
  <1>1. bytes \in [1..UuidLength -> 0..255]
    BY ConstantsAssumption
  <1>2. k # <<>>
    <2>1. SUFFICES ASSUME k = <<>> PROVE KeyLine(k) = <<>>
      BY KeysAssumption
    <2>2. {i \in DOMAIN k : k[i] # NL} = {}
      BY <2>1
    <2>3. Sorted({}) \in [1..0 -> {}]
      BY SortedOrders, FS_EmptySet
    <2>4. DOMAIN Sorted({}) = 1..0
      BY <2>3
    <2>5. KeyLine(k) = [j \in 1..0 |-> k[Sorted({})[j]]]
      BY <2>2, <2>4 DEF KeyLine
    <2>6. OneLine(KeyLine(k)) /\ Len(KeyLine(k)) = 0
      BY <2>5, KeyIsRead
    <2> QED
      BY <2>6, EmptySeq DEF OneLine
  <1> QED
    BY <1>1, <1>2 DEF NameOf, UuidOf

(* A number is read in one way.                                            *)
LEMMA StoiIsOne ==
  ASSUME NEW text, NEW p \in Stoi(text)
  PROVE  Stoi(text) = {p}
  BY DEF Stoi

(* Nothing is no number.                                                   *)
LEMMA StoiOfNothing == Stoi(<<>>) = {}
  <1>1. {i \in 1..Len(<<>>) : <<>>[i] \notin Digit} = {}
    OBVIOUS
  <1>2. SelectInSeq(<<>>, LAMBDA c : c \notin Digit) = 0
    BY <1>1 DEF SelectInSeq
  <1>3. {i \in 1..Len(<<>>) : <<>>[i] # SPACE} = {}
    OBVIOUS
  <1>4. SelectInSeq(<<>>, LAMBDA c : c # SPACE) = 0
    BY <1>3 DEF SelectInSeq
  <1>5. Unindented(<<>>) = <<>>
    BY <1>4 DEF Unindented
  <1> QED
    BY <1>2, <1>5 DEF Stoi

(* What stands where in an address and a port.                             *)
IsAddressText(text, ip, word) ==
  /\ text \in Seq(Char) /\ Len(text) = Len(ip) + 1 + Len(word)
  /\ \A i \in 1..Len(ip) : text[i] = ip[i]
  /\ text[Len(ip) + 1] = ":"
  /\ \A i \in 1..Len(word) : text[Len(ip) + 1 + i] = word[i]

(* That is how server.info is written.                                     *)
LEMMA AddressTexts ==
  ASSUME NEW ip \in Seq(Char), NEW word \in Seq(Char)
  PROVE  IsAddressText(ip \o <<":">> \o word, ip, word)
  <1> DEFINE mark == <<":">>
             front == ip \o mark
             joined == front \o word
  <1>1. mark \in Seq(Char) /\ Len(mark) = 1 /\ mark[1] = ":"
    BY DEF Char
  <1>2. Len(ip) \in Nat /\ Len(word) \in Nat
    BY LenProperties
  <1> HIDE DEF mark
  <1>3. /\ front \in Seq(Char) /\ Len(front) = Len(ip) + Len(mark)
        /\ \A i \in 1..Len(ip) : front[i] = ip[i]
        /\ \A i \in 1..Len(mark) : front[Len(ip) + i] = mark[i]
    BY <1>1, Joined
  <1> HIDE DEF front
  <1>4. /\ joined \in Seq(Char) /\ Len(joined) = Len(front) + Len(word)
        /\ \A i \in 1..Len(front) : joined[i] = front[i]
        /\ \A i \in 1..Len(word) : joined[Len(front) + i] = word[i]
    BY <1>3, Joined
  <1> HIDE DEF joined
  <1>5. Len(front) = Len(ip) + 1 /\ 1 \in 1..Len(mark) /\ Len(ip) + 1 \in 1..Len(front)
    BY <1>1, <1>2, <1>3
  <1>6. front[Len(ip) + 1] = ":"
    BY <1>1, <1>3, <1>5
  <1>7. \A i \in 1..Len(ip) : i \in 1..Len(front)
    BY <1>2, <1>5
  <1>8. IsAddressText(joined, ip, word)
    BY <1>2, <1>3, <1>4, <1>5, <1>6, <1>7 DEF IsAddressText
  <1> QED
    BY <1>8 DEF joined, front, mark

(* The limits on server.info and on the port.                              *)
LEMMA Limits ==
  /\ MAX_PORT_VALUE \in Nat
  /\ \A p \in 1..MAX_PORT_VALUE : PortInRange(p)
  /\ \A n \in 7..15, m \in 1..5 :
       n + 1 + m \in MIN_PORT + MIN_IP + 1 .. MAX_PORT + MAX_IP + 1
  <1>a. MAX_PORT_VALUE \in Nat
    BY SMT DEF MAX_PORT_VALUE
  <1>1. \A p \in 1..MAX_PORT_VALUE : PortInRange(p)
    BY <1>a DEF PortInRange
  <1>2. MIN_PORT + MIN_IP + 1 = 9 /\ MAX_PORT + MAX_IP + 1 = 21
    BY DEF MIN_PORT, MIN_IP, MAX_PORT, MAX_IP
  <1>3. \A n \in 7..15, m \in 1..5 : n + 1 + m \in 9..21
    OBVIOUS
  <1> QED
    BY <1>a, <1>1, <1>2, <1>3

(* An address and a port that the server reads are read as they are.       *)
LEMMA AddressIsRead ==
  ASSUME NEW text, NEW ip \in Address, NEW word \in Seq(Char), IsAddressText(text, ip, word),
         Len(word) <= MAX_PORT, NEW p \in ServerPort(word)
  PROVE  ParseServerInfo(text) = {[ip |-> ip, port |-> p]}
  <1>1. /\ p \in Stoi(word) /\ p \in 1..MAX_PORT_VALUE
        /\ \A i \in DOMAIN word : word[i] \in Digit
    BY DEF ServerPort
  <1>2. /\ ip \in Seq(Char) /\ Len(ip) \in MIN_IP..MAX_IP /\ DOMAIN ip = 1..Len(ip)
        /\ \A i \in DOMAIN ip : ip[i] # ":" /\ ip[i] # NL
    BY Sizes, AddressAssumption, LenProperties
  <1>3. text \in Seq(Char) /\ Len(text) \in Nat /\ DOMAIN text = 1..Len(text)
    BY LenProperties DEF IsAddressText
  <1>4. word \in Seq(Char) /\ Len(word) \in Nat /\ DOMAIN word = 1..Len(word)
    BY LenProperties
  <1>5. Len(word) >= 1
    <2>1. SUFFICES ASSUME Len(word) = 0 PROVE FALSE
      BY <1>4
    <2>2. word = <<>>
      BY <1>4, <2>1, EmptySeq
    <2> QED
      BY <1>1, <2>2, StoiOfNothing
  <1> DEFINE n == Len(ip)
  <1>7. /\ Len(text) = n + 1 + Len(word)
        /\ \A i \in 1..n : text[i] = ip[i]
        /\ text[n + 1] = ":"
        /\ \A i \in 1..Len(word) : text[n + 1 + i] = word[i]
    BY DEF IsAddressText
  <1>8. n \in 7..15 /\ Len(word) \in 1..5
    <2>1. n \in 7..15
      BY <1>2 DEF MIN_IP, MAX_IP
    <2>2. Len(word) <= 5
      BY DEF MAX_PORT
    <2> QED
      BY <1>4, <1>5, <2>1, <2>2
  <1>9. ":" # NL /\ NL \notin Digit /\ ":" \notin Digit
    BY DEF NL, Digit, DIGITS
  <1>10. OneLine(text) /\ text # <<>>
    <2>1. ASSUME NEW i \in 1..Len(text) PROVE text[i] # NL
      <3>1. CASE i \in 1..n
        BY <1>2, <1>7, <3>1
      <3>2. CASE i = n + 1
        BY <1>7, <1>9, <3>2
      <3>3. CASE i - (n + 1) \in 1..Len(word)
        <4>1. text[n + 1 + (i - (n + 1))] = word[i - (n + 1)]
          BY <1>7, <3>3
        <4>2. n + 1 + (i - (n + 1)) = i
          BY <1>8
        <4> QED
          BY <1>1, <1>4, <1>9, <3>3, <4>1, <4>2
      <3> QED
        BY <1>7, <1>8, <3>1, <3>2, <3>3
    <2>2. Len(text) # 0
      BY <1>7, <1>8
    <2> QED
      BY <1>3, <2>1, <2>2, EmptySeq DEF OneLine
  <1>11. Lines(text)[1] = text /\ Len(Lines(text)) = 1
    BY <1>10, OneLineIsRead
  <1> DEFINE I == {i \in 1..Len(text) : text[i] = ":"}
             colon == IF I # {} THEN Min(I) ELSE 0
  <1>12. colon = n + 1
    <2>1. ASSUME NEW i \in I PROVE n + 1 <= i
      <3>1. i \notin 1..n
        BY <1>2, <1>7
      <3> QED
        BY <1>3, <1>8, <3>1
    <2>2. n + 1 \in I /\ I \subseteq Nat
      BY <1>3, <1>7, <1>8
    <2>3. \A i \in I : (\A j \in I : i <= j) => i = n + 1
      BY <2>1, <2>2
    <2> HIDE DEF I
    <2> QED
      BY <2>1, <2>2, <2>3 DEF Min
  <1>13. SelectInSeq(text, LAMBDA c : c = ":") = colon
    BY DEF SelectInSeq
  <1> HIDE DEF I, colon
  <1>14. SubSeq(text, 1, n + 1 - 1) = ip
    <2>1. SubSeq(text, 0 + 1, 0 + Len(ip)) = ip
      <3>1. 0 + Len(ip) <= Len(text) /\ \A i \in 1..Len(ip) : text[0 + i] = ip[i]
        BY <1>7, <1>8
      <3> QED
        BY <1>2, <3>1, PartOfText
    <2>2. n + 1 - 1 = 0 + Len(ip) /\ 0 + 1 = 1
      BY <1>8
    <2> QED
      BY <2>1, <2>2
  <1>15. SubSeq(text, n + 1 + 1, Len(text)) = word
    <2>1. n + 1 \in Nat /\ n + 1 + Len(word) = Len(text)
      BY <1>7, <1>8
    <2>2. SubSeq(text, n + 1 + 1, n + 1 + Len(word)) = word
      BY <1>3, <1>7, <2>1, PartOfText
    <2> QED
      BY <2>1, <2>2
  <1>16. GetFileSize(text) \in MIN_PORT + MIN_IP + 1 .. MAX_PORT + MAX_IP + 1
    BY <1>7, <1>8, Limits DEF GetFileSize
  <1>17. Lines(text) # <<>>
    BY <1>11
  <1>18. {q \in Stoi(word) : PortInRange(q)} = {p}
    <2>1. Stoi(word) = {p}
      BY <1>1, StoiIsOne
    <2>2. PortInRange(p)
      BY <1>1, Limits
    <2> QED
      BY <2>1, <2>2
  <1> DEFINE cut == SelectInSeq(Lines(text)[1], LAMBDA c : c = ":")
  <1>19. cut = n + 1
    BY <1>11, <1>12, <1>13
  <1>20. ParseServerInfo(text) =
           IF /\ IsFileExists(text)
              /\ GetFileSize(text) \in MIN_PORT + MIN_IP + 1 .. MAX_PORT + MAX_IP + 1
              /\ Lines(text) # <<>>
              /\ cut # 0 /\ Len(Lines(text)[1]) >= GetFileSize(text)
              /\ SubSeq(Lines(text)[1], 1, cut - 1) \in Address
           THEN {[ip |-> SubSeq(Lines(text)[1], 1, cut - 1), port |-> q] :
                   q \in {r \in Stoi(SubSeq(Lines(text)[1], cut + 1, Len(Lines(text)[1]))) :
                            PortInRange(r)}}
           ELSE {}
    BY DEF ParseServerInfo
  <1> HIDE DEF cut
  <1>21. /\ IsFileExists(text) /\ cut # 0 /\ Len(Lines(text)[1]) >= GetFileSize(text)
         /\ SubSeq(Lines(text)[1], 1, cut - 1) = ip
         /\ SubSeq(Lines(text)[1], cut + 1, Len(Lines(text)[1])) = word
    BY <1>3, <1>8, <1>10, <1>11, <1>14, <1>15, <1>19 DEF IsFileExists, GetFileSize
  <1>22. ParseServerInfo(text) = {[ip |-> ip, port |-> q] : q \in {r \in Stoi(word) : PortInRange(r)}}
    BY <1>16, <1>17, <1>20, <1>21
  <1> QED
    BY <1>18, <1>22
-----------------------------------------------------------------------------
(* The inductive invariant.                                                *)

(* A client that is not registered holds nothing of an attempt.            *)
BlankInv ==
  /\ process # "menu" => ~isInit
  /\ ~isInit => name = EmptyName /\ uuid = EmptyUuid

(* The field that was sent is that of a buffer with no other name in it.   *)
SentInv == Writable(sent.name) /\ sent.field = NameOf(EmptyName, sent.name).data

(* me.info is what was written for the identity, and a registered client   *)
(* has it.                                                                 *)
MineInv ==
  /\ meInfo # <<>> =>
       /\ Writable(mine.name) /\ mine.uuid \in Uuid /\ mine.key \in Encoded
       /\ meInfo = MeInfo(NameOf(EmptyName, mine.name), mine.uuid, mine.key)
  /\ isInit =>
       /\ meInfo # <<>>
       /\ name = NameOf(EmptyName, mine.name) /\ uuid = UuidOf(mine.uuid) /\ key = mine.key

(* The last server.info is why the client failed, or where its address is  *)
(* from.                                                                   *)
InfoInv ==
  /\ process = "menu" => address \in ParseServerInfo(info)
  /\ process = "failed" => ParseServerInfo(info) = {}

FInv == TypeOK /\ BlankInv /\ SentInv /\ MineInv /\ InfoInv

(* A file that does not exist has no lines.                                *)
LEMMA NothingToRead == Len(Lines(<<>>)) = 0
  <1>1. LineEnds(<<>>) = {}
    BY DEF LineEnds
  <1>2. IsFiniteSet(LineEnds(<<>>)) /\ LineEnds(<<>>) \subseteq Nat
        /\ Cardinality(LineEnds(<<>>)) = 0
    BY <1>1, FS_EmptySet
  <1>3. LinesAreBetween(<<>>, LineEnds(<<>>))
    BY <1>2, LinesBetween
  <1> QED
    BY <1>2, <1>3 DEF LinesAreBetween

(* A part of a text is a text.                                             *)
LEMMA PartIsText ==
  ASSUME NEW text \in Seq(Char), NEW ip \in Address
  PROVE  SubSeq(text, Len(ip) + 2, Len(text)) \in Seq(Char)
  <1>1. Len(ip) \in Nat /\ Len(text) \in Nat
    BY Sizes, LenProperties
  <1>2. \A i \in Len(ip) + 2 .. Len(text) : i \in 1..Len(text)
    BY <1>1
  <1>3. \A i \in Len(ip) + 2 .. Len(text) : text[i] \in Char
    BY <1>2, ElementOfSeq
  <1> QED
    BY <1>1, <1>3, SubSeqProperties

(* Addresses as they are read.                                             *)
LEMMA ParsedAddress ==
  ASSUME NEW text, NEW a \in ParseServerInfo(text)
  PROVE  a.ip \in Address /\ a.port \in 0..MAX_PORT_VALUE
  <1> DEFINE line == Lines(text)[1]
             colon == SelectInSeq(line, LAMBDA c : c = ":")
             ip == SubSeq(line, 1, colon - 1)
             ports == {q \in Stoi(SubSeq(line, colon + 1, Len(line))) : PortInRange(q)}
  <1>1. ip \in Address /\ a \in {[ip |-> ip, port |-> q] : q \in ports}
    BY DEF ParseServerInfo
  <1>2. \A q \in ports : q \in 0..MAX_PORT_VALUE
    BY DEF PortInRange
  <1> HIDE DEF ip, ports
  <1> QED
    BY <1>1, <1>2

(* A name that passes the check is one that can be written.                *)
LEMMA AcceptedIsWritable ==
  ASSUME NEW word \in Word, NameAccepted(EmptyName, word)
  PROVE  Writable(word)
  <1>1. word \in Seq(Char) /\ Len(word) \in Nat /\ NameBuffer \in Nat
    BY Sizes, LenProperties
  <1> QED
    BY <1>1 DEF NameAccepted, NameTooLong, Writable, NameChar

(* me.info, if there is one, is read as the identity of the client.        *)
LEMMA MineIsRead ==
  ASSUME MineInv, meInfo # <<>>
  PROVE  ParseMeInfo(meInfo) =
           {[name |-> NameOf(EmptyName, mine.name), uuid |-> UuidOf(mine.uuid), key |-> mine.key]}
  BY MeInfoIsRead DEF MineInv

(* Nothing has been asked for, written or read.                            *)
LEMMA FInit == Init => FInv
  <1> SUFFICES ASSUME Init PROVE FInv
    OBVIOUS
  <1> USE DEF Init
  <1>1. TypeOK
    <2>1. EmptyUuid.data \in [1..UuidLength -> 0..255] /\ EmptyUuid.isInit = FALSE
      BY DEF EmptyUuid
    <2>2. DOMAIN EmptyName.data = 1..NameBuffer /\ EmptyName.isInit = FALSE
      BY DEF EmptyName
    <2>3. 0 \in 0..MAX_PORT_VALUE
      BY Limits
    <2> QED
      BY <2>1, <2>2, <2>3 DEF TypeOK, NoAddress
  <1>2. BlankInv
    BY DEF BlankInv
  <1>3. SentInv
    <2>1. <<>> \in Seq(Char) /\ Len(<<>>) = 0 /\ DOMAIN <<>> = {}
      BY EmptySeq
    <2>2. Writable(<<>>)
      BY <2>1, Sizes DEF Writable
    <2>3. \A i \in 1..NameBuffer : ~(i <= 0)
      BY Sizes
    <2>4. NameOf(EmptyName, <<>>).data = EmptyName.data
      BY <2>1, <2>3 DEF NameOf, EmptyName
    <2> QED
      BY <2>2, <2>4 DEF SentInv
  <1>4. MineInv /\ InfoInv
    BY DEF MineInv, InfoInv
  <1> QED
    BY <1>1, <1>2, <1>3, <1>4 DEF FInv

(* A client that starts has read its address and its identity.             *)
LEMMA StartInv ==
  ASSUME FInv, NEW text \in ServerInfo, Start(text)
  PROVE  FInv'
  <1> USE DEF FInv
  <1>1. /\ process # "menu" /\ ~isInit /\ info' = text /\ meInfo' = meInfo
        /\ sent' = sent /\ mine' = mine
    BY DEF Start, BlankInv
  <1>2. SentInv'
    BY <1>1 DEF SentInv
  <1>3. CASE ~Starts(text) /\ process' = "failed" /\ UNCHANGED <<address, isInit, name, uuid, key>>
    <2>1. TypeOK'
      BY <1>1, <1>3 DEF TypeOK
    <2>2. BlankInv' /\ MineInv'
      BY <1>1, <1>3 DEF BlankInv, MineInv
    <2>3. ParseServerInfo(text) = {}
      BY <1>3, MineIsRead DEF Starts, IsFileExists
    <2> QED
      BY <1>1, <1>2, <1>3, <2>1, <2>2, <2>3 DEF InfoInv
  <1>4. CASE /\ address' \in ParseServerInfo(text) /\ ~IsFileExists(meInfo) /\ process' = "menu"
             /\ UNCHANGED <<isInit, name, uuid, key>>
    <2>1. address'.ip \in Address /\ address'.port \in 0..MAX_PORT_VALUE
      BY <1>4, ParsedAddress
    <2>2. TypeOK'
      BY <1>1, <1>4, <2>1 DEF TypeOK
    <2>3. BlankInv' /\ MineInv'
      BY <1>1, <1>4 DEF BlankInv, MineInv
    <2> QED
      BY <1>1, <1>2, <1>4, <2>2, <2>3 DEF InfoInv
  <1>5. CASE /\ address' \in ParseServerInfo(text)
             /\ \E read \in ParseMeInfo(meInfo) :
                  name' = read.name /\ uuid' = read.uuid /\ key' = read.key
             /\ isInit' = TRUE /\ process' = "menu"
    <2>1. meInfo # <<>>
      <3>1. Len(Lines(<<>>)) = 0
        BY NothingToRead
      <3> QED
        BY <1>5, <3>1 DEF ParseMeInfo
    <2>2. /\ name' = NameOf(EmptyName, mine.name) /\ uuid' = UuidOf(mine.uuid)
          /\ key' = mine.key
      BY <1>5, <2>1, MineIsRead
    <2>3. Writable(mine.name) /\ mine.uuid \in Uuid /\ mine.key \in Encoded
      BY <2>1 DEF MineInv
    <2>4. address'.ip \in Address /\ address'.port \in 0..MAX_PORT_VALUE
      BY <1>5, ParsedAddress
    <2>5. TypeOK'
      <3>1. /\ name'.isInit = TRUE /\ DOMAIN name'.data = 1..NameBuffer
            /\ uuid'.isInit = TRUE /\ uuid'.data \in [1..UuidLength -> 0..255]
            /\ key' \in Encoded /\ key' # <<>>
        <4>1. /\ NameOf(EmptyName, mine.name).isInit = TRUE
              /\ DOMAIN NameOf(EmptyName, mine.name).data = 1..NameBuffer
              /\ UuidOf(mine.uuid).isInit = TRUE /\ UuidOf(mine.uuid).data = mine.uuid
              /\ mine.uuid \in [1..UuidLength -> 0..255]
              /\ mine.key # <<>>
          BY ZenonT(60), <2>3, IdentityIsWhole
        <4> QED
          BY <2>2, <2>3, <4>1
      <3> QED
        BY <1>1, <1>5, <2>4, <3>1 DEF TypeOK
    <2>6. BlankInv' /\ MineInv'
      BY <1>1, <1>5, <2>1, <2>2, <2>3 DEF BlankInv, MineInv
    <2> QED
      BY <1>1, <1>2, <1>5, <2>5, <2>6 DEF InfoInv
  <1> QED
    BY <1>3, <1>4, <1>5 DEF Start

(* A name that is asked for is written into an empty buffer.               *)
LEMMA AsksInv ==
  ASSUME FInv, NEW word \in Word, Asks(word)
  PROVE  SentInv' /\ name = EmptyName /\ Writable(word) /\ process = "menu" /\ ~isInit
  <1>1. name = EmptyName /\ process = "menu" /\ ~isInit
    BY DEF FInv, BlankInv, Asks
  <1>2. Writable(word)
    BY <1>1, AcceptedIsWritable DEF Asks
  <1>3. sent'.name = word /\ sent'.field = NameOf(EmptyName, word).data
    BY <1>1 DEF Asks
  <1> QED
    BY <1>1, <1>2, <1>3 DEF SentInv

(* An attempt that fails leaves nothing but what was sent.                 *)
LEMMA RegisterFailsInv ==
  ASSUME FInv, NEW word \in Word, RegisterFails(word)
  PROVE  FInv'
  <1>1. SentInv' /\ name = EmptyName /\ process = "menu" /\ ~isInit
    BY AsksInv DEF RegisterFails
  <1>2. name' = name
    BY <1>1 DEF RegisterFails, Reset
  <1>3. UNCHANGED <<process, address, isInit, name, uuid, key, meInfo, info, mine>>
    BY <1>2 DEF RegisterFails
  <1> QED
    BY <1>1, <1>3 DEF FInv, TypeOK, BlankInv, MineInv, InfoInv

(* One that succeeds leaves the identity and its me.info.                  *)
LEMMA RegisterSucceedsInv ==
  ASSUME FInv, NEW word \in Word, NEW bytes \in Uuid, NEW k \in Encoded,
         RegisterSucceeds(word, bytes, k)
  PROVE  FInv'
  <1>1. SentInv' /\ name = EmptyName /\ Writable(word) /\ process = "menu" /\ ~isInit
    BY AsksInv DEF RegisterSucceeds
  <1>2. /\ name' = NameOf(EmptyName, word) /\ uuid' = UuidOf(bytes) /\ key' = k /\ isInit' = TRUE
        /\ meInfo' = MeInfo(NameOf(EmptyName, word), bytes, k)
        /\ mine'.name = word /\ mine'.uuid = bytes /\ mine'.key = k
        /\ UNCHANGED <<process, address, info>>
    BY <1>1 DEF RegisterSucceeds
  <1>3. meInfo' # <<>>
    BY <1>1, <1>2, MeInfoIsRead
  <1>4. /\ name'.isInit = TRUE /\ DOMAIN name'.data = 1..NameBuffer
        /\ uuid'.isInit = TRUE /\ uuid'.data \in [1..UuidLength -> 0..255]
        /\ key' \in Encoded /\ key' # <<>>
    <2>1. /\ NameOf(EmptyName, word).isInit = TRUE
          /\ DOMAIN NameOf(EmptyName, word).data = 1..NameBuffer
          /\ UuidOf(bytes).isInit = TRUE /\ UuidOf(bytes).data = bytes
          /\ bytes \in [1..UuidLength -> 0..255]
          /\ k # <<>>
      BY <1>1, IdentityIsWhole
    <2> QED
      BY <1>2, <2>1
  <1>5. TypeOK'
    BY <1>1, <1>2, <1>4 DEF FInv, TypeOK
  <1>6. BlankInv' /\ MineInv'
    BY <1>1, <1>2, <1>3 DEF BlankInv, MineInv
  <1>7. InfoInv'
    BY <1>2 DEF FInv, InfoInv
  <1> QED
    BY <1>1, <1>5, <1>6, <1>7 DEF FInv

(* A client that stops leaves its files.                                   *)
LEMMA StopInv ==
  ASSUME FInv, Stop
  PROVE  FInv'
  <1> USE DEF FInv, Stop
  <1>1. TypeOK'
    <2>1. EmptyUuid.data \in [1..UuidLength -> 0..255] /\ EmptyUuid.isInit = FALSE
      BY DEF EmptyUuid
    <2>2. DOMAIN EmptyName.data = 1..NameBuffer /\ EmptyName.isInit = FALSE
      BY DEF EmptyName
    <2>3. 0 \in 0..MAX_PORT_VALUE
      BY Limits
    <2> QED
      BY <2>1, <2>2, <2>3 DEF TypeOK, NoAddress
  <1>2. BlankInv' /\ SentInv' /\ MineInv' /\ InfoInv'
    BY DEF BlankInv, SentInv, MineInv, InfoInv
  <1> QED
    BY <1>1, <1>2

(* The invariant is one.                                                   *)
LEMMA FInvariance == Spec => []FInv
  <1>1. ASSUME FInv, [Next]_vars PROVE FInv'
    <2>1. CASE UNCHANGED vars
      BY <1>1, <2>1 DEF vars, FInv, TypeOK, BlankInv, SentInv, MineInv, InfoInv
    <2>2. CASE Next
      BY <1>1, <2>2, StartInv, RegisterFailsInv, RegisterSucceedsInv, StopInv DEF Next
    <2> QED
      BY <1>1, <2>1, <2>2
  <1> QED
    BY <1>1, FInit, PTL DEF Spec
-----------------------------------------------------------------------------
(* The properties.                                                         *)

(* An identity is initialised as a whole, in memory as after a restart,    *)
(* the port fits 16 bits and a client with a menu has an address.          *)
THEOREM FilesTypes == Spec => []TypeOK
  <1>1. FInv => TypeOK
    BY DEF FInv
  <1> QED
    BY <1>1, FInvariance, PTL

(* The field that HandleRegister sends depends on the name alone, whatever *)
(* names were tried before in the same run: no buffer keeps a rest.        *)
THEOREM FieldsAreNames == Spec => []FieldIsName
  <1>1. FInv => FieldIsName
    <2> SUFFICES ASSUME FInv PROVE FieldIsName
      OBVIOUS
    <2>1. sent.field = NameOf(EmptyName, sent.name).data /\ Len(sent.name) \in Nat
      BY LenProperties DEF FInv, SentInv, Writable
    <2>2. NameOf(EmptyName, sent.name).data =
            [i \in 1..NameBuffer |-> IF i <= Len(sent.name) THEN sent.name[i] ELSE NUL]
      BY Sizes, <2>1 DEF NameOf, EmptyName
    <2> QED
      BY <2>1, <2>2 DEF FieldIsName
  <1> QED
    BY <1>1, FInvariance, PTL

(* What a client makes of the field in a list (HandleList, Friend::Init,   *)
(* Friend::GetName) is the name that its owner typed.                      *)
THEOREM NamesReadBack == Spec => []NameReadBack
  <1>1. FInv => NameReadBack
    <2> SUFFICES ASSUME FInv PROVE NameReadBack
      OBVIOUS
    <2>1. sent.field = NameOf(EmptyName, sent.name).data /\ Writable(sent.name)
      BY DEF FInv, SentInv
    <2>2. CString(NameOf(EmptyName, sent.name).data) = sent.name
          /\ NameAccepted(EmptyName, sent.name)
      BY <2>1, NameIsRead
    <2> QED
      BY <2>1, <2>2 DEF NameReadBack, FriendName
  <1> QED
    BY <1>1, FInvariance, PTL

(* ParseMeInfo reads back from me.info the name, identifier and key that   *)
(* UpdateMeInfo wrote: the identity a client starts with is the one it     *)
(* registered.                                                             *)
THEOREM IdentitiesReadBack == Spec => []IdentityReadBack
  <1>1. FInv => IdentityReadBack
    <2> SUFFICES ASSUME FInv PROVE IdentityReadBack
      OBVIOUS
    <2>1. meInfo # <<>> =>
            ParseMeInfo(meInfo) =
              {[name |-> NameOf(EmptyName, mine.name), uuid |-> UuidOf(mine.uuid),
                key |-> mine.key]}
      BY MineIsRead DEF FInv
    <2>2. ASSUME isInit
          PROVE  CString(name.data) = mine.name /\ uuid.data = mine.uuid /\ key = mine.key
      <3>1. /\ name = NameOf(EmptyName, mine.name) /\ uuid = UuidOf(mine.uuid)
            /\ key = mine.key /\ Writable(mine.name)
        BY <2>2 DEF FInv, MineInv
      <3> QED
        BY <3>1, NameIsRead DEF UuidOf
    <2> QED
      BY <2>1, <2>2 DEF IdentityReadBack
  <1> QED
    BY <1>1, FInvariance, PTL

(* With a server.info that names an address and the server's port, Init of *)
(* the client neither fails nor reads another port.                        *)
THEOREM ServerUnderstood == Spec => []Understood
  <1>1. FInv => Understood
    <2> SUFFICES ASSUME FInv, NEW ip \in Address, NEW word,
                        word = SubSeq(info, Len(ip) + 2, Len(info)),
                        info = ip \o <<":">> \o word, Len(word) <= MAX_PORT, process # "down",
                        NEW p \in ServerPort(word)
                 PROVE  process = "menu" /\ address = [ip |-> ip, port |-> p]
      BY DEF Understood
    <2>0. info \in Seq(Char)
      BY Sizes, EmptySeq DEF FInv, TypeOK
    <2>1. word \in Seq(Char) /\ ip \in Seq(Char)
      BY <2>0, PartIsText, Sizes
    <2>2. IsAddressText(ip \o <<":">> \o word, ip, word)
      BY <2>1, AddressTexts
    <2>3. ParseServerInfo(info) = {[ip |-> ip, port |-> p]}
      BY <2>1, <2>2, AddressIsRead
    <2>4. process \in {"failed", "menu"}
      BY DEF FInv, TypeOK
    <2> QED
      BY <2>3, <2>4 DEF FInv, InfoInv
  <1> QED
    BY <1>1, FInvariance, PTL

=============================================================================
