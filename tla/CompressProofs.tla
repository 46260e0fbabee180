--------------------------- MODULE CompressProofs ---------------------------
(***************************************************************************)
(* Theorems about compress for every history and every limit.  The         *)
(* invariant that carries them relates the loop counter, the begin         *)
(* iterator and the length of the result to the arithmetic of the two      *)
(* passes: i chunks of a pass have moved begin by i times the chunk size.  *)
(***************************************************************************)
EXTENDS Compress, TLAPS

-----------------------------------------------------------------------------
(* The arithmetic of module Chunks for every number of readings n and      *)
(* every limit m: when the two passes of compress cover the input, and     *)
(* when they leave it.                                                     *)

(* Division with remainder, as SMT needs it.                               *)
LEMMA DivMod ==
  ASSUME NEW n \in Nat, NEW m \in Nat \ {0}
  PROVE  /\ n \div m \in Nat
         /\ n % m \in 0..(m - 1)
         /\ n = (m * (n \div m)) + (n % m)
BY SMTT(30)

(* The quotient is the only number with a remainder below the divisor.     *)
LEMMA DivUnique ==
  ASSUME NEW n \in Nat, NEW m \in Nat \ {0}, NEW q \in Nat, NEW r \in 0..(m - 1),
         n = (m * q) + r
  PROVE  n \div m = q
BY SMTT(30)

LEMMA ModSmall ==
  ASSUME NEW s \in Nat \ {0}, NEW x \in 0..(s - 1)
  PROVE  x % s = x
BY SMTT(30)

(* x chunks of size k and one more fit where y > x of them fit.            *)
LEMMA OneMoreFits ==
  ASSUME NEW x \in Nat, NEW y \in Nat, NEW k \in Nat, x < y
  PROVE  (x * k) + k <= y * k
<1>1. (x + 1) * k = (x * k) + k
  BY SMT
<1>2. PICK d \in Nat : y = (x + 1) + d
  <2>1. y - (x + 1) \in Nat /\ y = (x + 1) + (y - (x + 1))
    BY SMT
  <2> QED BY <2>1
<1>3. ((x + 1) + d) * k = ((x + 1) * k) + (d * k)
  BY SMT
<1>4. d * k \in Nat
  BY SMT
<1> QED BY <1>1, <1>2, <1>3, <1>4, SMT

(* When m does not divide n, the chunks of the first pass are one reading  *)
(* longer than those of the second, and there are n % m of them.           *)
LEMMA CeilOfFraction ==
  ASSUME NEW n \in Nat, NEW m \in Nat \ {0}, n % m # 0
  PROVE  ceil_chunk_size(n, m) = (n \div m) + 1
<1> DEFINE q == n \div m
           r == n % m
<1>1. q \in Nat /\ r \in 1..(m - 1) /\ n = (m * q) + r
  BY DivMod
<1>2. (n + m) - 1 = (m * (q + 1)) + (r - 1)
  <2>1. m * (q + 1) = (m * q) + m
    BY <1>1, SMT
  <2> QED BY <1>1, <2>1, SMT
<1>3. r - 1 \in 0..(m - 1) /\ q + 1 \in Nat /\ (n + m) - 1 \in Nat
  BY <1>1
<1>4. ((n + m) - 1) \div m = q + 1
  BY <1>2, <1>3, DivUnique
<1> QED BY <1>4 DEF ceil_chunk_size

(* When it does, all chunks have the same size.                            *)
LEMMA CeilOfWhole ==
  ASSUME NEW n \in Nat, NEW m \in Nat \ {0}, n % m = 0
  PROVE  ceil_chunk_size(n, m) = n \div m
<1> DEFINE q == n \div m
<1>1. q \in Nat /\ n = (m * q) + 0
  BY DivMod
<1>2. (n + m) - 1 = (m * q) + (m - 1)
  BY <1>1
<1>3. m - 1 \in 0..(m - 1) /\ (n + m) - 1 \in Nat
  BY SMT
<1>4. ((n + m) - 1) \div m = q
  BY <1>1, <1>2, <1>3, DivUnique
<1> QED BY <1>4 DEF ceil_chunk_size
-----------------------------------------------------------------------------
(* What the sizes of the two kinds of chunk have in common.                *)
LEMMA ChunkSizes ==
  ASSUME NEW n \in Nat, NEW m \in Nat \ {0}, n > m
  PROVE  /\ floor_chunk_sieze(n, m) \in Nat \ {0}
         /\ ceil_chunk_size(n, m) \in Nat \ {0}
         /\ ceil_ammount(n, m) \in Nat \ {0}
<1>1. n \div m \in Nat /\ n % m \in 0..(m - 1) /\ n = (m * (n \div m)) + (n % m)
  BY DivMod
<1>2. n \div m # 0
  <2> SUFFICES ASSUME n \div m = 0 PROVE FALSE
    OBVIOUS
  <2>1. m * 0 = 0
    BY SMT
  <2> QED BY <1>1, <2>1
<1>3. CASE n % m # 0
  <2>1. ceil_chunk_size(n, m) = (n \div m) + 1
    BY <1>3, CeilOfFraction
  <2>2. (n \div m) + 1 \in Nat \ {0} /\ n % m \in Nat
    BY <1>1
  <2> QED BY <1>1, <1>2, <1>3, <2>1, <2>2, Zenon
       DEF floor_chunk_sieze, ceil_ammount
<1>4. CASE n % m = 0
  <2>1. ceil_chunk_size(n, m) = n \div m
    BY <1>4, CeilOfWhole
  <2> QED BY <1>1, <1>2, <1>4, <2>1, Zenon
       DEF floor_chunk_sieze, ceil_ammount
<1> QED BY <1>3, <1>4

(* Unless the length overruns, the two passes make m chunks together and   *)
(* cover the n readings exactly.                                           *)
LEMMA PassesCover ==
  ASSUME NEW n \in Nat, NEW m \in Nat \ {0}, n > m, m < SizeMod,
         ~Overruns(n, m)
  PROVE  /\ ceil_ammount(n, m) <= m
         /\ floor_ammount(n, m) = m - ceil_ammount(n, m)
         /\ (ceil_ammount(n, m) * ceil_chunk_size(n, m))
              + (floor_ammount(n, m) * floor_chunk_sieze(n, m)) = n
<1> DEFINE q == n \div m
           r == n % m
           a == ceil_ammount(n, m)
<1>1. q \in Nat /\ r \in 0..(m - 1) /\ n = (m * q) + r
  BY DivMod
<1>2. a \in Nat \ {0}
  BY ChunkSizes
<1>3. a <= m => floor_ammount(n, m) = m - a
  <2> HAVE a <= m
  <2>1. SizeMod \in Nat \ {0} /\ m - a \in 0..(SizeMod - 1)
    BY <1>2, SizeModAssumption
  <2> QED BY <2>1, ModSmall DEF floor_ammount, MinusSizeT
<1>4. CASE r # 0
  <2>1. a = r /\ ceil_chunk_size(n, m) = q + 1
    BY <1>4, CeilOfFraction DEF ceil_ammount
  <2>2. (r * (q + 1)) + ((m - r) * q) = (m * q) + r
    BY <1>1, SMT
  <2> QED BY <1>1, <1>3, <2>1, <2>2 DEF floor_chunk_sieze
<1>5. CASE r = 0
  <2>1. a = q /\ ceil_chunk_size(n, m) = q
    BY <1>5, CeilOfWhole DEF ceil_ammount
  <2>2. q <= m
    BY <1>1, <1>5 DEF Overruns
  <2>3. (q * q) + ((m - q) * q) = m * q
    BY <1>1, SMT
  <2> QED BY <1>1, <1>3, <1>5, <2>1, <2>2, <2>3 DEF floor_chunk_sieze
<1> QED BY <1>4, <1>5

(* When it does, the first pass alone asks for more readings than there    *)
(* are.                                                                    *)
LEMMA PassOverruns ==
  ASSUME NEW n \in Nat, NEW m \in Nat \ {0}, n > m, Overruns(n, m)
  PROVE  ceil_ammount(n, m) * ceil_chunk_size(n, m) > n
<1> DEFINE q == n \div m
<1>1. q \in Nat /\ n = (m * q) + 0 /\ m < q
  BY DivMod DEF Overruns
<1>2. ceil_ammount(n, m) = q /\ ceil_chunk_size(n, m) = q
  BY CeilOfWhole DEF Overruns, ceil_ammount
<1>3. (m * q) + q <= q * q
  BY <1>1, OneMoreFits
<1>4. m * q \in Nat /\ q * q \in Nat
  BY <1>1, SMT
<1> QED BY <1>1, <1>2, <1>3, <1>4
-----------------------------------------------------------------------------
(* The invariant.                                                          *)

CeilChunkSize == ceil_chunk_size(Size, max_len)
CeilAmmount == ceil_ammount(Size, max_len)
FloorChunkSize == floor_chunk_sieze(Size, max_len)
FloorAmmount == floor_ammount(Size, max_len)

Arguments == Size > max_len /\ max_len < SizeMod

InCeilPass ==
  /\ i <= CeilAmmount
  /\ begin = i * CeilChunkSize
  /\ Len(out_vals) = i

InFloorPass ==
  /\ ~Overruns(Size, max_len)
  /\ i <= FloorAmmount
  /\ begin = (CeilAmmount * CeilChunkSize) + (i * FloorChunkSize)
  /\ Len(out_vals) = CeilAmmount + i

Position ==
  /\ pass \in {"reserve", "invalid"} => i = 0 /\ begin = 0 /\ out_vals = <<>>
  /\ pass = "ceil" => InCeilPass
  /\ pass \in {"floor", "done"} => InFloorPass
  /\ pass = "done" => i = FloorAmmount
  /\ pass = "overrun" => Overruns(Size, max_len)
  /\ begin <= Size

IInv == TypeOK /\ Arguments /\ Position /\ Tiled
-----------------------------------------------------------------------------
(* The sizes of a state are those the lemmas above speak of.               *)
LEMMA Sizes ==
  ASSUME TypeOK, Arguments
  PROVE  /\ Size \in Nat
         /\ max_len \in Nat \ {0}
         /\ CeilChunkSize \in Nat \ {0}
         /\ CeilAmmount \in Nat \ {0}
         /\ FloorChunkSize \in Nat \ {0}
         /\ FloorAmmount \in Nat
<1>1. Size \in Nat /\ max_len \in Nat \ {0} /\ Size > max_len
  BY DEF TypeOK, Arguments, Size
<1>2. FloorAmmount \in Nat
  <2>1. CeilAmmount \in Nat
    BY <1>1, ChunkSizes DEF CeilAmmount
  <2>2. \A x \in Int : x % SizeMod \in Nat
    BY SizeModAssumption, SMT
  <2> QED BY <1>1, <2>1, <2>2 DEF FloorAmmount, floor_ammount, MinusSizeT, CeilAmmount
<1> QED BY <1>1, <1>2, ChunkSizes DEF CeilChunkSize, CeilAmmount, FloorChunkSize

LEMMA InitIInv == Init => IInv
<1> SUFFICES ASSUME Init PROVE IInv
  OBVIOUS
<1> USE DEF Init
<1>1. in_vals \in Seq(Nat) /\ max_len \in Nat \ {0}
  BY CompressAssumption
<1>2. TypeOK
  BY <1>1 DEF TypeOK
<1>3. Arguments
  BY CompressAssumption DEF Arguments, Size
<1>4. Position
  BY <1>1 DEF Position, Size
<1>5. Tiled
  BY DEF Tiled
<1> QED BY <1>2, <1>3, <1>4, <1>5 DEF IInv
-----------------------------------------------------------------------------
(* One element is appended: what was there stays, and the type is kept.    *)
LEMMA AppendKeeps ==
  ASSUME NEW S, NEW s \in Seq(S), NEW e \in S
  PROVE  /\ Append(s, e) \in Seq(S)
         /\ Len(Append(s, e)) = Len(s) + 1
         /\ Len(s) \in Nat
         /\ \A k \in 1..Len(s) : Append(s, e)[k] = s[k]
         /\ Append(s, e)[Len(s) + 1] = e
         /\ DOMAIN s = 1..Len(s)
         /\ DOMAIN Append(s, e) = 1..(Len(s) + 1)
OBVIOUS

(* The pass that runs has a size and an amount.                            *)
LEMMA PassSizes ==
  ASSUME TypeOK, Arguments, pass \in Passes
  PROVE  ChunkSize \in Nat \ {0} /\ ChunkAmmont \in Nat
BY Sizes DEF ChunkSize, ChunkAmmont, Passes, CeilChunkSize, CeilAmmount,
             FloorChunkSize, FloorAmmount

(* A chunk that ends inside in_vals is a proper element of the result.     *)
LEMMA MeanType ==
  ASSUME TypeOK, NEW b \in Nat, NEW c \in Nat \ {0}, b + c <= Size
  PROVE  Mean(b, c) \in Chunk
<1>1. Size \in Nat /\ DOMAIN in_vals = 1..Size /\ in_vals \in Seq(Nat)
  BY DEF TypeOK, Size
<1>2. b + 1 \in 1..Size /\ b + c \in 1..Size
  BY <1>1
<1>3. (b + (c \div 2)) + 1 \in 1..Size
  <2>1. c \div 2 \in 0..(c - 1)
    BY SMT
  <2> QED BY <1>1, <2>1
<1>4. in_vals[(b + (c \div 2)) + 1] \in Nat
  BY <1>1, <1>3 DEF Size
<1> QED BY <1>2, <1>4 DEF Mean, Chunk

(* Nothing but the control moves: the sizes of the next state are the same.*)
LEMMA SameSizes ==
  ASSUME UNCHANGED <<in_vals, max_len>>
  PROVE  /\ Size' = Size /\ max_len' = max_len
         /\ Chunk' = Chunk
         /\ CeilChunkSize' = CeilChunkSize
         /\ CeilAmmount' = CeilAmmount
         /\ FloorChunkSize' = FloorChunkSize
         /\ FloorAmmount' = FloorAmmount
         /\ Arguments => Arguments'
BY DEF Size, Chunk, CeilChunkSize, CeilAmmount, FloorChunkSize,
       FloorAmmount, Arguments

(* One chunk of size c behind i others that start at offset x.             *)
LEMMA OneChunkFurther ==
  ASSUME NEW x \in Nat, NEW j \in Nat, NEW c \in Nat
  PROVE  (x + (j * c)) + c = x + ((j + 1) * c)
<1>1. j * c \in Nat /\ (j + 1) * c = (j * c) + c
  BY SMT
<1> QED BY <1>1

LEMMA EmitChunkStep == IInv /\ EmitChunk => IInv'
<1> SUFFICES ASSUME IInv, EmitChunk PROVE IInv'
  OBVIOUS
<1> DEFINE c == ChunkSize
           e == Mean(begin, c)
<1>1. /\ pass \in Passes /\ i < ChunkAmmont /\ begin + c <= Size
      /\ out_vals' = Append(out_vals, e)
      /\ i' = i + 1 /\ begin' = begin + c
      /\ in_vals' = in_vals /\ max_len' = max_len /\ pass' = pass
  BY DEF EmitChunk
<1>2. TypeOK /\ Arguments /\ Position /\ Tiled
  BY DEF IInv
<1>3. c \in Nat \ {0} /\ ChunkAmmont \in Nat /\ Size \in Nat
  BY <1>1, <1>2, PassSizes, Sizes
<1>4. begin \in Nat /\ i \in Nat /\ out_vals \in Seq(Chunk)
  BY <1>2 DEF TypeOK
<1>5. e \in Chunk
  BY <1>1, <1>2, <1>3, <1>4, MeanType
<1>6. /\ out_vals' \in Seq(Chunk)
      /\ Len(out_vals') = Len(out_vals) + 1
      /\ Len(out_vals) \in Nat
      /\ \A k \in 1..Len(out_vals) : out_vals'[k] = out_vals[k]
      /\ out_vals'[Len(out_vals) + 1] = e
      /\ DOMAIN out_vals = 1..Len(out_vals)
      /\ DOMAIN out_vals' = 1..(Len(out_vals) + 1)
  BY <1>1, <1>4, <1>5, AppendKeeps
<1>7. TypeOK'
  BY <1>1, <1>2, <1>3, <1>4, <1>6, SameSizes DEF TypeOK
<1>8. Arguments'
  BY <1>1, <1>2, SameSizes
<1>9. Position'
  <2>1. CASE pass = "ceil"
    <3>1. c = CeilChunkSize /\ ChunkAmmont = CeilAmmount
      BY <2>1 DEF ChunkSize, ChunkAmmont, CeilChunkSize, CeilAmmount
    <3>2. InCeilPass
      BY <1>2, <2>1 DEF Position
    <3>3. (i + 1) * c = (i * c) + c
      BY <1>3, <1>4, SMT
    <3>4. i + 1 <= CeilAmmount
      BY <1>1, <1>3, <1>4, <3>1
    <3>5. InCeilPass'
      BY <1>1, <1>6, <3>1, <3>2, <3>3, <3>4, SameSizes DEF InCeilPass
    <3> QED BY <1>1, <2>1, <3>5, SameSizes DEF Position
  <2>2. CASE pass = "floor"
    <3>1. c = FloorChunkSize /\ ChunkAmmont = FloorAmmount
      BY <2>2 DEF ChunkSize, ChunkAmmont, FloorChunkSize, FloorAmmount
    <3>2. InFloorPass
      BY <1>2, <2>2 DEF Position
    <3>3. i + 1 <= FloorAmmount
      BY <1>1, <1>3, <1>4, <3>1
    <3>4. CeilAmmount * CeilChunkSize \in Nat /\ CeilAmmount \in Nat
      BY <1>2, Sizes, SMT
    <3>5. ((CeilAmmount * CeilChunkSize) + (i * c)) + c
            = (CeilAmmount * CeilChunkSize) + ((i + 1) * c)
      BY <1>3, <1>4, <3>4, OneChunkFurther
    <3>6. ~Overruns(Size', max_len')
      BY <1>1, <3>2, SameSizes DEF InFloorPass
    <3>7. begin' = (CeilAmmount * CeilChunkSize) + ((i + 1) * FloorChunkSize)
      <4>1. begin = (CeilAmmount * CeilChunkSize) + (i * c)
        BY <3>1, <3>2, Zenon DEF InFloorPass
      <4>2. begin' = ((CeilAmmount * CeilChunkSize) + (i * c)) + c
        BY <1>1, <4>1, Zenon
      <4> HIDE DEF c
      <4> QED BY <3>1, <3>5, <4>2, Zenon
    <3>8. Len(out_vals') = CeilAmmount + (i + 1)
      BY <1>4, <1>6, <3>2, <3>4 DEF InFloorPass
    <3>9. InFloorPass'
      BY <1>1, <3>3, <3>6, <3>7, <3>8, SameSizes DEF InFloorPass
    <3> QED BY <1>1, <2>2, <3>9, SameSizes DEF Position
  <2> QED BY <1>1, <2>1, <2>2 DEF Passes
<1>10. Tiled'
  <2>1. e.from = begin + 1 /\ e.to = begin + c
    BY DEF Mean
  <2>2. Len(out_vals) = 0 => begin = 0
    BY <1>2, <1>6 DEF Tiled
  <2>3. Len(out_vals) # 0 => begin = out_vals[Len(out_vals)].to
    BY <1>2, <1>6 DEF Tiled
  <2>4. out_vals' # <<>> /\ begin' = out_vals'[Len(out_vals')].to
    BY <1>1, <1>6, <2>1
  <2>5. ASSUME NEW k \in DOMAIN out_vals'
        PROVE  /\ out_vals'[k].from = (IF k = 1 THEN 1 ELSE out_vals'[k - 1].to + 1)
               /\ out_vals'[k].from <= out_vals'[k].to
               /\ out_vals'[k].to <= Size'
    <3>1. CASE k \in 1..Len(out_vals)
      <4>1. k # 1 => k - 1 \in 1..Len(out_vals)
        BY <1>6, <3>1
      <4> QED BY <1>1, <1>2, <1>6, <3>1, <4>1, SameSizes DEF Tiled
    <3>2. CASE k = Len(out_vals) + 1
      <4>1. k # 1 => k - 1 = Len(out_vals) /\ Len(out_vals) \in 1..Len(out_vals)
        BY <1>6, <3>2
      <4>2. k = 1 => Len(out_vals) = 0
        BY <1>6, <3>2
      <4>3. out_vals'[k] = e
        BY <1>6, <3>2
      <4>4. out_vals'[k].from = (IF k = 1 THEN 1 ELSE out_vals'[k - 1].to + 1)
        BY <1>4, <1>6, <2>1, <2>2, <2>3, <4>1, <4>2, <4>3
      <4>5. e.from <= e.to /\ e.to <= Size'
        BY <1>1, <1>3, <1>4, <2>1, SameSizes
      <4> QED BY <4>3, <4>4, <4>5
    <3> QED BY <1>6, <2>5, <3>1, <3>2
  <2> QED BY <2>4, <2>5 DEF Tiled
<1> QED BY <1>7, <1>8, <1>9, <1>10 DEF IInv

LEMMA ReserveStep == IInv /\ Reserve => IInv'
<1> SUFFICES ASSUME IInv, Reserve PROVE IInv'
  OBVIOUS
<1>1. TypeOK /\ Arguments /\ Position /\ Tiled
  BY DEF IInv
<1>2. /\ pass = "reserve" /\ pass' \in {"invalid", "ceil"}
      /\ in_vals' = in_vals /\ max_len' = max_len /\ out_vals' = out_vals
      /\ i' = i /\ begin' = begin
  BY DEF Reserve
<1>3. i = 0 /\ begin = 0 /\ out_vals = <<>> /\ begin <= Size
  BY <1>1, <1>2 DEF Position
<1>4. TypeOK'
  BY <1>1, <1>2, SameSizes DEF TypeOK
<1>5. InCeilPass'
  <2>1. CeilAmmount \in Nat /\ 0 * CeilChunkSize = 0
    BY <1>1, Sizes, SMT
  <2>2. Len(out_vals') = 0
    BY <1>2, <1>3
  <2>3. 0 <= CeilAmmount
    BY <2>1
  <2> QED BY <1>2, <1>3, <2>1, <2>2, <2>3, SameSizes, Zenon DEF InCeilPass
<1>6. Position'
  BY <1>2, <1>3, <1>5, SameSizes DEF Position
<1>7. Tiled'
  BY <1>1, <1>2, SameSizes DEF Tiled
<1>8. Arguments'
  BY <1>1, <1>2, SameSizes
<1> QED BY <1>4, <1>6, <1>7, <1>8 DEF IInv

(* The iteration that leaves in_vals can only be one of a length that      *)
(* overruns: otherwise all chunks that remain fit.                         *)
LEMMA OverrunStep == IInv /\ Overrun => IInv'
<1> SUFFICES ASSUME IInv, Overrun PROVE IInv'
  OBVIOUS
<1>1. TypeOK /\ Arguments /\ Position /\ Tiled
  BY DEF IInv
<1>2. /\ pass \in Passes /\ i < ChunkAmmont /\ begin + ChunkSize > Size
      /\ pass' = "overrun"
      /\ in_vals' = in_vals /\ max_len' = max_len /\ out_vals' = out_vals
      /\ i' = i /\ begin' = begin
  BY DEF Overrun
<1>3. /\ Size \in Nat /\ max_len \in Nat \ {0} /\ Size > max_len /\ max_len < SizeMod
      /\ CeilChunkSize \in Nat /\ CeilAmmount \in Nat
      /\ FloorChunkSize \in Nat /\ FloorAmmount \in Nat /\ i \in Nat /\ begin \in Nat
  BY <1>1, Sizes DEF Arguments, TypeOK
<1>4. Overruns(Size, max_len)
  <2> SUFFICES ASSUME ~Overruns(Size, max_len) PROVE FALSE
    OBVIOUS
  <2> DEFINE x == CeilAmmount * CeilChunkSize
             y == FloorAmmount * FloorChunkSize
  <2>1. x + y = Size
    BY <1>3, PassesCover DEF CeilAmmount, CeilChunkSize, FloorAmmount, FloorChunkSize
  <2>2. x \in Nat /\ y \in Nat
    BY <1>3, SMT
  <2>3. CASE pass = "ceil"
    <3>1. ChunkSize = CeilChunkSize /\ ChunkAmmont = CeilAmmount
      BY <2>3 DEF ChunkSize, ChunkAmmont, CeilChunkSize, CeilAmmount
    <3>2. begin = i * CeilChunkSize
      BY <1>1, <2>3 DEF Position, InCeilPass
    <3>3. (i * CeilChunkSize) + CeilChunkSize <= x
      BY <1>2, <1>3, <3>1, OneMoreFits
    <3> HIDE DEF x, y
    <3>4. begin + CeilChunkSize <= x
      BY <3>2, <3>3, Zenon
    <3> QED BY <1>2, <1>3, <2>1, <2>2, <3>1, <3>4
  <2>4. CASE pass = "floor"
    <3>1. ChunkSize = FloorChunkSize /\ ChunkAmmont = FloorAmmount
      BY <2>4 DEF ChunkSize, ChunkAmmont, FloorChunkSize, FloorAmmount
    <3> DEFINE z == i * FloorChunkSize
    <3>2. begin = x + z
      BY <1>1, <2>4 DEF Position, InFloorPass
    <3>3. z + FloorChunkSize <= y /\ z \in Nat
      BY <1>2, <1>3, <3>1, OneMoreFits, SMT
    <3> HIDE DEF x, y, z
    <3> QED BY <1>2, <1>3, <2>1, <2>2, <3>1, <3>2, <3>3
  <2> QED BY <1>2, <2>3, <2>4 DEF Passes
<1>5. TypeOK'
  BY <1>1, <1>2, SameSizes DEF TypeOK
<1>6. Position'
  BY <1>1, <1>2, <1>4, SameSizes DEF Position
<1>7. Tiled' /\ Arguments'
  BY <1>1, <1>2, SameSizes DEF Tiled
<1> QED BY <1>5, <1>6, <1>7 DEF IInv

(* A first pass that ran to its end has shown that the length does not     *)
(* overrun: its chunks all lay inside in_vals.                             *)
LEMMA FloorPassStep == IInv /\ FloorPass => IInv'
<1> SUFFICES ASSUME IInv, FloorPass PROVE IInv'
  OBVIOUS
<1>1. TypeOK /\ Arguments /\ Position /\ Tiled
  BY DEF IInv
<1>2. /\ pass = "ceil" /\ i = CeilAmmount /\ pass' = "floor"
      /\ i' = 0 /\ begin' = CeilChunkSize * CeilAmmount
      /\ in_vals' = in_vals /\ max_len' = max_len /\ out_vals' = out_vals
  BY DEF FloorPass, ChunkAmmont, CeilAmmount, CeilChunkSize
<1>3. /\ Size \in Nat /\ max_len \in Nat \ {0} /\ Size > max_len
      /\ CeilChunkSize \in Nat /\ CeilAmmount \in Nat
      /\ FloorChunkSize \in Nat /\ FloorAmmount \in Nat
  BY <1>1, Sizes DEF Arguments
<1>4. begin = CeilAmmount * CeilChunkSize /\ begin <= Size /\ Len(out_vals) = CeilAmmount
  BY <1>1, <1>2 DEF Position, InCeilPass
<1>5. CeilChunkSize * CeilAmmount = CeilAmmount * CeilChunkSize
  BY <1>3, SMT
<1>6. begin' = begin /\ begin \in Nat
  BY <1>1, <1>2, <1>4, <1>5, Zenon DEF TypeOK
<1>7. ~Overruns(Size, max_len)
  <2> SUFFICES ASSUME Overruns(Size, max_len) PROVE FALSE
    OBVIOUS
  <2>1. begin > Size
    BY <1>3, <1>4, PassOverruns DEF CeilAmmount, CeilChunkSize
  <2> QED BY <1>3, <1>4, <1>6, <2>1
<1>8. InFloorPass'
  <2>1. 0 <= FloorAmmount /\ CeilAmmount + 0 = CeilAmmount
    BY <1>3
  <2>2. begin = (CeilAmmount * CeilChunkSize) + (0 * FloorChunkSize)
    <3>1. 0 * FloorChunkSize = 0
      BY <1>3, SMT
    <3>2. begin = begin + 0
      BY <1>6
    <3> QED BY <1>4, <3>1, <3>2, Zenon
  <2> QED BY <1>2, <1>4, <1>6, <1>7, <2>1, <2>2, SameSizes, Zenon DEF InFloorPass
<1>9. TypeOK'
  BY <1>1, <1>2, <1>6, SameSizes DEF TypeOK
<1>10. Position'
  BY <1>1, <1>2, <1>4, <1>6, <1>8, SameSizes DEF Position
<1>11. Tiled' /\ Arguments'
  BY <1>1, <1>2, <1>6, SameSizes DEF Tiled
<1> QED BY <1>9, <1>10, <1>11 DEF IInv

LEMMA ReturnStep == IInv /\ Return => IInv'
<1> SUFFICES ASSUME IInv, Return PROVE IInv'
  OBVIOUS
<1>1. TypeOK /\ Arguments /\ Position /\ Tiled
  BY DEF IInv
<1>2. /\ pass = "floor" /\ i = FloorAmmount /\ pass' = "done"
      /\ in_vals' = in_vals /\ max_len' = max_len /\ out_vals' = out_vals
      /\ i' = i /\ begin' = begin
  BY DEF Return, ChunkAmmont, FloorAmmount
<1>3. InFloorPass'
  BY <1>1, <1>2, SameSizes DEF Position, InFloorPass
<1>4. Position'
  BY <1>1, <1>2, <1>3, SameSizes DEF Position
<1>5. TypeOK' /\ Tiled' /\ Arguments'
  BY <1>1, <1>2, SameSizes DEF TypeOK, Tiled
<1> QED BY <1>4, <1>5 DEF IInv

LEMMA StutterStep == IInv /\ UNCHANGED vars => IInv'
<1> SUFFICES ASSUME IInv, UNCHANGED vars PROVE IInv'
  OBVIOUS
<1>1. /\ in_vals' = in_vals /\ max_len' = max_len /\ out_vals' = out_vals
      /\ pass' = pass /\ i' = i /\ begin' = begin
  BY DEF vars
<1>2. InCeilPass' = InCeilPass /\ InFloorPass' = InFloorPass
  BY <1>1, SameSizes DEF InCeilPass, InFloorPass
<1> QED BY <1>1, <1>2, SameSizes DEF IInv, TypeOK, Position, Tiled

LEMMA NextIInv == IInv /\ [Next]_vars => IInv'
BY ReserveStep, EmitChunkStep, OverrunStep, FloorPassStep, ReturnStep,
   StutterStep DEF Next

LEMMA Invariant == Spec => []IInv
BY InitIInv, NextIInv, PTL DEF Spec
-----------------------------------------------------------------------------
(* The state of a call keeps the shape the code gives it; in particular    *)
(* every chunk written lies inside the input vector.                       *)
THEOREM TypeCorrect == Spec => []TypeOK
<1>1. IInv => TypeOK
  BY DEF IInv
<1> QED BY <1>1, Invariant, PTL

(* No reading is dropped and none is averaged twice, for every history and *)
(* every limit, also at the step from the longer to the shorter chunks.    *)
THEOREM InputIsTiled == Spec => []Tiled
<1>1. IInv => Tiled
  BY DEF IInv
<1> QED BY <1>1, Invariant, PTL

(* The input vector is left exactly for the lengths that are a multiple of *)
(* max_len larger than its square.                                         *)
THEOREM OverrunCharacterised == Spec => []OverrunExactly
<1>1. IInv => OverrunExactly
  BY DEF IInv, Position, InFloorPass, OverrunExactly
<1> QED BY <1>1, Invariant, PTL

(* A call that returns Ok returns exactly max_len readings and has used    *)
(* the whole input.                                                        *)
THEOREM ReturnsMaxLen == Spec => []ResultLength
<1>1. IInv => ResultLength
  <2> SUFFICES ASSUME IInv, pass = "done"
               PROVE  Len(out_vals) = max_len /\ begin = Size
    BY DEF ResultLength
  <2>1. TypeOK /\ Arguments /\ InFloorPass /\ i = FloorAmmount
    BY DEF IInv, Position
  <2>2. Size \in Nat /\ max_len \in Nat \ {0} /\ Size > max_len /\ max_len < SizeMod
    BY <2>1, Sizes DEF Arguments
  <2>3. ~Overruns(Size, max_len)
    BY <2>1 DEF InFloorPass
  <2>4. /\ FloorAmmount = max_len - CeilAmmount
        /\ (CeilAmmount * CeilChunkSize) + (FloorAmmount * FloorChunkSize) = Size
    BY <2>2, <2>3, PassesCover DEF CeilAmmount, CeilChunkSize, FloorAmmount, FloorChunkSize
  <2>5. begin = Size
    BY <2>1, <2>4 DEF InFloorPass
  <2>6. Len(out_vals) = max_len
    <3>1. Len(out_vals) = CeilAmmount + FloorAmmount /\ CeilAmmount \in Nat
      BY <2>1, Sizes DEF InFloorPass
    <3> QED BY <2>2, <2>4, <3>1
  <2> QED BY <2>5, <2>6
<1> QED BY <1>1, Invariant, PTL
-----------------------------------------------------------------------------
(* Every chunk has the size of its pass, stands for a reading of its own   *)
(* slice and lies behind all those written before it.                      *)
Placed ==
  \A k \in DOMAIN out_vals :
    /\ out_vals[k].to - out_vals[k].from =
         (IF k <= CeilAmmount THEN CeilChunkSize ELSE FloorChunkSize) - 1
    /\ \E mid \in out_vals[k].from..out_vals[k].to : out_vals[k].timestamp = in_vals[mid]
    /\ out_vals[k].to <= begin
    /\ \A j \in 1..(k - 1) : out_vals[j].to < out_vals[k].from

LEMMA EmitChunkPlaced == IInv /\ Placed /\ EmitChunk => Placed'
<1> SUFFICES ASSUME IInv, Placed, EmitChunk PROVE Placed'
  OBVIOUS
<1> DEFINE c == ChunkSize
           e == Mean(begin, c)
           l == Len(out_vals)
<1>1. /\ pass \in Passes /\ i < ChunkAmmont /\ begin + c <= Size
      /\ out_vals' = Append(out_vals, e) /\ begin' = begin + c
      /\ in_vals' = in_vals /\ max_len' = max_len
  BY DEF EmitChunk
<1>2. /\ c \in Nat \ {0} /\ ChunkAmmont \in Nat /\ CeilAmmount \in Nat
      /\ begin \in Nat /\ i \in Nat /\ out_vals \in Seq(Chunk) /\ Size \in Nat
  BY <1>1, PassSizes, Sizes DEF IInv, TypeOK
<1>3. e \in Chunk
  BY <1>1, <1>2, MeanType DEF IInv
<1>4. /\ l \in Nat
      /\ \A k \in 1..l : out_vals'[k] = out_vals[k] /\ out_vals[k] \in Chunk
      /\ out_vals'[l + 1] = e
      /\ DOMAIN out_vals = 1..l /\ DOMAIN out_vals' = 1..(l + 1)
  BY <1>1, <1>2, <1>3, AppendKeeps
<1>5. c = IF l + 1 <= CeilAmmount THEN CeilChunkSize ELSE FloorChunkSize
  <2>1. CASE pass = "ceil"
    <3>1. l = i /\ i < CeilAmmount /\ c = CeilChunkSize
      BY <1>1, <2>1 DEF IInv, Position, InCeilPass, ChunkAmmont, ChunkSize, CeilAmmount,
                        CeilChunkSize
    <3> QED BY <1>2, <3>1
  <2>2. CASE pass = "floor"
    <3>1. l = CeilAmmount + i /\ c = FloorChunkSize
      BY <2>2 DEF IInv, Position, InFloorPass, ChunkSize, FloorChunkSize
    <3>2. ~(l + 1 <= CeilAmmount)
      BY <1>2, <3>1
    <3> QED BY <3>1, <3>2
  <2> QED BY <1>1, <2>1, <2>2 DEF Passes
<1>6. \E mid \in e.from..e.to : e.timestamp = in_vals[mid]
  <2>1. c \div 2 \in 0..(c - 1)
    BY <1>2, SMT
  <2>2. (begin + (c \div 2)) + 1 \in (begin + 1)..(begin + c)
    BY <1>2, <2>1
  <2> QED BY <2>2 DEF Mean
<1>7. e.from = begin + 1 /\ e.to = begin + c
  BY DEF Mean
<1>8. \A k \in 1..l : out_vals[k].to \in Nat /\ out_vals[k].to <= begin
  <2> TAKE k \in 1..l
  <2>1. out_vals[k].to \in 1..Size
    BY <1>4 DEF Chunk
  <2>2. k \in DOMAIN out_vals
    BY <1>4
  <2>3. out_vals[k].to <= begin
    BY <2>2, Zenon DEF Placed
  <2> QED BY <1>2, <2>1, <2>3
<1> HIDE DEF c, e, l
<1> SUFFICES ASSUME NEW k \in 1..(l + 1)
             PROVE  /\ out_vals'[k].to - out_vals'[k].from =
                         (IF k <= CeilAmmount THEN CeilChunkSize ELSE FloorChunkSize) - 1
                    /\ \E mid \in out_vals'[k].from..out_vals'[k].to :
                         out_vals'[k].timestamp = in_vals[mid]
                    /\ out_vals'[k].to <= begin'
                    /\ \A j \in 1..(k - 1) : out_vals'[j].to < out_vals'[k].from
  BY <1>1, <1>4, SameSizes DEF Placed
<1>9. CASE k \in 1..l
  <2>1. \A j \in 1..(k - 1) : j \in 1..l
    BY <1>4, <1>9
  <2>2. out_vals[k].to \in Nat /\ out_vals[k].to <= begin
    BY <1>9, <1>8
  <2>3. out_vals[k].to <= begin'
    BY <1>1, <1>2, <2>2
  <2> QED BY <1>4, <1>9, <2>1, <2>3 DEF Placed
<1>10. CASE k = l + 1
  <2>1. \A j \in 1..(k - 1) :
          j \in 1..l /\ out_vals'[j].to = out_vals[j].to /\ out_vals[j].to \in Nat
          /\ out_vals[j].to <= begin
    BY <1>4, <1>10, <1>8
  <2>2. (begin + c) - (begin + 1) = c - 1
    BY <1>2
  <2>3. e.to - e.from = (IF k <= CeilAmmount THEN CeilChunkSize ELSE FloorChunkSize) - 1
    BY <1>5, <1>7, <1>10, <2>2
  <2>4. e.to <= begin'
    BY <1>1, <1>2, <1>7
  <2>5. \A j \in 1..(k - 1) : out_vals'[j].to < e.from
    BY <1>2, <1>7, <2>1
  <2> QED BY <1>4, <1>6, <1>10, <2>3, <2>4, <2>5
<1> QED BY <1>4, <1>9, <1>10

LEMMA InitPlaced == Init => Placed
BY DEF Init, Placed

(* The other steps move the begin iterator nowhere.                        *)
LEMMA NextPlaced == IInv /\ Placed /\ [Next]_vars => Placed'
<1>1. IInv /\ Placed /\ UNCHANGED <<in_vals, max_len, out_vals>> /\ IInv' => Placed'
  <2> SUFFICES ASSUME IInv, Placed, UNCHANGED <<in_vals, max_len, out_vals>>, IInv'
               PROVE  Placed'
    OBVIOUS
  <2>1. begin' = begin
    BY DEF IInv, Tiled
  <2> QED BY <2>1, SameSizes DEF Placed
<1>2. IInv /\ [Next]_vars => IInv'
  BY NextIInv
<1> QED BY <1>1, <1>2, EmitChunkPlaced DEF Next, Reserve, Overrun, FloorPass, Return, vars

LEMMA PlacedInvariant == Spec => []Placed
BY InitPlaced, NextPlaced, Invariant, PTL DEF Spec

(* The chunks are as even as they can be, the longer ones first, for every *)
(* history and every limit.                                                *)
THEOREM ChunksBalanced == Spec => []Balanced
<1>1. IInv /\ Placed => Balanced
  <2> SUFFICES ASSUME IInv, Placed, NEW j \in DOMAIN out_vals, NEW k \in DOMAIN out_vals,
                      j < k
               PROVE  (out_vals[j].to - out_vals[j].from)
                        - (out_vals[k].to - out_vals[k].from) \in {0, 1}
    BY DEF Balanced
  <2>1. /\ Size \in Nat /\ max_len \in Nat \ {0} /\ CeilAmmount \in Nat
        /\ CeilChunkSize \in Nat /\ FloorChunkSize \in Nat
    BY Sizes DEF IInv
  <2>2. CeilChunkSize - FloorChunkSize \in {0, 1}
    <3>1. CASE Size % max_len = 0
      <4>1. CeilChunkSize = FloorChunkSize
        BY <2>1, <3>1, CeilOfWhole DEF CeilChunkSize, FloorChunkSize, floor_chunk_sieze
      <4> QED BY <2>1, <4>1
    <3>2. CASE Size % max_len # 0
      <4>1. CeilChunkSize = FloorChunkSize + 1
        BY <2>1, <3>2, CeilOfFraction DEF CeilChunkSize, FloorChunkSize, floor_chunk_sieze
      <4> QED BY <2>1, <4>1
    <3> QED BY <3>1, <3>2
  <2>3. j \in Nat /\ k \in Nat
    BY DEF IInv, TypeOK
  <2> DEFINE Of(x) == IF x <= CeilAmmount THEN CeilChunkSize ELSE FloorChunkSize
  <2>4. /\ out_vals[j].to - out_vals[j].from = Of(j) - 1
        /\ out_vals[k].to - out_vals[k].from = Of(k) - 1
    BY DEF Placed
  <2>5. (Of(j) - 1) - (Of(k) - 1) \in {0, 1}
    BY <2>1, <2>2, <2>3
  <2> QED BY <2>4, <2>5
<1> QED BY <1>1, Invariant, PlacedInvariant, PTL

(* Of a history in time order compress makes one in time order.            *)
THEOREM TimeOrderKept == Spec => []KeepsTimeOrder
<1>1. IInv /\ Placed => KeepsTimeOrder
  <2> SUFFICES ASSUME IInv, Placed, Sorted(in_vals),
                      NEW j \in 1..Len(out_vals), NEW k \in 1..Len(out_vals), j < k
               PROVE  out_vals[j].timestamp <= out_vals[k].timestamp
    <3>1. DOMAIN out_vals = 1..Len(out_vals) /\ Len(out_vals) \in Nat
      BY DEF IInv, TypeOK
    <3>2. Len([n \in DOMAIN out_vals |-> out_vals[n].timestamp]) = Len(out_vals)
      BY <3>1
    <3> QED BY <3>1, <3>2 DEF KeepsTimeOrder, Sorted
  <2>1. /\ out_vals[j] \in Chunk /\ out_vals[k] \in Chunk /\ j \in 1..(k - 1)
        /\ j \in DOMAIN out_vals /\ k \in DOMAIN out_vals
    BY DEF IInv, TypeOK
  <2>2. PICK x \in out_vals[j].from..out_vals[j].to : out_vals[j].timestamp = in_vals[x]
    BY <2>1 DEF Placed
  <2>3. PICK y \in out_vals[k].from..out_vals[k].to : out_vals[k].timestamp = in_vals[y]
    BY <2>1 DEF Placed
  <2>4. out_vals[j].to < out_vals[k].from
    BY <2>1 DEF Placed
  <2>5. Size \in Nat
    BY Sizes DEF IInv
  <2>6. x \in 1..Size /\ y \in 1..Size /\ x < y
    BY <2>1, <2>4, <2>5 DEF Chunk
  <2> QED BY <2>2, <2>3, <2>6 DEF Sorted, Size
<1> QED BY <1>1, Invariant, PlacedInvariant, PTL
=============================================================================
