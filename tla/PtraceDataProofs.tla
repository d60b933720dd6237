--------------------------- MODULE PtraceDataProofs ---------------------------
(***************************************************************************)
(* Theorems about PtraceData: for every size, every content and every      *)
(* order of the application's own stores, ptrace_writedata and             *)
(* ptrace_readdata copy what they should and touch nothing else.           *)
(***************************************************************************)
EXTENDS PtraceData, TLAPS

(* The loop of words: i words are done, of j. *)
LoopInv ==
  /\ i <= j
  /\ p = Word * i
  /\ pc # "words" => i = j
  /\ pc \in {"tail", "poke"} => remain > 0
  /\ pc = "poke" => op = "write"

(* What the last word, between its PEEKTEXT and its POKETEXT, will leave    *)
(* behind the copy, and in it.                                              *)
TailKept ==
  pc = "poke" /\ alive /\ ~raced =>
    \A k \in remain .. Word - 1 : d[k] = expect[p + k]

TailCopied ==
  pc = "poke" => \A k \in 0 .. remain - 1 : d[k] = buf[p + k]

(* How far the copy has come. *)
Reached == IF pc = "done" THEN size ELSE p

CopiedSoFar == alive => \A a \in 0 .. Reached - 1 : mem[a] = buf[a]

BufKept == \A a \in Offset : op = "write" \/ a >= size => buf[a] = Data[a]

IInv == TypeOK /\ LoopInv
-------------------------------------------------------------------------------
(* The division of the size into words and a rest. *)
LEMMA Division ==
  ASSUME size \in Nat
  PROVE  /\ j \in Nat /\ remain \in 0 .. 3
         /\ size = 4 * j + remain
BY SMT DEF j, remain, Word

(* Every byte of the word at p, and of the copy, has an offset. *)
LEMMA Offsets ==
  ASSUME IInv
  PROVE  /\ p \in Nat /\ size \in Nat /\ p <= size /\ size <= MaxSize
         /\ i < j => p + 4 <= size
         /\ pc # "words" => size = p + remain
         /\ j \in Nat /\ remain \in 0 .. 3 /\ size = 4 * j + remain
         /\ \A k \in 0 .. 3 : p + k \in Offset
         /\ \A a \in 0 .. size : a \in Offset
         /\ Offset \subseteq Nat
<1>1. size \in Nat /\ size <= MaxSize /\ MaxSize \in Nat /\ i \in Nat
  BY DataAssumption, SMT DEF IInv, TypeOK
<1>2. j \in Nat /\ remain \in 0 .. 3 /\ size = 4 * j + remain
  BY <1>1, Division
<1>3. p = 4 * i /\ i <= j /\ (pc # "words" => i = j)
  BY DEF IInv, LoopInv, Word
<1> QED
  BY <1>1, <1>2, <1>3, SMT DEF Offset, Word

(* A word read has bytes for its letters. *)
LEMMA PeekType ==
  ASSUME IInv
  PROVE  Peek \in [0 .. Word - 1 -> Byte]
<1>1. \A k \in 0 .. 3 : p + k \in Offset
  BY Offsets
<1>2. mem \in [Offset -> Byte] /\ Ones \in Byte
  BY DataAssumption DEF IInv, TypeOK
<1> QED
  BY <1>1, <1>2, SMT DEF Peek, Word

(* A word written keeps the memory's type. *)
LEMMA PokeType ==
  ASSUME IInv, NEW w \in [0 .. Word - 1 -> Byte], Poke(w)
  PROVE  mem' \in [Offset -> Byte]
<1>1. p \in Nat /\ Offset \subseteq Nat
  BY Offsets
<1>2. mem \in [Offset -> Byte]
  BY DEF IInv, TypeOK
<1> QED
  BY <1>1, <1>2, SMT DEF Poke, Word

LEMMA CopyOutType ==
  ASSUME IInv, NEW w \in [0 .. Word - 1 -> Byte], NEW m \in 0 .. Word,
         CopyOut(w, m)
  PROVE  buf' \in [Offset -> Byte]
<1>1. p \in Nat /\ Offset \subseteq Nat
  BY Offsets
<1>2. buf \in [Offset -> Byte]
  BY DEF IInv, TypeOK
<1> QED
  BY <1>1, <1>2, SMT DEF CopyOut, Word
-------------------------------------------------------------------------------
(* Types, and the loop of ptrace_readdata and ptrace_writedata, at every    *)
(* step.                                                                    *)
LEMMA IInvInit == Init => IInv
<1> SUFFICES ASSUME Init PROVE IInv
  OBVIOUS
<1>1. alive \in BOOLEAN /\ raced \in BOOLEAN
  BY Zenon DEF Init
<1>2. d \in [0 .. Word - 1 -> Byte]
  BY DataAssumption, Zenon DEF Init
<1>3. p \in 0 .. MaxSize /\ i \in Nat
  BY DataAssumption, SMT DEF Init
<1>4. /\ op \in {"read", "write"} /\ size \in 0 .. MaxSize
      /\ pc \in {"words", "tail", "poke", "done"}
      /\ mem \in [Offset -> Byte] /\ buf \in [Offset -> Byte]
      /\ expect \in [Offset -> Byte]
  BY DataAssumption, Zenon DEF Init
<1>5. TypeOK
  BY <1>1, <1>2, <1>3, <1>4 DEF TypeOK
<1>6. j \in Nat
  BY <1>5, DataAssumption, Division, SMT DEF TypeOK
<1>7. LoopInv
  BY <1>6, SMT DEF Init, LoopInv, Word
<1> QED
  BY <1>5, <1>7 DEF IInv

LEMMA IInvStep == IInv /\ [Next]_vars => IInv'
<1> SUFFICES ASSUME IInv, [Next]_vars PROVE IInv'
  OBVIOUS
<1>1. TypeOK /\ LoopInv
  BY DEF IInv
<1>2. /\ p \in Nat /\ size \in Nat /\ p <= size /\ size <= MaxSize
      /\ i < j => p + 4 <= size
      /\ pc # "words" => size = p + remain
      /\ j \in Nat /\ remain \in 0 .. 3
      /\ \A k \in 0 .. 3 : p + k \in Offset
  BY Offsets
<1>3. CASE WriteWord
  <2>1. size' = size /\ op' = op /\ pc' = "words" /\ i' = i + 1 /\ p' = p + 4
        /\ i < j
    BY <1>3 DEF WriteWord, Advance, Word
  <2>2. j' = j /\ remain' = remain
    BY <2>1 DEF j, remain
  <2>3. d' \in [0 .. Word - 1 -> Byte]
    BY <1>1, <1>2, <1>3, SMT DEF WriteWord, TypeOK, Word
  <2>4. mem' \in [Offset -> Byte]
    BY <2>3, <1>3, PokeType DEF WriteWord
  <2>5. TypeOK'
    BY <1>1, <1>2, <1>3, <2>1, <2>3, <2>4, DataAssumption, SMT
    DEF WriteWord, TypeOK
  <2>6. LoopInv'
    BY <1>1, <1>2, <2>1, <2>2, SMT DEF LoopInv, Word, TypeOK
  <2> QED
    BY <2>5, <2>6 DEF IInv
<1>4. CASE ReadWord
  <2>1. size' = size /\ op' = op /\ pc' = "words" /\ i' = i + 1 /\ p' = p + 4
        /\ i < j
    BY <1>4 DEF ReadWord, Advance, Word
  <2>2. j' = j /\ remain' = remain
    BY <2>1 DEF j, remain
  <2>3. d' \in [0 .. Word - 1 -> Byte]
    BY <1>4, PeekType DEF ReadWord
  <2>4. buf' \in [Offset -> Byte]
    BY <2>3, <1>4, CopyOutType DEF ReadWord, Word
  <2>5. TypeOK'
    BY <1>1, <1>2, <1>4, <2>1, <2>3, <2>4, DataAssumption, SMT
    DEF ReadWord, TypeOK
  <2>6. LoopInv'
    BY <1>1, <1>2, <2>1, <2>2, SMT DEF LoopInv, Word, TypeOK
  <2> QED
    BY <2>5, <2>6 DEF IInv
<1>5. CASE EndWords
  <2>1. j' = j /\ remain' = remain
    BY <1>5 DEF EndWords, j, remain
  <2>2. LoopInv'
    BY <1>1, <1>2, <1>5, <2>1, SMT DEF LoopInv, EndWords, TypeOK
  <2>3. TypeOK'
    BY <1>1, <1>5, SMT DEF TypeOK, EndWords
  <2> QED
    BY <2>2, <2>3 DEF IInv
<1>6. CASE ReadTail
  <2>1. j' = j /\ remain' = remain
    BY <1>6 DEF ReadTail, j, remain
  <2>2. d' \in [0 .. Word - 1 -> Byte]
    BY <1>6, PeekType DEF ReadTail
  <2>3. remain \in 0 .. Word
    BY <1>2, SMT DEF Word
  <2>4. buf' \in [Offset -> Byte]
    BY <2>2, <2>3, <1>6, CopyOutType DEF ReadTail
  <2>5. TypeOK'
    BY <1>1, <1>6, <2>2, <2>4, SMT DEF TypeOK, ReadTail
  <2>6. LoopInv'
    BY <1>1, <1>6, <2>1, SMT DEF LoopInv, ReadTail
  <2> QED
    BY <2>5, <2>6 DEF IInv
<1>7. CASE WriteTail
  <2>1. j' = j /\ remain' = remain
    BY <1>7 DEF WriteTail, j, remain
  <2>2. Peek \in [0 .. Word - 1 -> Byte]
    BY PeekType
  <2>3. d' \in [0 .. Word - 1 -> Byte]
    BY <1>1, <1>2, <1>7, <2>2, SMT DEF WriteTail, TypeOK, Word
  <2>4. TypeOK'
    BY <1>1, <1>7, <2>3, SMT DEF TypeOK, WriteTail
  <2>5. LoopInv'
    BY <1>1, <1>7, <2>1, SMT DEF LoopInv, WriteTail
  <2> QED
    BY <2>4, <2>5 DEF IInv
<1>8. CASE WriteBack
  <2>1. j' = j /\ remain' = remain
    BY <1>8 DEF WriteBack, j, remain
  <2>2. mem' \in [Offset -> Byte]
    BY <1>1, <1>8, PokeType DEF WriteBack, TypeOK
  <2>3. TypeOK'
    BY <1>1, <1>8, <2>2, SMT DEF TypeOK, WriteBack
  <2>4. LoopInv'
    BY <1>1, <1>8, <2>1, SMT DEF LoopInv, WriteBack
  <2> QED
    BY <2>3, <2>4 DEF IInv
<1>9. CASE Store
  <2>1. j' = j /\ remain' = remain
    BY <1>9 DEF Store, j, remain
  <2>2. PICK a \in size .. size + Word - 1, v \in Byte :
          /\ mem' = [mem EXCEPT ![a] = v]
          /\ expect' = [expect EXCEPT ![a] = v]
    BY <1>9 DEF Store
  <2>3. mem' \in [Offset -> Byte] /\ expect' \in [Offset -> Byte]
    BY <1>1, <2>2, Zenon DEF TypeOK
  <2>4. raced' \in BOOLEAN
    BY <1>1, <1>9, Zenon DEF Store, TypeOK
  <2>5. TypeOK'
    BY <1>1, <1>9, <2>3, <2>4, SMT DEF TypeOK, Store
  <2>6. LoopInv'
    BY <1>1, <1>9, <2>1, SMT DEF LoopInv, Store
  <2> QED
    BY <2>5, <2>6 DEF IInv
<1>10. CASE Kill
  <2>1. j' = j /\ remain' = remain
    BY <1>10 DEF Kill, j, remain
  <2>2. alive' \in BOOLEAN
    BY <1>10, Zenon DEF Kill
  <2>3. TypeOK' /\ LoopInv'
    BY <1>1, <1>10, <2>1, <2>2, SMT DEF TypeOK, LoopInv, Kill
  <2> QED
    BY <2>3 DEF IInv
<1>11. CASE UNCHANGED vars
  <2>1. j' = j /\ remain' = remain
    BY <1>11 DEF vars, j, remain
  <2>2. TypeOK' /\ LoopInv'
    BY <1>1, <1>11, <2>1, SMT DEF TypeOK, LoopInv, vars
  <2> QED
    BY <2>2 DEF IInv
<1> QED
  BY <1>3, <1>4, <1>5, <1>6, <1>7, <1>8, <1>9, <1>10, <1>11 DEF Next, Copy

(* Every variable keeps its type: p does not leave the copy, the bytes of   *)
(* a word are bytes.                                                        *)
THEOREM TypeCorrect == Spec => []TypeOK
<1>1. IInv => TypeOK
  BY DEF IInv
<1> QED
  BY <1>1, IInvInit, IInvStep, PTL DEF Spec

-------------------------------------------------------------------------------
(* A step leaves the rest of the target alone. *)
LEMMA OutsideStep ==
  IInv /\ OutsideKept /\ TailKept /\ [Next]_vars => OutsideKept' /\ TailKept'
<1> SUFFICES ASSUME IInv, OutsideKept, TailKept, [Next]_vars
             PROVE  OutsideKept' /\ TailKept'
  OBVIOUS
<1>1. TypeOK /\ LoopInv
  BY DEF IInv
<1>2. /\ p \in Nat /\ size \in Nat /\ p <= size
      /\ i < j => p + 4 <= size
      /\ pc # "words" => size = p + remain
      /\ j \in Nat /\ remain \in 0 .. 3
      /\ \A k \in 0 .. 3 : p + k \in Offset
      /\ Offset \subseteq Nat
  BY Offsets
<1>3. CASE WriteWord
  <2>1. /\ pc' = "words" /\ op = "write" /\ op' = "write" /\ size' = size
        /\ expect' = expect /\ raced' = raced /\ p + 4 <= size
    BY <1>2, <1>3 DEF WriteWord
  <2>2. ASSUME NEW a \in Offset, a >= size
        PROVE  mem'[a] = mem[a]
    <3>1. Poke(d')
      BY <1>3 DEF WriteWord
    <3>2. a \notin p .. p + Word - 1
      BY <1>2, <2>1, <2>2, SMT DEF Word
    <3> QED
      BY <3>1, <3>2, Zenon DEF Poke
  <2>3. OutsideKept'
    BY <2>1, <2>2 DEF OutsideKept
  <2>4. TailKept'
    BY <2>1 DEF TailKept
  <2> QED
    BY <2>3, <2>4
<1>4. CASE ReadWord
  BY <1>4, Zenon DEF ReadWord, OutsideKept, TailKept
<1>5. CASE EndWords
  <2>1. pc' # "poke"
    BY <1>5 DEF EndWords
  <2> QED
    BY <1>5, <2>1, Zenon DEF EndWords, OutsideKept, TailKept
<1>6. CASE ReadTail
  BY <1>6, Zenon DEF ReadTail, OutsideKept, TailKept
<1>7. CASE WriteTail
  <2>1. OutsideKept'
    BY <1>7, Zenon DEF WriteTail, OutsideKept
  <2>2. ASSUME alive', ~raced', NEW k \in remain .. 3
        PROVE  d'[k] = expect[p + k]
    <3>1. k \in 0 .. 3 /\ ~(k < remain) /\ p + k \in Offset /\ p + k >= size
      BY <1>1, <1>2, <1>7, <2>2, SMT DEF WriteTail
    <3>2. d'[k] = mem[p + k]
      BY <1>7, <2>2, <3>1, SMT DEF WriteTail, Peek, Word
    <3>3. mem[p + k] = expect[p + k]
      BY <1>7, <2>2, <3>1 DEF OutsideKept, WriteTail
    <3> QED
      BY <3>2, <3>3
  <2>3. remain' = remain /\ p' = p /\ expect' = expect
    BY <1>7 DEF WriteTail, remain
  <2>4. TailKept'
    BY <1>2, <2>2, <2>3, SMT DEF TailKept, Word
  <2> QED
    BY <2>1, <2>4
<1>8. CASE WriteBack
  <2>1. /\ op = "write" /\ op' = "write" /\ pc' = "done" /\ size' = size
        /\ expect' = expect /\ raced' = raced /\ size = p + remain
    BY <1>1, <1>2, <1>8 DEF WriteBack, LoopInv
  <2>2. ASSUME ~raced, NEW a \in Offset, a >= size
        PROVE  mem'[a] = expect[a]
    <3>1. CASE alive /\ a \in p .. p + 3
      <4>1. a - p \in remain .. 3 /\ p + (a - p) = a
        BY <1>2, <2>1, <2>2, <3>1, SMT
      <4>2. mem'[a] = d[a - p]
        BY <1>8, <3>1, SMT DEF WriteBack, Poke, Word
      <4>3. d[a - p] = expect[p + (a - p)]
        BY <1>8, <2>2, <3>1, <4>1, SMT DEF TailKept, WriteBack, Word
      <4> QED
        BY <4>1, <4>2, <4>3
    <3>2. CASE ~(alive /\ a \in p .. p + 3)
      <4>1. mem'[a] = mem[a]
        BY <1>8, <3>2, SMT DEF WriteBack, Poke, Word
      <4> QED
        BY <2>2, <4>1 DEF OutsideKept
    <3> QED
      BY <3>1, <3>2
  <2>3. OutsideKept'
    BY <2>1, <2>2 DEF OutsideKept
  <2>4. TailKept'
    BY <2>1 DEF TailKept
  <2> QED
    BY <2>3, <2>4
<1>9. CASE Store
  <2>1. PICK a \in size .. size + Word - 1, v \in Byte :
          /\ mem' = [mem EXCEPT ![a] = v]
          /\ expect' = [expect EXCEPT ![a] = v]
          /\ raced' = (raced \/ (pc = "poke" /\ a < p + Word))
    BY <1>9 DEF Store
  <2>2. op' = op /\ size' = size /\ pc' = pc /\ p' = p /\ d' = d
        /\ remain' = remain /\ alive' = alive
    BY <1>9 DEF Store, remain
  <2>3. OutsideKept'
    BY <1>1, <2>1, <2>2, Zenon DEF OutsideKept, TypeOK
  <2>4. ASSUME pc = "poke", alive, ~raced', NEW k \in remain .. 3
        PROVE  d[k] = expect'[p + k]
    <3>1. ~raced /\ ~(a < p + 4)
      BY <2>1, <2>4 DEF Word
    <3>2. p + k \in Offset /\ a # p + k
      BY <1>2, <2>1, <3>1, SMT DEF Word
    <3>3. expect'[p + k] = expect[p + k]
      BY <1>1, <2>1, <3>2, Zenon DEF TypeOK
    <3> QED
      BY <2>4, <3>1, <3>3, SMT DEF TailKept, Word
  <2>5. TailKept'
    BY <2>2, <2>4, SMT DEF TailKept, Word
  <2> QED
    BY <2>3, <2>5
<1>10. CASE Kill
  BY <1>10, Zenon DEF Kill, OutsideKept, TailKept
<1>11. CASE UNCHANGED vars
  <2>1. remain' = remain
    BY <1>11 DEF vars, remain
  <2> QED
    BY <1>11, <2>1, Zenon DEF vars, OutsideKept, TailKept
<1> QED
  BY <1>3, <1>4, <1>5, <1>6, <1>7, <1>8, <1>9, <1>10, <1>11 DEF Next, Copy

(* ptrace_readdata and ptrace_writedata leave every byte outside their      *)
(* range as the application has it, whatever the size and the other         *)
(* threads' stores, as long as none hits the last word between its PEEKTEXT *)
(* and its POKETEXT.                                                        *)
THEOREM OutsideKeptCorrect == Spec => []OutsideKept
<1>1. Init => OutsideKept /\ TailKept
  BY DEF Init, OutsideKept, TailKept
<1> QED
  BY <1>1, IInvInit, IInvStep, OutsideStep, PTL DEF Spec
-------------------------------------------------------------------------------
(* A step keeps what has been copied, and the injector's buffer. *)
LEMMA CopyStep ==
  IInv /\ CopiedSoFar /\ TailCopied /\ BufKept /\ [Next]_vars
    => CopiedSoFar' /\ TailCopied' /\ BufKept'
<1> SUFFICES ASSUME IInv, CopiedSoFar, TailCopied, BufKept, [Next]_vars
             PROVE  CopiedSoFar' /\ TailCopied' /\ BufKept'
  OBVIOUS
<1>1. TypeOK /\ LoopInv
  BY DEF IInv
<1>2. /\ p \in Nat /\ size \in Nat /\ p <= size
      /\ i < j => p + 4 <= size
      /\ pc # "words" => size = p + remain
      /\ j \in Nat /\ remain \in 0 .. 3 /\ size = 4 * j + remain
      /\ \A k \in 0 .. 3 : p + k \in Offset
      /\ \A a \in 0 .. size : a \in Offset
      /\ Offset \subseteq Nat
  BY Offsets
<1>3. CASE WriteWord
  <2>1. /\ pc = "words" /\ pc' = "words" /\ buf' = buf /\ op' = op
        /\ size' = size /\ alive' = alive /\ p' = p + 4 /\ p + 4 <= size
        /\ d' = [k \in 0 .. 3 |-> buf[p + k]]
        /\ mem' = [a \in Offset |->
                     IF alive /\ a \in p .. p + 3 THEN d'[a - p] ELSE mem[a]]
    BY <1>2, <1>3, SMT DEF WriteWord, Advance, Poke, Word
  <2>2. ASSUME alive, NEW a \in 0 .. p + 3
        PROVE  mem'[a] = buf[a]
    <3>1. a \in Offset
      BY <1>2, <2>1, SMT
    <3>2. CASE a \in p .. p + 3
      <4>1. a - p \in 0 .. 3 /\ p + (a - p) = a
        BY <1>2, <3>2, SMT
      <4>2. mem'[a] = d'[a - p]
        BY <2>1, <2>2, <3>1, <3>2, SMT
      <4>3. d'[a - p] = buf[p + (a - p)]
        BY <2>1, <4>1, Zenon
      <4> QED
        BY <4>1, <4>2, <4>3
    <3>3. CASE a \notin p .. p + 3
      <4>1. mem'[a] = mem[a]
        BY <2>1, <3>1, <3>3, Zenon
      <4>2. a \in 0 .. Reached - 1
        BY <1>2, <2>1, <3>3, SMT DEF Reached
      <4> QED
        BY <2>2, <4>1, <4>2 DEF CopiedSoFar
    <3> QED
      BY <3>2, <3>3
  <2>3. CopiedSoFar'
    <3>1. Reached' - 1 = p + 3
      BY <1>2, <2>1, SMT DEF Reached
    <3> QED
      BY <2>1, <2>2, <3>1 DEF CopiedSoFar
  <2> QED
    BY <2>1, <2>3, Zenon DEF TailCopied, BufKept
<1>4. CASE ReadWord
  <2>1. /\ pc = "words" /\ pc' = "words" /\ mem' = mem /\ op = "read"
        /\ op' = op
        /\ size' = size /\ alive' = alive /\ p' = p + 4 /\ p + 4 <= size
        /\ d' = [k \in 0 .. 3 |-> IF alive THEN mem[p + k] ELSE Ones]
        /\ buf' = [a \in Offset |->
                     IF a \in p .. p + 3 THEN d'[a - p] ELSE buf[a]]
    BY <1>2, <1>4, SMT DEF ReadWord, Advance, Peek, CopyOut, Word
  <2>2. ASSUME alive, NEW a \in 0 .. p + 3
        PROVE  mem[a] = buf'[a]
    <3>1. a \in Offset
      BY <1>2, <2>1, SMT
    <3>2. CASE a \in p .. p + 3
      <4>1. a - p \in 0 .. 3 /\ p + (a - p) = a
        BY <1>2, <3>2, SMT
      <4>2. buf'[a] = d'[a - p]
        BY <2>1, <3>1, <3>2, Zenon
      <4>3. d'[a - p] = mem[p + (a - p)]
        BY <2>1, <2>2, <4>1, Zenon
      <4> QED
        BY <4>1, <4>2, <4>3
    <3>3. CASE a \notin p .. p + 3
      <4>1. buf'[a] = buf[a]
        BY <2>1, <3>1, <3>3, Zenon
      <4>2. a \in 0 .. Reached - 1
        BY <1>2, <2>1, <3>3, SMT DEF Reached
      <4> QED
        BY <2>2, <4>1, <4>2 DEF CopiedSoFar
    <3> QED
      BY <3>2, <3>3
  <2>3. CopiedSoFar'
    <3>1. Reached' - 1 = p + 3
      BY <1>2, <2>1, SMT DEF Reached
    <3> QED
      BY <2>1, <2>2, <3>1 DEF CopiedSoFar
  <2>4. BufKept'
    <3>1. \A a \in Offset : a >= size => a \notin p .. p + 3
      BY <1>2, <2>1, SMT
    <3>2. \A a \in Offset : a >= size => buf'[a] = buf[a]
      BY <2>1, <3>1, Zenon
    <3> QED
      BY <2>1, <3>2 DEF BufKept
  <2> QED
    BY <2>1, <2>3, <2>4, Zenon DEF TailCopied
<1>5. CASE EndWords
  <2>1. /\ pc = "words" /\ pc' # "poke" /\ mem' = mem /\ buf' = buf
        /\ size' = size /\ p' = p /\ op' = op /\ alive' = alive
        /\ (pc' = "done" => remain = 0) /\ i = j
    BY <1>2, <1>5, SMT DEF EndWords
  <2>2. Reached' = Reached
    BY <1>1, <1>2, <2>1, SMT DEF Reached, LoopInv, Word
  <2> QED
    BY <2>1, <2>2 DEF CopiedSoFar, TailCopied, BufKept
<1>6. CASE ReadTail
  <2>1. /\ pc = "tail" /\ pc' = "done" /\ mem' = mem /\ op = "read"
        /\ op' = op /\ size = p + remain
        /\ size' = size /\ alive' = alive
        /\ d' = [k \in 0 .. 3 |-> IF alive THEN mem[p + k] ELSE Ones]
        /\ buf' = [a \in Offset |->
                     IF a \in p .. p + remain - 1 THEN d'[a - p] ELSE buf[a]]
    BY <1>2, <1>6, SMT DEF ReadTail, Peek, CopyOut, Word
  <2>2. ASSUME alive, NEW a \in 0 .. size - 1
        PROVE  mem[a] = buf'[a]
    <3>1. a \in Offset
      BY <1>2, <2>1, SMT
    <3>2. CASE a \in p .. p + remain - 1
      <4>1. a - p \in 0 .. 3 /\ p + (a - p) = a
        BY <1>2, <3>2, SMT
      <4>2. buf'[a] = d'[a - p]
        BY <2>1, <3>1, <3>2, Zenon
      <4>3. d'[a - p] = mem[p + (a - p)]
        BY <2>1, <2>2, <4>1, Zenon
      <4> QED
        BY <4>1, <4>2, <4>3
    <3>3. CASE a \notin p .. p + remain - 1
      <4>1. buf'[a] = buf[a]
        BY <2>1, <3>1, <3>3, Zenon
      <4>2. a \in 0 .. Reached - 1
        BY <1>2, <2>1, <3>3, SMT DEF Reached
      <4> QED
        BY <2>2, <4>1, <4>2 DEF CopiedSoFar
    <3> QED
      BY <3>2, <3>3
  <2>3. CopiedSoFar'
    BY <2>1, <2>2 DEF CopiedSoFar, Reached
  <2>4. BufKept'
    <3>1. \A a \in Offset : a >= size => a \notin p .. p + remain - 1
      BY <1>2, <2>1, SMT
    <3>2. \A a \in Offset : a >= size => buf'[a] = buf[a]
      BY <2>1, <3>1, Zenon
    <3> QED
      BY <2>1, <3>2 DEF BufKept
  <2> QED
    BY <2>1, <2>3, <2>4, Zenon DEF TailCopied
<1>7. CASE WriteTail
  <2>1. /\ pc = "tail" /\ pc' = "poke" /\ mem' = mem /\ buf' = buf /\ p' = p
        /\ op' = op /\ size' = size /\ alive' = alive /\ remain' = remain
    BY <1>7 DEF WriteTail, remain
  <2>2. \A k \in 0 .. remain - 1 : d'[k] = buf[p + k]
    BY <1>2, <1>7, SMT DEF WriteTail, Word
  <2>3. Reached' = Reached
    BY <2>1 DEF Reached
  <2> QED
    BY <2>1, <2>2, <2>3, Zenon DEF CopiedSoFar, TailCopied, BufKept
<1>8. CASE WriteBack
  <2>1. /\ pc = "poke" /\ pc' = "done" /\ buf' = buf /\ op' = op
        /\ size = p + remain
        /\ size' = size /\ alive' = alive
        /\ mem' = [a \in Offset |->
                     IF alive /\ a \in p .. p + 3 THEN d[a - p] ELSE mem[a]]
    BY <1>2, <1>8, SMT DEF WriteBack, Poke, Word
  <2>2. ASSUME alive, NEW a \in 0 .. size - 1
        PROVE  mem'[a] = buf[a]
    <3>1. a \in Offset
      BY <1>2, <2>1, SMT
    <3>2. CASE a \in p .. p + 3
      <4>1. a - p \in 0 .. remain - 1 /\ p + (a - p) = a
        BY <1>2, <2>1, <3>2, SMT
      <4>2. mem'[a] = d[a - p]
        BY <2>1, <2>2, <3>1, <3>2, Zenon
      <4>3. d[a - p] = buf[p + (a - p)]
        BY <2>1, <4>1 DEF TailCopied
      <4> QED
        BY <4>1, <4>2, <4>3
    <3>3. CASE a \notin p .. p + 3
      <4>1. mem'[a] = mem[a]
        BY <2>1, <3>1, <3>3, Zenon
      <4>2. a \in 0 .. Reached - 1
        BY <1>2, <2>1, <3>3, SMT DEF Reached
      <4> QED
        BY <2>2, <4>1, <4>2 DEF CopiedSoFar
    <3> QED
      BY <3>2, <3>3
  <2>3. CopiedSoFar'
    BY <2>1, <2>2 DEF CopiedSoFar, Reached
  <2> QED
    BY <2>1, <2>3, Zenon DEF TailCopied, BufKept
<1>9. CASE Store
  <2>1. PICK b \in size .. size + Word - 1, v \in Byte :
          mem' = [mem EXCEPT ![b] = v]
    BY <1>9 DEF Store
  <2>2. /\ op' = op /\ size' = size /\ pc' = pc /\ p' = p /\ d' = d
        /\ buf' = buf /\ remain' = remain /\ alive' = alive
        /\ Reached' = Reached
    BY <1>9 DEF Store, remain, Reached
  <2>3. \A a \in 0 .. Reached - 1 : a \in Offset /\ a # b
    BY <1>2, <2>1, SMT DEF Reached, Word
  <2>4. \A a \in 0 .. Reached - 1 : mem'[a] = mem[a]
    BY <1>1, <2>1, <2>3, Zenon DEF TypeOK
  <2> QED
    BY <2>2, <2>4, Zenon DEF CopiedSoFar, TailCopied, BufKept
<1>10. CASE Kill
  <2>1. ~alive' /\ buf' = buf /\ op' = op /\ size' = size /\ pc' = pc /\ p' = p
        /\ d' = d /\ remain' = remain
    BY <1>10 DEF Kill, remain
  <2> QED
    BY <2>1, Zenon DEF CopiedSoFar, TailCopied, BufKept
<1>11. CASE UNCHANGED vars
  <2>1. remain' = remain /\ Reached' = Reached
    BY <1>11 DEF vars, remain, Reached
  <2> QED
    BY <1>11, <2>1, Zenon DEF vars, CopiedSoFar, TailCopied, BufKept
<1> QED
  BY <1>3, <1>4, <1>5, <1>6, <1>7, <1>8, <1>9, <1>10, <1>11 DEF Next, Copy

(* When a copy ends with the application alive, both sides agree on every   *)
(* byte of it, whatever its size; the injector's buffer is not overrun.     *)
THEOREM CopiedCorrect == Spec => []Copied
<1>1. Init => CopiedSoFar /\ TailCopied /\ BufKept
  <2> SUFFICES ASSUME Init PROVE CopiedSoFar /\ TailCopied /\ BufKept
    OBVIOUS
  <2>1. Reached = 0
    BY DEF Init, Reached
  <2>2. CopiedSoFar
    BY <2>1, SMT DEF CopiedSoFar
  <2> QED
    BY <2>2 DEF Init, TailCopied, BufKept
<1>2. CopiedSoFar /\ BufKept => Copied
  BY DEF CopiedSoFar, BufKept, Copied, Reached
<1> QED
  BY <1>1, <1>2, IInvInit, IInvStep, CopyStep, PTL DEF Spec
===============================================================================
