------------------------------- MODULE PtraceData -----------------------------
(***************************************************************************)
(* ptrace_writedata and ptrace_readdata of elfinject.c: copies between the *)
(* injector and the memory of the traced application, in words of four     *)
(* bytes, with a read-modify-write of the last word of a write.            *)
(*                                                                         *)
(* ptrace stops one thread of the application.  The others run on and may  *)
(* write to memory that is not the copy's own, and the application may be  *)
(* killed; the results of ptrace, and the value it then gives, are not     *)
(* looked at.                                                              *)
(***************************************************************************)
EXTENDS Integers

CONSTANTS
  Byte,     \* the values of a byte
  Ones,     \* the byte 0xff, of which the -1 of a failed PEEKTEXT consists
  MaxSize,  \* bound: the longest copy
  Initial,  \* the bytes of the target before the copy, address by address
  Data      \* the bytes to be written

Word == 4   \* sizeof(long), and the 4 of the code

(* Addresses are relative to dest or src; those behind the copy up to the   *)
(* end of its last word are what it might touch by mistake.                 *)
Offset == 0 .. MaxSize + Word

ASSUME DataAssumption ==
  /\ MaxSize \in Nat
  /\ Ones \in Byte
  /\ Initial \in [Offset -> Byte]
  /\ Data \in [Offset -> Byte]

VARIABLES
  op,      \* "read" or "write"
  size,
  pc,      \* "words", "tail", "poke" (the tail's second half) or "done"
  i,       \* the loop's counter
  p,       \* how far src or dest, and laddr with it, has moved on
  d,       \* the word in the union
  mem,     \* the target's memory
  buf,     \* the injector's buffer: the data of a write, the result of a read
  alive,   \* the target is there
  expect,  \* history: what the application itself last stored at an address
  raced    \* history: it stored into the last word within its read-modify-write

vars == <<op, size, pc, i, p, d, mem, buf, alive, expect, raced>>

TypeOK ==
  /\ op \in {"read", "write"}
  /\ size \in 0 .. MaxSize
  /\ pc \in {"words", "tail", "poke", "done"}
  /\ i \in Nat
  /\ p \in 0 .. MaxSize
  /\ d \in [0 .. Word - 1 -> Byte]
  /\ mem \in [Offset -> Byte]
  /\ buf \in [Offset -> Byte]
  /\ alive \in BOOLEAN
  /\ expect \in [Offset -> Byte]
  /\ raced \in BOOLEAN

Init ==
  /\ op \in {"read", "write"}
  /\ size \in 0 .. MaxSize
  /\ pc = "words"
  /\ i = 0
  /\ p = 0
  /\ d = [k \in 0 .. Word - 1 |-> Ones]
  /\ mem = Initial
  /\ buf = Data
  /\ alive = TRUE
  /\ expect = Initial
  /\ raced = FALSE
-------------------------------------------------------------------------------
(* Mutant: the words are rounded up, and the tail is copied as well. *)
jRoundedUp == (size + Word - 1) \div Word

j == size \div Word
remain == size % Word

(* PTRACE_PEEKTEXT and PTRACE_POKETEXT at the current address. *)
Peek ==
  [k \in 0 .. Word - 1 |-> IF alive THEN mem[p + k] ELSE Ones]

Poke(w) ==
  mem' = [a \in Offset |->
            IF alive /\ a \in p .. p + Word - 1 THEN w[a - p] ELSE mem[a]]

(* memcpy of n bytes into the buffer at laddr. *)
CopyOut(w, n) ==
  buf' = [a \in Offset |-> IF a \in p .. p + n - 1 THEN w[a - p] ELSE buf[a]]

(* The next word. *)
Advance ==
  /\ i' = i + 1
  /\ p' = p + Word

WriteWord ==
  /\ pc = "words"
  /\ op = "write"
  /\ i < j
  /\ d' = [k \in 0 .. Word - 1 |-> buf[p + k]]
  /\ Poke(d')
  /\ Advance
  /\ UNCHANGED <<op, size, pc, buf, alive, expect, raced>>

ReadWord ==
  /\ pc = "words"
  /\ op = "read"
  /\ i < j
  /\ d' = Peek
  /\ CopyOut(d', Word)
  /\ Advance
  /\ UNCHANGED <<op, size, pc, mem, alive, expect, raced>>

(* The loop is over: return, or remain > 0. *)
EndWords ==
  /\ pc = "words"
  /\ i = j
  /\ pc' = IF remain > 0 THEN "tail" ELSE "done"
  /\ UNCHANGED <<op, size, i, p, d, mem, buf, alive, expect, raced>>

(* Mutant: memcpy of a whole word. *)
ReadTailWord ==
  /\ pc = "tail"
  /\ op = "read"
  /\ d' = Peek
  /\ CopyOut(d', Word)
  /\ pc' = "done"
  /\ UNCHANGED <<op, size, i, p, mem, alive, expect, raced>>

ReadTail ==
  /\ pc = "tail"
  /\ op = "read"
  /\ d' = Peek
  /\ CopyOut(d', remain)
  /\ pc' = "done"
  /\ UNCHANGED <<op, size, i, p, mem, alive, expect, raced>>

(* Mutant: the rest of the last word is not read before it is written. *)
WriteTailBlind ==
  /\ pc = "tail"
  /\ op = "write"
  /\ d' = [k \in 0 .. Word - 1 |-> IF k < remain THEN buf[p + k] ELSE d[k]]
  /\ pc' = "poke"
  /\ UNCHANGED <<op, size, i, p, mem, buf, alive, expect, raced>>

(* The last word is read and the remaining bytes are put into it, *)
WriteTail ==
  /\ pc = "tail"
  /\ op = "write"
  /\ d' = [k \in 0 .. Word - 1 |-> IF k < remain THEN buf[p + k] ELSE Peek[k]]
  /\ pc' = "poke"
  /\ UNCHANGED <<op, size, i, p, mem, buf, alive, expect, raced>>

(* and it is written back. *)
WriteBack ==
  /\ pc = "poke"
  /\ Poke(d)
  /\ pc' = "done"
  /\ UNCHANGED <<op, size, i, p, d, buf, alive, expect, raced>>

Copy ==
  \/ WriteWord \/ ReadWord \/ EndWords \/ ReadTail \/ WriteTail \/ WriteBack
-------------------------------------------------------------------------------
(* External: another thread of the application stores a byte behind the     *)
(* copy, at most a word away: farther ones it does not meet,                *)
Store ==
  /\ alive
  /\ \E a \in size .. size + Word - 1, v \in Byte :
       /\ mem' = [mem EXCEPT ![a] = v]
       /\ expect' = [expect EXCEPT ![a] = v]
       /\ raced' = (raced \/ (pc = "poke" /\ a < p + Word))
  /\ UNCHANGED <<op, size, pc, i, p, d, buf, alive>>

(* and the application is killed. *)
Kill ==
  /\ alive
  /\ alive' = FALSE
  /\ UNCHANGED <<op, size, pc, i, p, d, mem, buf, expect, raced>>

Next == Copy \/ Store \/ Kill

Spec == Init /\ [][Next]_vars
-------------------------------------------------------------------------------
(* A copy changes no byte of the application outside its range, whatever    *)
(* its size and however other threads store around it, unless one stores    *)
(* into the last word between its PEEKTEXT and its POKETEXT.                *)
OutsideKept ==
  ~raced => \A a \in Offset : op = "read" \/ a >= size => mem[a] = expect[a]

(* A copy that ends with the application alive has copied every byte.       *)
(* Nothing of the injector's is overrun: the bytes of its buffer behind     *)
(* size, and all bytes of a write, stay what they were.                     *)
Copied ==
  /\ pc = "done" /\ alive => \A a \in 0 .. size - 1 : mem[a] = buf[a]
  /\ \A a \in Offset : op = "write" \/ a >= size => buf[a] = Data[a]
===============================================================================
