--------------------------------- MODULE Files ---------------------------------
(***************************************************************************)
(* lab2/zad1 and zad2: programs that copy one file to another with one     *)
(* character replaced (zamien with system calls, zamien2 with the          *)
(* library), or in reverse order (reverse byte by byte, reverse2 by        *)
(* blocks).                                                                *)
(*                                                                         *)
(* O_CREAT || O_APPEND is 1, which is O_WRONLY: zamien needs a file that   *)
(* is there, and writes over its bytes from the first one on.  "a+b"       *)
(* creates a file or appends to it.  None is a file that does not exist;   *)
(* the programs of zad2 do not check for one, and crash.  Garbage is a     *)
(* byte of a buffer that no read has filled.                               *)
(***************************************************************************)
EXTENDS Integers, Sequences

CONSTANTS
  Programs,  \* those that are run: of "zamien", "zamien2", "reverse", "reverse2"
  Inputs,    \* the contents of the input file, or None
  Outputs,   \* the contents of the output file at first, or None
  search, replace, \* the characters of zad1
  BLOCK_SIZE,
  None, Garbage

VARIABLES
  program,
  input, old, \* the files' contents at first
  status,     \* "open", "copy", "offset", "done", "failed" or "crashed"
  pos,        \* the position in the input file
  output      \* the output file

vars == <<program, input, old, status, pos, output>>

files == <<program, input, old>>

Size == Len(input)

-----------------------------------------------------------------------------
Init ==
  /\ program \in Programs
  /\ input \in Inputs
  /\ old \in Outputs
  /\ status = "open"
  /\ pos = 0
  /\ output = old

Replacing == program \in {"zamien", "zamien2"}

Created == IF old = None THEN <<>> ELSE old

OpenFails ==
  /\ status = "open"
  /\ \/ input = None
     \/ program = "zamien" /\ old = None
  /\ IF Replacing THEN status' = "failed" /\ UNCHANGED output
                  ELSE status' = "crashed" /\ output' = Created
  /\ UNCHANGED <<files, pos>>

\* zad2 seeks to the last byte or block: a seek to before the file fails.
Open ==
  /\ status = "open"
  /\ input # None
  /\ program = "zamien" => old # None
  /\ output' = Created
  /\ LET step == CASE Replacing -> Size
                   [] program = "reverse" -> 1
                   [] OTHER -> BLOCK_SIZE
     IN  pos' = IF step <= Size THEN Size - step ELSE 0
  /\ status' = "copy"
  /\ UNCHANGED files

Put(bytes) ==
  output' = IF program = "zamien"
              THEN SubSeq(output, 1, pos) \o bytes
                     \o SubSeq(output, pos + Len(bytes) + 1, Len(output))
              ELSE output \o bytes

replaceCharacters ==
  /\ status = "copy" /\ Replacing
  /\ IF pos = Size
       THEN status' = "done" /\ UNCHANGED <<pos, output>>
       ELSE /\ Put(<<IF input[pos + 1] = search THEN replace ELSE input[pos + 1]>>)
            /\ pos' = pos + 1
            /\ UNCHANGED status
  /\ UNCHANGED files

\* zamien checks what write returns.
WriteFails ==
  /\ status = "copy" /\ program = "zamien" /\ pos < Size
  /\ status' = "failed"
  /\ UNCHANGED <<files, pos, output>>

\* Mutant: the byte at position 0 is left to nobody.
reverseShort ==
  /\ status = "copy" /\ program = "reverse"
  /\ IF pos = 0
       THEN status' = "done" /\ UNCHANGED <<pos, output>>
       ELSE Put(<<input[pos + 1]>>) /\ pos' = pos - 1 /\ UNCHANGED status
  /\ UNCHANGED files

\* The byte at position 0 is read after the loop.
reverse ==
  /\ status = "copy" /\ program = "reverse"
  /\ Put(<<IF Size = 0 THEN Garbage ELSE input[pos + 1]>>)
  /\ IF pos = 0
       THEN status' = "done" /\ UNCHANGED pos
       ELSE pos' = pos - 1 /\ UNCHANGED status
  /\ UNCHANGED files

\* The bytes of the input at the positions from first down to last.
Down(first, last) ==
  [k \in 1..(first - last + 1) |->
     IF first - k + 2 <= Size THEN input[first - k + 2] ELSE Garbage]

\* The loop over the block leaves out the block's first byte.
reverse_block ==
  /\ status = "copy" /\ program = "reverse2"
  /\ IF pos = 0
       THEN status' = "offset" /\ UNCHANGED <<pos, output>>
       ELSE /\ Put(Down(pos + BLOCK_SIZE - 1, pos + 1))
            /\ IF pos < BLOCK_SIZE
                 THEN status' = "offset" /\ UNCHANGED pos
                 ELSE pos' = pos - BLOCK_SIZE /\ UNCHANGED status
  /\ UNCHANGED files

\* The rest is read from the position that is its length.
reverse_offset ==
  /\ status = "offset"
  /\ LET offsetSize == Size % BLOCK_SIZE
     IN  Put(Down(2 * offsetSize - 1, offsetSize))
  /\ status' = "done"
  /\ UNCHANGED <<files, pos>>

Next ==
  \/ OpenFails \/ Open \/ WriteFails
  \/ replaceCharacters \/ reverse \/ reverse_block \/ reverse_offset

Spec == Init /\ [][Next]_vars

-----------------------------------------------------------------------------
Bytes == (UNION {{f[k] : k \in DOMAIN f} : f \in (Inputs \cup Outputs) \ {None}})
           \cup {replace, Garbage}

TypeOK ==
  /\ program \in Programs /\ input \in Inputs /\ old \in Outputs
  /\ status \in {"open", "copy", "offset", "done", "failed", "crashed"}
  /\ pos \in Nat /\ (input # None => pos <= Size)
  /\ output \in Seq(Bytes) \cup {None}

\* What tr prints, and the input in reverse order.
Replaced == [k \in 1..Size |-> IF input[k] = search THEN replace ELSE input[k]]
Reversed == [k \in 1..Size |-> input[Size + 1 - k]]

\* The bytes left over, and the whole blocks that are not lost.
Rest == Size % BLOCK_SIZE
Blocks ==
  IF Rest = 0 /\ Size > 0 THEN Size \div BLOCK_SIZE - 1 ELSE Size \div BLOCK_SIZE

(***************************************************************************)
(* zamien writes what tr prints over the first bytes of the output file    *)
(* and leaves the others; zamien2 appends it (lab_02_polecenie.txt asks    *)
(* for the same output as tr's).  reverse appends the bytes in reverse     *)
(* order, or a byte of garbage for an empty file.  reverse2 should do the  *)
(* same; it loses the first byte of each whole block, the whole first      *)
(* block if no bytes are left over, and else the bytes left over, for      *)
(* which it puts out the ones that follow them, or garbage.                *)
(***************************************************************************)
CopiesMatch ==
  status = "done" =>
    LET before == Created
        end == Len(before) + Blocks * (BLOCK_SIZE - 1)
    IN  /\ program = "zamien" =>
             output = Replaced \o SubSeq(before, Size + 1, Len(before))
        /\ program = "zamien2" => output = before \o Replaced
        /\ program = "reverse" =>
             output = before \o (IF Size = 0 THEN <<Garbage>> ELSE Reversed)
        /\ program = "reverse2" =>
             /\ SubSeq(output, 1, Len(before)) = before
             /\ \A b \in 0..(Blocks - 1), k \in 1..(BLOCK_SIZE - 1) :
                  output[Len(before) + b * (BLOCK_SIZE - 1) + k] = Reversed[b * BLOCK_SIZE + k]
             /\ SubSeq(output, end + 1, Len(output)) = Down(2 * Rest - 1, Rest)

=============================================================================
