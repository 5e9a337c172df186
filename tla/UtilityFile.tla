----------------------------- MODULE UtilityFile -----------------------------
(***************************************************************************)
(* utility_file_readln of utility_file.c, byte by byte, and the loop of    *)
(* get_last_cpu (utility_cpu.c) that counts the processors of              *)
(* /proc/cpuinfo with it.  The same buffer takes every line: it keeps what *)
(* longer lines have left behind, and it grows when it is full, at any     *)
(* byte of a line.                                                         *)
(*                                                                         *)
(* Bytes: "p" stands for the keyword, which counts if a separator " "      *)
(* follows it; NUL ends a string; "?" is one that nobody has written.      *)
(* A file has any text of up to MaxText bytes.                             *)
(***************************************************************************)
EXTENDS Integers, Sequences, FiniteSets

CONSTANTS
    Faults,         \* may calls fail: files not be opened or read, memory run out?
    BUFFER_INC,     \* by how much the buffer grows
    MaxText         \* bound: the bytes of a file

ASSUME UtilityFileAssumption ==
    Faults \in BOOLEAN /\ BUFFER_INC \in Nat \ {0} /\ MaxText \in Nat

VARIABLE file       \* a file that is read, and its reader

Bytes == {"p", " ", "\n"}

(* text is what fgetc has returned; line is where the current line began.  *)
(* ptr is how many bytes of the current line the buffer has.               *)
NoFile == [pc |-> "closed", text |-> <<>>, line |-> 0, feof |-> FALSE, ferror |-> FALSE,
           buffer |-> <<>>, ptr |-> 0, proc_count |-> 0, rc |-> 0]

FileAt(pc) == file.pc = pc
Readln(f)  == [f EXCEPT !.pc = "readln", !.line = Len(f.text), !.ptr = 0]

(* realloc keeps what there is.                                            *)
Enlarged(buffer) == buffer \o [i \in 1..BUFFER_INC |-> "?"]

(* utility_file_open_for_reading.                                          *)
OpenForReading(ok) ==
    /\ FileAt("closed")
    /\ ok \/ Faults
    /\ file' = IF ok THEN Readln(NoFile) ELSE [NoFile EXCEPT !.pc = "returned", !.rc = -1]

(* The beginning of utility_file_readln.                                   *)
BeginReadln(memory) ==
    /\ FileAt("readln")
    /\ memory \/ (Faults /\ file.buffer = <<>> /\ ~file.feof)
    /\ file' = CASE file.feof -> [file EXCEPT !.pc = "close", !.rc = -1]
                 [] ~file.feof /\ ~memory -> [file EXCEPT !.pc = "close", !.rc = -2]
                 [] OTHER -> [file EXCEPT !.pc = "fgetc",
                                 !.buffer = IF @ = <<>> THEN Enlarged(<<>>) ELSE @]

(* Variant: the buffer is enlarged when it is more than full.              *)
StoreByteLate(c, memory) ==
    LET read == [file EXCEPT !.text = Append(@, c)]
        stored == [read EXCEPT !.ptr = @ + 1,
                               !.buffer = [i \in DOMAIN @ |-> IF i = file.ptr + 1 THEN c ELSE @[i]]]
    IN IF stored.ptr <= Len(stored.buffer) THEN memory /\ file' = stored
       ELSE file' = IF memory THEN [stored EXCEPT !.buffer = Enlarged(@)]
                              ELSE [stored EXCEPT !.pc = "close", !.rc = -2]

(* A byte is stored, and if the buffer is full it is enlarged at once.     *)
StoreByte(c, memory) ==
    LET read == [file EXCEPT !.text = Append(@, c)]
        stored == [read EXCEPT !.ptr = @ + 1,
                               !.buffer = [i \in DOMAIN @ |-> IF i = file.ptr + 1 THEN c ELSE @[i]]]
    IN IF stored.ptr < Len(stored.buffer) THEN memory /\ file' = stored
       ELSE file' = IF memory THEN [stored EXCEPT !.buffer = Enlarged(@)]
                              ELSE [stored EXCEPT !.pc = "close", !.rc = -2]

Fgetc(c, memory) ==
    /\ FileAt("fgetc") /\ Len(file.text) < MaxText
    /\ c # "\n"
    /\ memory \/ Faults
    /\ StoreByte(c, memory)

(* Variant: the line is not terminated.                                    *)
Unterminated(f) == f.buffer

Terminated(f) == [f.buffer EXCEPT ![f.ptr + 1] = "NUL"]

(* A line ends with a newline, at the end of the file or at an error.      *)
EndOfLine(end) ==
    /\ FileAt("fgetc")
    /\ end = "newline" => Len(file.text) < MaxText
    /\ end = "error" => Faults
    /\ file' = [file EXCEPT !.buffer = Terminated(file),
                            !.text = IF end = "newline" THEN Append(@, "\n") ELSE @,
                            !.feof = end = "eof", !.ferror = end = "error",
                            !.rc = IF end = "error" THEN -2 ELSE 0,
                            !.pc = IF end = "error" THEN "close" ELSE "line"]

-----------------------------------------------------------------------------
(* get_last_cpu: the buffer as a string begins with the keyword.           *)
IsProcessor(buffer) == Len(buffer) > 1 /\ buffer[1] = "p" /\ buffer[2] = " "

CountLine ==
    /\ FileAt("line")
    /\ file' = Readln([file EXCEPT !.proc_count = IF IsProcessor(file.buffer) THEN @ + 1 ELSE @])

(* The buffer is freed and the file closed.                                *)
CloseAndReturn ==
    /\ FileAt("close")
    /\ file' = [file EXCEPT !.pc = "returned",
                            !.rc = IF file.rc = -2 THEN -1 ELSE file.proc_count - 1]

ReadFile ==
    \/ \E ok \in BOOLEAN : OpenForReading(ok) \/ BeginReadln(ok)
    \/ \E c \in Bytes, memory \in BOOLEAN : Fgetc(c, memory)
    \/ \E end \in {"newline", "eof", "error"} : EndOfLine(end)
    \/ CountLine \/ CloseAndReturn

-----------------------------------------------------------------------------
(* The lines of a text that begin with the keyword.                        *)
ProcessorLines(text) ==
    {i \in 1..(Len(text) - 1) : /\ i = 1 \/ text[i - 1] = "\n"
                                /\ text[i] = "p" /\ text[i + 1] = " "}

(* utility_file_readln hands out each line as it is in the file: there is  *)
(* always room for one byte more, what has been stored survives the growth *)
(* of the buffer, and the rest of a longer line before it is cut off.      *)
(* get_last_cpu returns the number of the last processor of the whole      *)
(* file, or -1 if it could not read the whole of it.                       *)
LastCpuCounted ==
    /\ FileAt("fgetc") =>
          /\ file.ptr < Len(file.buffer)
          /\ SubSeq(file.buffer, 1, file.ptr) = SubSeq(file.text, file.line + 1, Len(file.text))
    /\ FileAt("returned") =>
          file.rc = IF file.feof THEN Cardinality(ProcessorLines(file.text)) - 1 ELSE -1

=============================================================================
