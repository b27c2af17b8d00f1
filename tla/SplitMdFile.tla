----------------------------- MODULE SplitMdFile -----------------------------
(***************************************************************************)
(* trivials/splitMdFile.cpp: the parent reads the lines of a file and       *)
(* writes each one, length first, to the pipe of the child process that     *)
(* collects the lines of the same instrument.  Both ends do not block.  A   *)
(* write of at most PIPE_BUF bytes is whole or fails, so a pipe is a        *)
(* sequence of lengths and texts; a text taken for a length is garbage.     *)
(***************************************************************************)
EXTENDS Integers, Sequences, FiniteSets

CONSTANTS
  Instruments,
  Files,      \* the files that are split: sequences of [ins, letters]
  Capacity    \* how many lengths and texts a pipe holds

ASSUME SplitAssumption ==
  Files \subseteq Seq([ins : Instruments, letters : BOOLEAN]) /\ Capacity \in Nat

VARIABLES
  lines,      \* the file: of each line its instrument, and whether it has an e, n or d
  next,       \* the line the parent is at
  pstep,      \* length, text, stop, stoptext, done, killed
  stopped, target,   \* the children told to stop, and the last of them
  mapPipe,    \* the instruments that have a pipe and a child
  pipe,       \* of each instrument: what is in the pipe
  child,      \* none, forked, length, text, ended, garbage
  line,       \* the line the child had in memory when it was forked
  dstFile,    \* the lines written to each file
  splitSlips       \* history: "full", "early" (a text not there yet), "letters",
              \* "fails" (a call to pipe, fork or open)

splitVars == <<lines, next, pstep, stopped, target, mapPipe, pipe, child, line, dstFile, splitSlips>>

\* What is written to a pipe: a length, the text of a line (its number) or "end".
ALength == 0
Stop == -1
Ins == lines[next].ins

SplitTypeOK ==
  /\ lines \in Files /\ next \in 1 .. Len(lines) + 1
  /\ pstep \in {"length", "text", "stop", "stoptext", "done", "killed"}
  /\ mapPipe \subseteq Instruments /\ stopped \subseteq mapPipe
  /\ \A i \in Instruments :
       /\ Len(pipe[i]) <= Capacity /\ line[i] \in 0 .. Len(lines)
       /\ child[i] \in {"none", "forked", "length", "text", "ended", "garbage"}
       /\ child[i] = "none" <=> i \notin mapPipe
  /\ splitSlips \subseteq {"full", "early", "letters", "fails"}

SplitInit ==
  /\ lines \in Files /\ next = 1 /\ pstep = IF lines = <<>> THEN "stop" ELSE "length"
  /\ mapPipe = {} /\ stopped = {} /\ target = CHOOSE i \in Instruments : TRUE
  /\ pipe = [i \in Instruments |-> <<>>]
  /\ child = [i \in Instruments |-> "none"] /\ line = [i \in Instruments |-> 0]
  /\ dstFile = [i \in Instruments |-> <<>>] /\ splitSlips = {}

\* A new instrument: pipe and fork.  The child's copy of line is this line.  That fork
\* fails is not looked at: the pipe then has no reader.
fork ==
  /\ pstep = "length" /\ next <= Len(lines) /\ Ins \notin mapPipe
  /\ mapPipe' = mapPipe \cup {Ins} /\ line' = [line EXCEPT ![Ins] = next]
  /\ \/ child' = [child EXCEPT ![Ins] = "forked"] /\ UNCHANGED splitSlips
     \/ child' = [child EXCEPT ![Ins] = "ended"] /\ splitSlips' = splitSlips \cup {"fails"}
  /\ UNCHANGED <<lines, next, pstep, stopped, target, pipe, dstFile>>

\* pipe fails: the line is dropped.
pipe_fails ==
  /\ pstep = "length" /\ next <= Len(lines) /\ Ins \notin mapPipe
  /\ next' = next + 1 /\ pstep' = IF next = Len(lines) THEN "stop" ELSE "length"
  /\ splitSlips' = splitSlips \cup {"fails"}
  /\ UNCHANGED <<lines, mapPipe, stopped, target, pipe, child, line, dstFile>>

\* fixwrite to the pipe of i: nothing is written to a full pipe, and the result
\* is not looked at.  With its reader gone the process gets SIGPIPE.
fixwrite(i, what, then) ==
  IF child[i] = "ended" THEN pstep' = "killed" /\ UNCHANGED <<pipe, splitSlips>>
  ELSE /\ pstep' = then
       /\ IF Len(pipe[i]) < Capacity
          THEN pipe' = [pipe EXCEPT ![i] = Append(@, what)] /\ UNCHANGED splitSlips
          ELSE splitSlips' = splitSlips \cup {"full"} /\ UNCHANGED pipe

write_length ==
  /\ pstep = "length" /\ next <= Len(lines) /\ Ins \in mapPipe
  /\ fixwrite(Ins, ALength, "text")
  /\ UNCHANGED <<lines, next, mapPipe, stopped, target, child, line, dstFile>>

write_text ==
  /\ pstep = "text" /\ next' = next + 1
  /\ fixwrite(Ins, next, IF next = Len(lines) THEN "stop" ELSE "length")
  /\ UNCHANGED <<lines, mapPipe, stopped, target, child, line, dstFile>>

\* The stop message, length first, to every child in turn.
write_stop(i) ==
  /\ pstep = "stop" /\ i \in mapPipe \ stopped
  /\ stopped' = stopped \cup {i} /\ target' = i
  /\ fixwrite(i, ALength, "stoptext")
  /\ UNCHANGED <<lines, next, mapPipe, child, line, dstFile>>

write_stoptext ==
  /\ pstep = "stoptext" /\ fixwrite(target, Stop, "stop")
  /\ UNCHANGED <<lines, next, mapPipe, stopped, target, child, line, dstFile>>

\* waitpid for all the children.
wait_all ==
  /\ pstep = "stop" /\ stopped = mapPipe /\ \A i \in mapPipe : child[i] = "ended"
  /\ pstep' = "done"
  /\ UNCHANGED <<lines, next, mapPipe, stopped, target, pipe, child, line, dstFile, splitSlips>>

\* The child opens its file, or ends at once.
open_dstFile(i) ==
  /\ child[i] = "forked"
  /\ \/ child' = [child EXCEPT ![i] = "length"] /\ UNCHANGED splitSlips
     \/ child' = [child EXCEPT ![i] = "ended"] /\ splitSlips' = splitSlips \cup {"fails"}
  /\ UNCHANGED <<lines, next, pstep, mapPipe, stopped, target, pipe, line, dstFile>>

\* The child polls for a length and gets what comes next.
read_length(i) ==
  /\ child[i] = "length" /\ pipe[i] # <<>> /\ pipe' = [pipe EXCEPT ![i] = Tail(@)]
  /\ child' = [child EXCEPT ![i] = IF Head(pipe[i]) = ALength THEN "text" ELSE "garbage"]
  /\ UNCHANGED <<lines, next, pstep, mapPipe, stopped, target, line, dstFile, splitSlips>>

\* find_first_of("end") finds any of the three letters.
HasEnd(text) == text = Stop \/ lines[text].letters

\* It gets the text, ends if the text has one of the letters of "end", and
\* otherwise writes its copy of line, not the text.
read_text(i) ==
  LET text == Head(pipe[i]) IN
  /\ child[i] = "text" /\ pipe[i] # <<>> /\ pipe' = [pipe EXCEPT ![i] = Tail(@)]
  /\ CASE text = ALength ->
            child' = [child EXCEPT ![i] = "garbage"] /\ UNCHANGED <<dstFile, splitSlips>>
       [] text # ALength /\ HasEnd(text) ->
            /\ child' = [child EXCEPT ![i] = "ended"] /\ UNCHANGED dstFile
            /\ splitSlips' = IF text = Stop THEN splitSlips ELSE splitSlips \cup {"letters"}
       [] text # ALength /\ ~HasEnd(text) ->
            /\ child' = [child EXCEPT ![i] = "length"] /\ UNCHANGED splitSlips
            /\ dstFile' = [dstFile EXCEPT ![i] = Append(@, line[i])]
  /\ UNCHANGED <<lines, next, pstep, mapPipe, stopped, target, line>>

\* The text is not in the pipe yet: EAGAIN, and the length is forgotten.
read_text_early(i) ==
  /\ child[i] = "text" /\ pipe[i] = <<>>
  /\ child' = [child EXCEPT ![i] = "length"] /\ splitSlips' = splitSlips \cup {"early"}
  /\ UNCHANGED <<lines, next, pstep, mapPipe, stopped, target, pipe, line, dstFile>>

parent ==
  \/ fork \/ pipe_fails \/ write_length \/ write_text
  \/ (\E i \in Instruments : write_stop(i)) \/ write_stoptext \/ wait_all
reader(i) == open_dstFile(i) \/ read_length(i) \/ read_text(i) \/ read_text_early(i)

SplitNext == parent \/ \E i \in Instruments : reader(i)

-----------------------------------------------------------------------------
\* When the program ends and no pipe, fork or open failed, no write met a full pipe,
\* no text came late and no line held a letter of "end", each file has one line for
\* each line of its instrument, all of them the first one.  Until then no text is
\* ever taken for a length.  (main of splitMdFile.cpp)
FilesCounted ==
  splitSlips = {} =>
    /\ \A i \in Instruments : child[i] # "garbage"
    /\ pstep = "done" =>
         \A i \in mapPipe :
           LET own == {k \in 1 .. Len(lines) : lines[k].ins = i} IN
           /\ dstFile[i] = [k \in 1 .. Cardinality(own) |-> line[i]]
           /\ line[i] \in own /\ \A k \in own : line[i] <= k

\* Under the same conditions the program ends: every child is stopped and waited
\* for, in whichever order the map has them.
SplitEnds == pstep = "done" \/ splitSlips # {}
=============================================================================
