------------------------------- MODULE NarFormat -------------------------------
(***************************************************************************)
(* The NAR format of nix-compat (nar/writer, nar/reader), in the tokens of   *)
(* nar/wire: the fixed tokens, byte strings, a file's length, its bytes and   *)
(* the padding after them.                                                    *)
(*                                                                            *)
(* A tree is <<"file", bytes, executable>>, <<"symlink", target>> or          *)
(* <<"dir", entries>> with entries a sequence of <<name, tree>>; a name is a  *)
(* number (names are compared), and so is a target; BadString stands for one  *)
(* that is empty, too long, has a NUL, or (a name) a slash or is a dot.       *)
(*                                                                            *)
(* The reader is fed any token at every point and a consumer builds the tree  *)
(* from what it returns.  The synchronous reader carries the status with      *)
(* which debug builds catch a consumer that reads from the wrong object.      *)
(***************************************************************************)
EXTENDS Integers, SequencesExt

CONSTANTS
    PadTo,          \* what file contents are padded to; 8 in the code
    NarModes,       \* the readers: "sync", "async"
    Strings, FileBytes,
    MaxInput,       \* bound on the tokens fed
    Trees           \* archives every reader has to accept

Tok(x) == <<x>>
Str(x) == <<"str", x>>
BadString == 0
U64(n) == <<"u64", n>>
Byte(c) == <<"byte", c>>
Padding(n) == IF n % PadTo = 0 THEN <<>> ELSE <<Tok("pad")>>

-----------------------------------------------------------------------------
(* nar::writer::async *)
OpenNar == <<Tok("NAR")>>

Symlink(target) == <<Tok("SYM"), Str(target), Tok("PAR")>>

(* The contents have to have the announced size. *)
FitsSize(size, content) == Len(content) = size

File(executable, size, content) ==
    <<Tok(IF executable THEN "EXE" ELSE "REG"), U64(size)>>
      \o [i \in 1..size |-> Byte(content[i])] \o Padding(size) \o <<Tok("PAR")>>

Directory == <<Tok("DIR")>>

Entry(first, name) ==
    (IF first THEN <<>> ELSE <<Tok("PAR")>>) \o <<Tok("ENT"), Str(name), Tok("NOD")>>

Close(empty) == IF empty THEN <<Tok("PAR")>> ELSE <<Tok("PAR"), Tok("PAR")>>

RECURSIVE WriteNode(_)
WriteNode(t) ==
    CASE t[1] = "symlink" -> Symlink(t[2])
      [] t[1] = "file" -> File(t[3], Len(t[2]), t[2])
      [] t[1] = "dir" ->
           Directory
             \o FoldLeft(LAMBDA acc, i : acc \o Entry(i = 1, t[2][i][1]) \o WriteNode(t[2][i][2]),
                         <<>>, [i \in DOMAIN t[2] |-> i])
             \o Close(t[2] = <<>>)

WriteNar(t) == OpenNar \o WriteNode(t)

-----------------------------------------------------------------------------
VARIABLES
    mode,       \* which reader
    input,      \* the tokens it was fed
    at,         \* what it reads next
    file,       \* the file being read: [executable, len, got]
    stack,      \* the DirReaders: [prev_name, entries, ready]
    poisoned,   \* ArchiveReaderStatus, shared by all of them
    tree        \* what the consumer has built

narVars == <<mode, input, at, file, stack, poisoned, tree>>

NoName == -1
NoFile == [executable |-> FALSE, len |-> 0, got |-> <<>>]
Ended == {"end", "error", "panic"}

Fails(poisons) ==
    /\ at' = "error"
    /\ poisoned' = (poisoned \/ (mode = "sync" /\ poisons))
    /\ UNCHANGED <<file, stack, tree>>

(* The consumer has a complete node: it goes to the directory being read. *)
(* ready_parent lets that directory be used again.                        *)
Complete(st, node) ==
    IF st = <<>> THEN at' = "end" /\ tree' = node /\ stack' = st
    ELSE /\ at' = "next"
         /\ stack' = [st EXCEPT ![Len(st)].entries = Append(@, <<st[Len(st)].prev_name, node>>),
                                ![Len(st)].ready = TRUE]
         /\ UNCHANGED tree

ReadMagic(t) ==
    /\ at = "magic"
    /\ IF t = Tok("NAR") THEN at' = "node" /\ UNCHANGED <<file, stack, poisoned, tree>>
       ELSE Fails(FALSE)

(* Node::new: the kind of node, of which only the errors after the tag poison. *)
ReadNode(t) ==
    /\ at = "node"
    /\ CASE t = Tok("SYM") -> at' = "target" /\ UNCHANGED <<file, stack, poisoned, tree>>
         [] t \in {Tok("REG"), Tok("EXE")} ->
              /\ at' = "len"
              /\ file' = [NoFile EXCEPT !.executable = (t = Tok("EXE"))]
              /\ UNCHANGED <<stack, poisoned, tree>>
         [] t = Tok("DIR") ->
              /\ at' = "next"
              /\ stack' = Append(stack, [prev_name |-> NoName, entries |-> <<>>, ready |-> TRUE])
              /\ UNCHANGED <<file, poisoned, tree>>
         [] OTHER -> Fails(FALSE)

ReadTarget(t) ==
    /\ at = "target"
    /\ IF t \in {Str(x) : x \in Strings}
       THEN at' = "target_par" /\ file' = [NoFile EXCEPT !.got = <<t[2]>>] /\ UNCHANGED <<stack, poisoned, tree>>
       ELSE Fails(TRUE)

ReadTargetPar(t) ==
    /\ at = "target_par"
    /\ IF t = Tok("PAR")
       THEN Complete(stack, <<"symlink", file.got[1]>>) /\ file' = NoFile /\ UNCHANGED poisoned
       ELSE Fails(TRUE)

(* FileReader::new. *)
ReadLen(t) ==
    /\ at = "len"
    /\ IF t[1] = "u64"
       THEN /\ at' = IF t[2] = 0 THEN "file_par" ELSE "contents"
            /\ file' = [file EXCEPT !.len = t[2]]
            /\ UNCHANGED <<stack, poisoned, tree>>
       ELSE Fails(TRUE)

(* FileReader::read, fill_buf and consume: what is read comes off the length. *)
ReadContents(t) ==
    /\ at = "contents"
    /\ IF t[1] = "byte"
       THEN /\ file' = [file EXCEPT !.got = Append(@, t[2])]
            /\ at' = IF Len(file.got) + 1 < file.len THEN "contents"
                     ELSE IF file.len % PadTo # 0 THEN "pad" ELSE "file_par"
            /\ UNCHANGED <<stack, poisoned, tree>>
       ELSE Fails(TRUE)

(* FileReader::finish: padding that is all zeroes, then the terminator.  The *)
(* terminator of an empty file is read by FileReader::new, and its error     *)
(* does not poison.                                                          *)
ReadPad(t) ==
    /\ at = "pad"
    /\ IF t = Tok("pad") THEN at' = "file_par" /\ UNCHANGED <<file, stack, poisoned, tree>>
       ELSE Fails(TRUE)

ReadFilePar(t) ==
    /\ at = "file_par"
    /\ IF t = Tok("PAR")
       THEN Complete(stack, <<"file", file.got, file.executable>>) /\ file' = NoFile /\ UNCHANGED poisoned
       ELSE Fails(file.len # 0)

(* DirReader::next: check_correct, the terminator of the entry before, the tag. *)
Top == stack[Len(stack)]

CheckCorrect(dir) == mode = "sync" => ~poisoned /\ dir.ready

NextEntry ==
    /\ at = "next"
    /\ at' = IF ~CheckCorrect(Top) THEN "panic" ELSE IF Top.prev_name = NoName THEN "entry" ELSE "entry_par"
    /\ UNCHANGED <<mode, input, file, stack, poisoned, tree>>

ReadEntryPar(t) ==
    /\ at = "entry_par"
    /\ IF t = Tok("PAR") THEN at' = "entry" /\ UNCHANGED <<file, stack, poisoned, tree>>
       ELSE Fails(TRUE)

ReadEntry(t) ==
    /\ at = "entry"
    /\ CASE t = Tok("ENT") -> at' = "name" /\ UNCHANGED <<file, stack, poisoned, tree>>
         [] t = Tok("PAR") -> Complete(Front(stack), <<"dir", Top.entries>>) /\ UNCHANGED <<file, poisoned>>
         [] OTHER -> Fails(TRUE)

(* Mutant: an entry may repeat the name before it. *)
ReadName_Repeated(t) ==
    /\ at = "name"
    /\ IF t \in {Str(n) : n \in Strings} /\ Top.prev_name <= t[2]
       THEN /\ at' = "nod"
            /\ stack' = [stack EXCEPT ![Len(stack)].prev_name = t[2]]
            /\ UNCHANGED <<file, poisoned, tree>>
       ELSE Fails(TRUE)

(* The name: well-formed, and greater than the one before. *)
ReadName(t) ==
    /\ at = "name"
    /\ IF t \in {Str(n) : n \in Strings} /\ Top.prev_name < t[2]
       THEN /\ at' = "nod"
            /\ stack' = [stack EXCEPT ![Len(stack)].prev_name = t[2]]
            /\ UNCHANGED <<file, poisoned, tree>>
       ELSE Fails(TRUE)

(* child() takes the directory away from the consumer until the child is read. *)
ReadNod(t) ==
    /\ at = "nod"
    /\ IF t = Tok("NOD")
       THEN /\ at' = "node"
            /\ stack' = [stack EXCEPT ![Len(stack)].ready = FALSE]
            /\ UNCHANGED <<file, poisoned, tree>>
       ELSE Fails(TRUE)

(* The next token, and the whole of what the reader does with it.  At the end *)
(* of the input the token is missing: an error, except that the asynchronous  *)
(* reader never leaves a name that is cut off (NarWire, read_bytes_buf).      *)
Tokens ==
    {Tok(x) : x \in {"NAR", "SYM", "REG", "EXE", "DIR", "ENT", "NOD", "PAR", "pad"}}
      \cup {Str(x) : x \in Strings \cup {BadString}}
      \cup {U64(n) : n \in 0..2} \cup {Byte(c) : c \in FileBytes}

Missing == <<"eof">>

Feed(t) ==
    /\ at \notin Ended /\ Len(input) < MaxInput
    /\ t = Missing => ~(mode = "async" /\ at = "name")
    /\ input' = Append(input, t)
    /\ \/ ReadMagic(t) \/ ReadNode(t) \/ ReadTarget(t) \/ ReadTargetPar(t)
       \/ ReadLen(t) \/ ReadContents(t) \/ ReadPad(t) \/ ReadFilePar(t)
       \/ ReadEntryPar(t) \/ ReadEntry(t) \/ ReadName(t) \/ ReadNod(t)
    /\ UNCHANGED mode

(* A consumer that lets go of what it reads and goes back to a directory, or *)
(* goes on after an error.                                                   *)
Misuse ==
    /\ mode = "sync"
    /\ \E depth \in 1..Len(stack) :
          /\ \/ at \in {"contents", "error"}
             \/ at = "next" /\ depth < Len(stack)
          /\ stack' = SubSeq(stack, 1, depth)
          /\ at' = IF CheckCorrect(stack[depth]) THEN "next" ELSE "panic"
    /\ file' = NoFile
    /\ UNCHANGED <<mode, input, poisoned, tree>>

FeedInit ==
    /\ mode \in NarModes
    /\ input = <<>> /\ at = "magic" /\ file = NoFile /\ stack = <<>>
    /\ poisoned = FALSE /\ tree = <<"none">>

FeedNext == NextEntry \/ Misuse \/ \E t \in Tokens \cup {Missing} : Feed(t)

-----------------------------------------------------------------------------
(* NarReaderExact: an archive that was read to its end is the one the writer  *)
(* writes for the tree the consumer built, so no two archives read alike; no  *)
(* archive the writer produces is rejected; and the names of a directory      *)
(* strictly increase, as the writer asserts of its entries.  Misuse by the    *)
(* consumer ends in the assertion of check_correct, never in a tree: after an  *)
(* error every directory reader still alive refuses to be used, although not   *)
(* every error poisons the archive (debug builds).                            *)
NarReaderExact ==
    /\ at = "end" => input = WriteNar(tree)
    /\ at = "error" => \A t \in Trees : ~IsPrefix(input, WriteNar(t))
    /\ \A d \in DOMAIN stack : LET names == stack[d].entries IN
          \A i \in 1 .. Len(names) - 1 : names[i][1] < names[i + 1][1]
    /\ mode = "sync" /\ at = "error" => \A d \in DOMAIN stack : ~CheckCorrect(stack[d])
=============================================================================
