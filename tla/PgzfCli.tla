------------------------------ MODULE PgzfCli ------------------------------
(***************************************************************************)
(* The pgzf command (main.rs): which files an invocation reads, creates    *)
(* and deletes, in which order, and what is left when it fails or is       *)
(* killed on the way.                                                      *)
(*                                                                         *)
(* A path is the sequence of its parts: <<"a", "gz">> is a.gz.  So is the  *)
(* content of a file, outside in: <<"pgzf", "x">> is data x compressed,    *)
(* <<"cut", "pgzf", "x">> a part of that, <<>> the empty file.  "gzip" is  *)
(* the work of another program.                                            *)
(***************************************************************************)
EXTENDS Integers, SequencesExt

CONSTANTS
  Invocations,  \* command lines
  Names,        \* parts of paths
  InitialDisk,  \* files by path
  Data,         \* what must not be lost
  ShortData,    \* data of less than 32 bytes, and so short that gzip may
                \* make less than 32 of it
  MaxRuns       \* bound on the invocations

(* A whole copy of the data, as it is or compressed.                       *)
Intact(content, x) ==
  /\ content # <<>> /\ Last(content) = x
  /\ \A k \in 1 .. Len(content) - 1 : content[k] \in {"pgzf", "gzip"}

Safe(files) == \A x \in Data : \E path \in DOMAIN files : Intact(files[path], x)

NoPath == <<>>
Paths == Seq(Names) \ {NoPath}
Labels == {"pgzf", "gzip", "cut"} \cup Data

ASSUME CliConfig ==
  /\ ShortData \subseteq Data /\ Data \cap {"pgzf", "gzip", "cut"} = {}
  /\ {"gz", "out"} \subseteq Names
  /\ \A path \in DOMAIN InitialDisk : path \in Paths /\ InitialDisk[path] \in Seq(Labels)
  /\ Safe(InitialDisk)
  /\ MaxRuns \in Nat

(* What clap accepts.                                                      *)
ASSUME CliArguments == \A i \in Invocations :
  /\ i.mode \in {"inspect", "compress", "decompress"}
  /\ {i.stdout, i.keep, i.force, i.part} \subseteq BOOLEAN
  /\ i.output \in Paths \cup {NoPath} /\ i.files \in Seq(Paths)
  /\ i.block_size_mb \in Nat /\ i.stdin \in Seq(Labels)

VARIABLES
  disk,
  inv,      \* the invocation in progress, or the last one
  todo,     \* its files still to be worked on
  step,     \* what it does next, or "exit"
  stdout,   \* history: what it wrote there
  status,   \* history: how it ended
  before,   \* history: the files when it started
  careful,  \* history: no invocation so far was careless (Careful)
  runs      \* history: invocations so far

vars == <<disk, inv, todo, step, stdout, status, before, careful, runs>>
run == <<inv, before, careful, runs>>

NoInvocation == [mode |-> "inspect", stdout |-> FALSE, keep |-> FALSE, force |-> FALSE,
                 output |-> NoPath, part |-> FALSE, block_size_mb |-> 1, files |-> <<>>,
                 stdin |-> <<>>]

Init ==
  /\ disk = InitialDisk
  /\ inv = NoInvocation /\ todo = <<>> /\ step = "exit" /\ status = "none"
  /\ stdout = <<>> /\ before = InitialDisk /\ careful = TRUE /\ runs = 0

Exists(path) == path \in DOMAIN disk
Written(files, path, content) ==
  [p \in DOMAIN files \cup {path} |-> IF p = path THEN content ELSE files[p]]
Without(files, paths) == [p \in DOMAIN files \ paths |-> files[p]]
Removed(files, path) == Without(files, {path})

-----------------------------------------------------------------------------
(* Names.                                                                  *)
gz_extension(path) == Append(path, "gz")
strip_gz_extension(path) ==
  IF Len(path) > 1 /\ Last(path) = "gz" THEN Front(path) ELSE Append(path, "out")

(* Where the result for a file goes, NoPath being stdout.  -o has the      *)
(* precedence over -c when decompressing, and -c over -o when compressing. *)
Output(i, file) ==
  IF i.files # <<>> /\ i.mode = "compress" /\ i.stdout THEN NoPath
  ELSE IF i.output # NoPath THEN i.output
  ELSE IF i.files = <<>> \/ i.stdout THEN NoPath
  ELSE IF i.mode = "compress" THEN gz_extension(file) ELSE strip_gz_extension(file)

FromStdin == inv.files = <<>>
File == IF FromStdin THEN NoPath ELSE Head(todo)
Out == Output(inv, File)
Input == IF FromStdin THEN inv.stdin ELSE disk[File]

(* Contents.                                                               *)
Cut(content) ==
  IF content = <<>> \/ Head(content) = "cut" THEN content ELSE <<"cut">> \o content
Parts(content) == {<<>>, Cut(content), content}

IsPgzf(content) == content # <<>> /\ Head(content) = "pgzf"
IsGzip(content) == content # <<>> /\ Head(content) = "gzip"
IsCutPgzf(content) == Len(content) > 1 /\ Head(content) = "cut" /\ content[2] = "pgzf"
IsCutGzip(content) == Len(content) > 1 /\ Head(content) = "cut" /\ content[2] = "gzip"

(* No bytes make no member.  (A faulty variant first: without finish().)   *)
Unfinished(content) == IF content = <<>> THEN <<>> ELSE <<"cut", "pgzf">> \o content
Compressed(content) == IF content = <<>> THEN <<>> ELSE <<"pgzf">> \o content

(* What io::copy can yield, with -s or -q only a part of it.  A file that  *)
(* was cut reads as a prefix (Pgzf), a plain gzip file fails (PlainGzip),  *)
(* and an input that was also the output has become empty.                 *)
Results ==
  IF inv.mode = "compress" THEN {Compressed(Input)}
  ELSE IF IsPgzf(Input) THEN IF inv.part THEN Parts(Tail(Input)) ELSE {Tail(Input)}
  ELSE IF IsCutPgzf(Input) THEN Parts(Tail(Tail(Input)))
  ELSE IF Input = <<>> THEN {<<>>} ELSE {}

(* PgzfReader::new refuses what does not begin with a gzip header.         *)
Opens(content) ==
  IF inv.mode = "compress" \/ IsPgzf(content) \/ IsGzip(content) THEN {TRUE}
  ELSE IF IsCutPgzf(content) \/ IsCutGzip(content) THEN BOOLEAN
  ELSE {FALSE}

-----------------------------------------------------------------------------
(* An invocation that loses data by what it is told to do: a part of the   *)
(* data replaces the archive, several inputs go to one output (with -o, or *)
(* as -d a a.out.gz do), or an output replaces the only copy of something. *)
Overwrites(i) == i.mode = "decompress" \/ i.force \/ i.files = <<>>

Outputs(i) ==
  (IF i.files = <<>> THEN {Output(i, NoPath)}
   ELSE {Output(i, f) : f \in ToSet(i.files)}) \ {NoPath}

OutputsDiffer(i) ==
  \A f, g \in ToSet(i.files) : Output(i, f) = Output(i, g) => f = g \/ Output(i, f) = NoPath

Careful(i) ==
  \/ i.mode = "inspect"
  \/ /\ i.part => i.keep \/ i.stdout
     /\ OutputsDiffer(i)
     /\ Overwrites(i) => Safe(Without(disk, Outputs(i)))

(* main: the command line decides on the mode.                             *)
Start(i) ==
  /\ step = "exit" /\ runs < MaxRuns
  /\ inv' = i /\ todo' = i.files /\ before' = disk /\ stdout' = <<>> /\ runs' = runs + 1
  /\ careful' = (careful /\ Careful(i))
  /\ IF i.mode = "inspect" /\ i.files = <<>>
       THEN step' = "exit" /\ status' = "error"
       ELSE /\ status' = "none"
            /\ step' = IF i.files = <<>> THEN "open" ELSE "next"
  /\ UNCHANGED disk

Exit(how) == step' = "exit" /\ status' = how
Go(to) == step' = to /\ UNCHANGED status

(* The loops over the files.  Only compression looks at -f.  (A faulty     *)
(* variant first.)                                                         *)
NeverRefuses == FALSE
Refuses == inv.mode = "compress" /\ Out # NoPath /\ ~inv.force /\ Exists(Out)

NextFile ==
  /\ step = "next"
  /\ IF todo = <<>> THEN Exit("ok")
     ELSE IF inv.mode = "inspect" THEN Go("inspect")
     ELSE IF Refuses THEN Exit("error")
     ELSE Go("open")
  /\ UNCHANGED <<run, disk, todo, stdout>>

(* The input is opened, and an archive's index built, before the output is *)
(* created.                                                                *)
Open ==
  /\ step = "open"
  /\ IF ~FromStdin /\ ~Exists(File) THEN Exit("error")
     ELSE \E opens \in Opens(Input) : IF opens THEN Go("create") ELSE Exit("error")
  /\ UNCHANGED <<run, disk, todo, stdout>>

(* File::create truncates.  Compression to stdout and of stdin has gone    *)
(* through all of its input before, which makes no difference here.        *)
Create ==
  /\ step = "create"
  /\ disk' = IF Out = NoPath THEN disk ELSE Written(disk, Out, <<>>)
  /\ Go("copy")
  /\ UNCHANGED <<run, todo, stdout>>

(* write() never returns when the block size is 0.                         *)
Hangs == inv.mode = "compress" /\ inv.block_size_mb = 0 /\ Input # <<>>

CarryOn == Go("remove")  \* a faulty variant: the error is ignored
ReturnError == Exit("error")

(* The result is written: first some of it, which nothing may follow.      *)
Copy ==
  /\ step = "copy" /\ ~Hangs
  /\ IF Results = {} THEN ReturnError /\ UNCHANGED disk
     ELSE /\ Go("close")
          /\ \E result \in Results :
               disk' = IF Out = NoPath THEN disk ELSE Written(disk, Out, Cut(result))
  /\ UNCHANGED <<run, todo, stdout>>

RemovesAny == ~inv.keep /\ ~inv.stdout  \* a faulty variant
Removes == ~inv.keep /\ ~inv.stdout /\ ~FromStdin

Same == todo  \* a faulty variant
Others == Tail(todo)

Close ==
  /\ step = "close"
  /\ \E result \in Results :
       IF Out = NoPath
         THEN stdout' = Append(stdout, result) /\ UNCHANGED disk
         ELSE disk' = Written(disk, Out, result) /\ UNCHANGED stdout
  /\ IF Removes THEN Go("remove") /\ UNCHANGED todo
     ELSE IF FromStdin THEN Exit("ok") /\ UNCHANGED todo
     ELSE Go("next") /\ todo' = Others
  /\ UNCHANGED run

(* The error of remove_file is ignored.                                    *)
RemoveInput ==
  /\ step = "remove"
  /\ disk' \in {disk, Removed(disk, File)}
  /\ Go("next") /\ todo' = Others
  /\ UNCHANGED <<run, stdout>>

(* What inspect_file may take a file for.  To build(), a file too short    *)
(* for the header of a group is one without groups, and so is one whose    *)
(* first group has no GC yet.  What build() rejects goes to inspect_gzip,  *)
(* which looks at the gzip header and the last 8 bytes, whatever is        *)
(* missing before them; it fails on what is not gzip, and on a file cut in *)
(* the file name of its header.                                            *)
MayBeTooShort(content) ==
  \/ content = <<>>
  \/ Head(content) \in ShortData \cup {"cut"}
  \/ IsGzip(content) /\ (Len(content) = 1 \/ content[2] \in ShortData \cup {"cut"})

MayBeGzip(content) ==
  IsGzip(content) \/ IsCutPgzf(content) \/ IsCutGzip(content)

MayFail(content) ==
  \/ content # <<>> /\ Head(content) \in Data \ ShortData
  \/ content # <<>> /\ Head(content) = "cut" /\ ~IsCutPgzf(content)

Kinds(content) ==
  {kind \in {"pgzf", "gzip", "error"} :
     \/ kind = "pgzf" /\ (IsPgzf(content) \/ MayBeTooShort(content))
     \/ kind = "gzip" /\ MayBeGzip(content)
     \/ kind = "error" /\ MayFail(content)}

Inspect ==
  /\ step = "inspect"
  /\ IF ~Exists(File) THEN Exit("error") /\ UNCHANGED <<todo, stdout>>
     ELSE \E kind \in Kinds(disk[File]) :
            IF kind = "error" THEN Exit("error") /\ UNCHANGED <<todo, stdout>>
            ELSE /\ stdout' = Append(stdout, <<kind>>)
                 /\ Go("next") /\ todo' = Others
  /\ UNCHANGED <<run, disk>>

(* An error of a file, of stdin or of stdout returns from main at once; a  *)
(* signal ends the process.  Nothing is cleaned up.                        *)
Stop ==
  /\ step \in {"open", "create", "copy", "close", "remove", "inspect"}
  /\ Exit("stopped")
  /\ UNCHANGED <<run, disk, todo, stdout>>

Work == NextFile \/ Open \/ Create \/ Copy \/ Close \/ RemoveInput \/ Inspect

Next ==
  \/ \E i \in Invocations : Start(i)
  \/ Work
  \/ Stop

Spec == Init /\ [][Next]_vars

(* A process that has started runs on; files and pipes do not block.       *)
FairSpec == Spec /\ WF_vars(Work)

-----------------------------------------------------------------------------
TypeOK ==
  /\ \A path \in DOMAIN disk : path \in Paths /\ disk[path] \in Seq(Labels)
  /\ inv \in Invocations \cup {NoInvocation}
  /\ todo \in Seq(ToSet(inv.files))
  /\ step \in {"exit", "next", "inspect", "open", "create", "copy", "close", "remove"}
  /\ step \in {"inspect", "remove"} => todo # <<>>
  /\ status \in {"none", "ok", "error", "stopped"}
  /\ stdout \in Seq(Seq(Labels)) /\ careful \in BOOLEAN /\ runs \in 0..MaxRuns

(* Killed or failing at any step of any invocation, the command leaves a   *)
(* whole copy of everything, plain or compressed, unless it was told to do *)
(* what loses data: an input goes only when its output is complete.        *)
DataSurvives == careful => Safe(disk)

(* "-f Force overwrite" (README.md): without it, compression changes no    *)
(* file that it found but its inputs, and those only by removing them, and *)
(* with -k not even them.                                                  *)
OnlyInputsGo ==
  inv.mode = "compress" /\ ~inv.force /\ inv.files # <<>> =>
    \A path \in DOMAIN before :
      \/ Exists(path) /\ disk[path] = before[path]
      \/ ~inv.keep /\ ~inv.stdout /\ path \in ToSet(inv.files)

(* When it reports success, every file has been turned into what was asked *)
(* for, in order.  (Of whole files, none of them the output of another,    *)
(* and for -i none so short that it looks like an empty archive.)          *)
Expected(content) ==
  CASE inv.mode = "compress" -> <<"pgzf">> \o content
    [] inv.mode = "decompress" -> Tail(content)
    [] inv.mode = "inspect" -> <<Head(content)>>

Contents ==
  IF FromStdin /\ inv.mode # "inspect" THEN <<inv.stdin>>
  ELSE [k \in DOMAIN inv.files |-> before[inv.files[k]]]

Suitable(content) ==
  /\ \E x \in Data : Intact(content, x)
  /\ inv.mode = "inspect" => /\ Head(content) \in {"pgzf", "gzip"}
                             /\ ~MayBeTooShort(content)

Proper ==
  /\ careful /\ ~inv.part
  /\ ToSet(inv.files) \subseteq DOMAIN before \ Outputs(inv)
  /\ \A k \in DOMAIN Contents : Suitable(Contents[k])

SuccessMeansDone ==
  status = "ok" /\ Proper =>
    \A k \in DOMAIN Contents :
      LET out == Output(inv, IF FromStdin THEN NoPath ELSE inv.files[k])
      IN IF inv.mode = "inspect" \/ out = NoPath
         THEN k \in DOMAIN stdout /\ stdout[k] = Expected(Contents[k])
         ELSE Exists(out) /\ disk[out] = Expected(Contents[k])

(* Every invocation ends, unless the block size is 0 (-b 0).               *)
Terminates == step # "exit" /\ inv.block_size_mb > 0 ~> step = "exit"
=============================================================================
