--------------------------- MODULE PgzfCliProofs ---------------------------
(***************************************************************************)
(* Invariants of PgzfCli, for every set of command lines and every disk.   *)
(***************************************************************************)
EXTENDS PgzfCli, SequenceTheorems, TLAPS

(* What the steps of an invocation belong to.                              *)
OfItsMode ==
  /\ step \in {"open", "create", "copy", "close", "remove"} => inv.mode # "inspect"
  /\ step = "inspect" => inv.mode = "inspect"
  /\ step \in {"open", "create", "copy", "close"} => FromStdin \/ todo # <<>>
  /\ step \in {"create", "copy", "close"} => FromStdin \/ Exists(File)
  /\ step \in {"next", "inspect", "remove"} => ~FromStdin
  /\ step = "remove" => Removes
  /\ step # "exit" => status = "none"

TypeInv == TypeOK /\ OfItsMode

(* The elements of a sequence.                                             *)
LEMMA InItsRange ==
  ASSUME NEW S, NEW s \in Seq(S)
  PROVE  s \in Seq(ToSet(s)) /\ ToSet(s) \subseteq S
<1>1. DOMAIN s = 1..Len(s) /\ Len(s) \in Nat /\ s = [k \in 1..Len(s) |-> s[k]]
  OBVIOUS
<1>2. \A k \in 1..Len(s) : s[k] \in ToSet(s) /\ s[k] \in S
  BY <1>1 DEF ToSet
<1>3. s \in [1..Len(s) -> ToSet(s)]
  BY <1>1, <1>2
<1>4. ToSet(s) \subseteq S
  BY <1>1, <1>2 DEF ToSet
<1> QED
  BY <1>1, <1>3, <1>4, SeqDef

LEMMA NotEmpty ==
  ASSUME NEW s, Len(s) > 0
  PROVE  s # <<>>
<1>1. Len(<<>>) = 0
  OBVIOUS
<1> QED
  BY <1>1

LEMMA NextInTurn ==
  ASSUME NEW S, NEW s \in Seq(S), s # <<>>
  PROVE  Head(s) \in S /\ Tail(s) \in Seq(S) /\ Len(Tail(s)) = Len(s) - 1
OBVIOUS

LEMMA LineFields ==
  ASSUME TypeOK
  PROVE  /\ inv.mode \in {"inspect", "compress", "decompress"}
         /\ inv.stdout \in BOOLEAN /\ inv.keep \in BOOLEAN
         /\ inv.force \in BOOLEAN /\ inv.part \in BOOLEAN
         /\ inv.output \in Paths \cup {NoPath} /\ inv.files \in Seq(Paths)
         /\ inv.block_size_mb \in Nat /\ inv.stdin \in Seq(Labels)
         /\ ToSet(inv.files) \subseteq Paths /\ todo \in Seq(ToSet(inv.files))
<1>1. CASE inv \in Invocations
  BY <1>1, CliArguments, InItsRange DEF TypeOK
<1>2. CASE inv = NoInvocation
  BY <1>2, InItsRange DEF NoInvocation, NoPath, TypeOK, ToSet
<1> QED
  BY <1>1, <1>2 DEF TypeOK

LEMMA OutputPath ==
  ASSUME NEW i, i.output \in Paths \cup {NoPath}, NEW file \in Paths
  PROVE  /\ Output(i, file) \in Paths \cup {NoPath}
         /\ i.files # <<>> /\ ~i.stdout => Output(i, file) \in Paths
<1>1. Append(file, "gz") \in Paths /\ Append(file, "out") \in Paths
  <2>1. file \in Seq(Names) /\ "gz" \in Names /\ "out" \in Names
    BY CliConfig DEF Paths
  <2>2. ASSUME NEW part \in Names PROVE Append(file, part) \in Seq(Names) /\ Append(file, part) # <<>>
    BY <2>1, AppendProperties
  <2> QED
    BY <2>1, <2>2 DEF Paths, NoPath
<1>2. ASSUME Len(file) > 1 PROVE Front(file) \in Paths
  <2>1. file \in Seq(Names) /\ Len(file) \in Nat /\ Len(file) - 1 \in 1..Len(file)
    BY <1>2 DEF Paths
  <2>2. SubSeq(file, 1, Len(file) - 1) \in Seq(Names)
        /\ Len(SubSeq(file, 1, Len(file) - 1)) = Len(file) - 1
    BY <2>1
  <2>3. SubSeq(file, 1, Len(file) - 1) # <<>>
    <3>1. Len(SubSeq(file, 1, Len(file) - 1)) > 0
      BY <1>2, <2>1, <2>2
    <3> QED
      BY <3>1, NotEmpty
  <2> QED
    BY <2>2, <2>3 DEF Front, Paths, NoPath
<1> QED
  BY <1>1, <1>2 DEF Output, gz_extension, strip_gz_extension

LEMMA FileAndOut ==
  ASSUME TypeOK, FromStdin \/ todo # <<>>
  PROVE  /\ FromStdin => File = NoPath
         /\ ~FromStdin => File \in ToSet(inv.files) /\ File \in Paths
         /\ ~FromStdin /\ ~inv.stdout => Out \in Paths
         /\ Out \in Paths \cup {NoPath}
<1>1. inv.output \in Paths \cup {NoPath} /\ ToSet(inv.files) \subseteq Paths
      /\ todo \in Seq(ToSet(inv.files))
  BY LineFields
<1>2. CASE FromStdin
  BY <1>1, <1>2 DEF File, Out, Output, FromStdin
<1>3. CASE ~FromStdin
  <2>1. Head(todo) \in ToSet(inv.files)
    BY <1>1, <1>3, NextInTurn
  <2> QED
    BY <1>1, <1>3, <2>1, OutputPath DEF File, Out, FromStdin
<1> QED
  BY <1>2, <1>3

(* What files are made of.                                                 *)
LEMMA ContentTypes ==
  ASSUME NEW c \in Seq(Labels)
  PROVE  /\ Cut(c) \in Seq(Labels) /\ Compressed(c) \in Seq(Labels)
         /\ c # <<>> => Head(c) \in Labels /\ Tail(c) \in Seq(Labels)
         /\ Parts(c) \subseteq Seq(Labels)
<1>1. "cut" \in Labels /\ "pgzf" \in Labels
  BY DEF Labels
<1>2. Cut(c) \in Seq(Labels)
  BY <1>1 DEF Cut
<1>3. Compressed(c) \in Seq(Labels)
  BY <1>1 DEF Compressed
<1> QED
  BY <1>2, <1>3 DEF Parts

LEMMA ResultTypes ==
  ASSUME Input \in Seq(Labels)
  PROVE  \A result \in Results : result \in Seq(Labels) /\ Cut(result) \in Seq(Labels)
<1>1. /\ Compressed(Input) \in Seq(Labels)
      /\ Input # <<>> => Tail(Input) \in Seq(Labels) /\ Parts(Tail(Input)) \subseteq Seq(Labels)
  BY ContentTypes
<1>2. ASSUME IsCutPgzf(Input) PROVE Parts(Tail(Tail(Input))) \subseteq Seq(Labels)
  <2>1. Len(Input) > 1 /\ Input # <<>>
    BY <1>2, NotEmpty DEF IsCutPgzf
  <2>3. Tail(Input) # <<>>
    <3>1. Len(Tail(Input)) = Len(Input) - 1 /\ Len(Input) \in Nat
      BY <2>1, NextInTurn
    <3>2. Len(Tail(Input)) > 0
      BY <2>1, <3>1
    <3> QED
      BY <3>2, NotEmpty
  <2>2. Tail(Tail(Input)) \in Seq(Labels)
    BY <1>1, <2>1, <2>3, ContentTypes
  <2> QED
    BY <2>2, ContentTypes
<1>3. Results \subseteq Seq(Labels)
  BY <1>1, <1>2 DEF Results, IsPgzf
<1> QED
  BY <1>3, ContentTypes

LEMMA WrittenIs ==
  ASSUME NEW files, NEW path, NEW content
  PROVE  /\ DOMAIN Written(files, path, content) = DOMAIN files \cup {path}
         /\ Written(files, path, content)[path] = content
         /\ \A p \in DOMAIN files : p # path => Written(files, path, content)[p] = files[p]
BY DEF Written

LEMMA RemovedIs ==
  ASSUME NEW files, NEW path
  PROVE  /\ DOMAIN Removed(files, path) = DOMAIN files \ {path}
         /\ \A p \in DOMAIN files \ {path} : Removed(files, path)[p] = files[p]
BY DEF Removed, Without

DiskOK == \A path \in DOMAIN disk : path \in Paths /\ disk[path] \in Seq(Labels)

LEMMA DiskWritten ==
  ASSUME DiskOK, NEW path \in Paths, NEW content \in Seq(Labels),
         disk' = Written(disk, path, content)
  PROVE  DiskOK'
<1>1. /\ DOMAIN disk' = DOMAIN disk \cup {path} /\ disk'[path] = content
      /\ \A p \in DOMAIN disk : p # path => disk'[p] = disk[p]
  BY DEF Written
<1> QED
  BY <1>1 DEF DiskOK

LEMMA DiskRemoved ==
  ASSUME DiskOK, NEW path, disk' = Removed(disk, path)
  PROVE  DiskOK'
<1>1. /\ DOMAIN disk' = DOMAIN disk \ {path}
      /\ \A p \in DOMAIN disk \ {path} : disk'[p] = disk[p]
  BY RemovedIs
<1> QED
  BY <1>1 DEF DiskOK

LEMMA SameFile ==
  ASSUME UNCHANGED <<inv, todo>>
  PROVE  File' = File /\ Out' = Out /\ FromStdin' = FromStdin
BY DEF File, Out, FromStdin, Output

(* What a step reads.                                                      *)
LEMMA InputType ==
  ASSUME TypeInv, step \in {"open", "create", "copy", "close"}, FromStdin \/ Exists(File)
  PROVE  Input \in Seq(Labels)
<1>1. CASE FromStdin
  BY <1>1, LineFields DEF Input, TypeInv
<1>2. CASE ~FromStdin
  BY <1>2 DEF Input, TypeInv, TypeOK, Exists
<1> QED
  BY <1>1, <1>2

LEMMA StartTypes ==
  ASSUME TypeInv, NEW i \in Invocations, Start(i)
  PROVE  TypeInv'
<1>1. i.files \in Seq(ToSet(i.files)) /\ i.mode \in {"inspect", "compress", "decompress"}
  BY CliArguments, InItsRange
<1>2. runs' \in 0..MaxRuns
  BY CliConfig DEF Start, TypeInv, TypeOK
<1>3. TypeOK'
  BY <1>1, <1>2 DEF Start, TypeInv, TypeOK, Careful
<1>4. OfItsMode'
  BY <1>1 DEF Start, OfItsMode, FromStdin
<1> QED
  BY <1>3, <1>4 DEF TypeInv

LEMMA WorkTypes ==
  ASSUME TypeInv, NextFile \/ Open \/ Create \/ Copy \/ Stop
  PROVE  TypeInv'
<1>1. UNCHANGED <<run, todo, stdout>>
  BY DEF NextFile, Open, Create, Copy, Stop
<1>2. UNCHANGED <<inv, runs, careful, before>> /\ File' = File /\ Out' = Out /\ FromStdin' = FromStdin
  BY <1>1, SameFile DEF run
<1>3. /\ todo \in Seq(ToSet(inv.files)) /\ DiskOK
      /\ inv.mode \in {"inspect", "compress", "decompress"}
  BY LineFields DEF TypeInv, TypeOK, DiskOK
<1>4. ASSUME DiskOK', status' \in {"none", "ok", "error", "stopped"},
             step' \in {"exit", "next", "inspect", "open", "create", "copy", "close", "remove"},
             step' \in {"inspect", "remove"} => todo # <<>>
      PROVE  TypeOK'
  BY <1>1, <1>2, <1>4 DEF TypeInv, TypeOK, DiskOK
<1>5. status = "none"
  BY DEF NextFile, Open, Create, Copy, Stop, TypeInv, OfItsMode
<1>6. CASE NextFile
  <2>1. /\ UNCHANGED disk /\ ~FromStdin
        /\ \/ step' = "exit" /\ status' \in {"ok", "error"}
           \/ todo # <<>> /\ inv.mode = "inspect" /\ step' = "inspect" /\ status' = status
           \/ todo # <<>> /\ inv.mode # "inspect" /\ step' = "open" /\ status' = status
    BY <1>6 DEF NextFile, Exit, Go, TypeInv, OfItsMode
  <2>2. TypeOK'
    BY <1>3, <1>4, <1>5, <2>1 DEF DiskOK
  <2>3. OfItsMode'
    BY <1>1, <1>2, <1>5, <2>1 DEF OfItsMode
  <2> QED
    BY <2>2, <2>3 DEF TypeInv
<1>7. CASE Open
  <2>1. /\ UNCHANGED disk /\ inv.mode # "inspect" /\ (FromStdin \/ todo # <<>>)
        /\ \/ step' = "exit" /\ status' = "error"
           \/ (FromStdin \/ Exists(File)) /\ step' = "create" /\ status' = status
    BY <1>7 DEF Open, Exit, Go, TypeInv, OfItsMode
  <2>2. TypeOK'
    BY <1>3, <1>4, <1>5, <2>1 DEF DiskOK
  <2>3. OfItsMode'
    BY <1>1, <1>2, <1>5, <2>1 DEF OfItsMode, Exists
  <2> QED
    BY <2>2, <2>3 DEF TypeInv
<1>8. CASE Create
  <2>1. /\ inv.mode # "inspect" /\ (FromStdin \/ todo # <<>>) /\ (FromStdin \/ Exists(File))
        /\ step' = "copy" /\ status' = status
        /\ disk' = IF Out = NoPath THEN disk ELSE Written(disk, Out, <<>>)
    BY <1>8 DEF Create, Go, TypeInv, OfItsMode
  <2>2. DiskOK' /\ DOMAIN disk \subseteq DOMAIN disk'
    <3>1. CASE Out = NoPath
      BY <1>3, <2>1, <3>1 DEF DiskOK
    <3>2. CASE Out # NoPath
      <4>1. Out \in Paths /\ <<>> \in Seq(Labels)
        BY <2>1, <3>2, FileAndOut, EmptySeq DEF TypeInv
      <4>2. DiskOK'
        BY <1>3, <2>1, <3>2, <4>1, DiskWritten
      <4> QED
        BY <2>1, <3>2, <4>2 DEF Written
    <3> QED
      BY <3>1, <3>2
  <2>3. TypeOK'
    BY <1>4, <1>5, <2>1, <2>2
  <2>4. OfItsMode'
    BY <1>1, <1>2, <1>5, <2>1, <2>2 DEF OfItsMode, Exists
  <2> QED
    BY <2>3, <2>4 DEF TypeInv
<1>9. CASE Copy
  <2>1. /\ inv.mode # "inspect" /\ (FromStdin \/ todo # <<>>) /\ (FromStdin \/ Exists(File))
        /\ step = "copy"
        /\ \/ step' = "exit" /\ status' = "error" /\ UNCHANGED disk
           \/ /\ step' = "close" /\ status' = status
              /\ \E result \in Results :
                   disk' = IF Out = NoPath THEN disk ELSE Written(disk, Out, Cut(result))
    BY <1>9 DEF Copy, ReturnError, Exit, Go, TypeInv, OfItsMode
  <2>2. DiskOK' /\ DOMAIN disk \subseteq DOMAIN disk'
    <3>1. CASE UNCHANGED disk
      BY <1>3, <3>1 DEF DiskOK
    <3>2. ASSUME NEW result \in Results, Out # NoPath, disk' = Written(disk, Out, Cut(result))
          PROVE  DiskOK' /\ DOMAIN disk \subseteq DOMAIN disk'
      <4>1. Out \in Paths
        BY <2>1, <3>2, FileAndOut DEF TypeInv
      <4>2. Cut(result) \in Seq(Labels)
        BY <2>1, InputType, ResultTypes
      <4>3. DiskOK'
        BY <1>3, <3>2, <4>1, <4>2, DiskWritten
      <4> QED
        BY <3>2, <4>3 DEF Written
    <3> QED
      BY <2>1, <3>1, <3>2
  <2>3. TypeOK'
    BY <1>4, <1>5, <2>1, <2>2
  <2>4. OfItsMode'
    BY <1>1, <1>2, <1>5, <2>1, <2>2 DEF OfItsMode, Exists
  <2> QED
    BY <2>3, <2>4 DEF TypeInv
<1>10. CASE Stop
  <2>1. UNCHANGED disk /\ step' = "exit" /\ status' = "stopped"
    BY <1>10 DEF Stop, Exit
  <2>2. TypeOK'
    BY <1>3, <1>4, <1>5, <2>1 DEF DiskOK
  <2>3. OfItsMode'
    BY <2>1 DEF OfItsMode
  <2> QED
    BY <2>2, <2>3 DEF TypeInv
<1> QED
  BY <1>6, <1>7, <1>8, <1>9, <1>10

(* The next file of the list.                                              *)
LEMMA OthersTypes ==
  ASSUME TypeInv, ~FromStdin, todo # <<>>, UNCHANGED <<inv, before, careful, runs>>,
         todo' = Others, DiskOK', stdout' \in Seq(Seq(Labels)),
         step # "exit", step' = "next", UNCHANGED status
  PROVE  TypeInv'
<1>1. todo \in Seq(ToSet(inv.files))
  BY LineFields DEF TypeInv
<1>2. todo' \in Seq(ToSet(inv.files))
  BY <1>1, NextInTurn DEF Others
<1>3. TypeOK'
  BY <1>2 DEF TypeInv, TypeOK, DiskOK
<1>4. OfItsMode'
  BY DEF TypeInv, OfItsMode, FromStdin
<1> QED
  BY <1>3, <1>4 DEF TypeInv

LEMMA CloseTypes ==
  ASSUME TypeInv, Close
  PROVE  TypeInv' /\ DOMAIN disk \subseteq DOMAIN disk'
<1>1. /\ inv.mode # "inspect" /\ (FromStdin \/ todo # <<>>) /\ (FromStdin \/ Exists(File))
      /\ step = "close" /\ DiskOK
  BY DEF Close, TypeInv, TypeOK, OfItsMode, DiskOK
<1>2. UNCHANGED <<inv, before, careful, runs>>
  BY DEF Close, run
<1>3. PICK result \in Results :
        IF Out = NoPath
          THEN stdout' = Append(stdout, result) /\ UNCHANGED disk
          ELSE disk' = Written(disk, Out, result) /\ UNCHANGED stdout
  BY DEF Close
<1>4. result \in Seq(Labels)
  BY <1>1, InputType, ResultTypes
<1>5. stdout' \in Seq(Seq(Labels))
  <2>1. stdout \in Seq(Seq(Labels))
    BY DEF TypeInv, TypeOK
  <2>2. Append(stdout, result) \in Seq(Seq(Labels))
    BY <1>4, <2>1, AppendProperties
  <2> QED
    BY <1>3, <2>1, <2>2
<1>6. DiskOK' /\ DOMAIN disk \subseteq DOMAIN disk'
  <2>1. CASE Out = NoPath
    BY <1>1, <1>3, <2>1 DEF DiskOK
  <2>2. CASE Out # NoPath
    <3>1. Out \in Paths
      BY <1>1, <2>2, FileAndOut DEF TypeInv
    <3>2. disk' = Written(disk, Out, result)
      BY <1>3, <2>2
    <3>3. DiskOK'
      BY <1>1, <1>4, <3>1, <3>2, DiskWritten
    <3> QED
      BY <3>2, <3>3 DEF Written
  <2> QED
    BY <2>1, <2>2
<1>7. CASE Removes
  <2>1. step' = "remove" /\ UNCHANGED <<status, todo>>
    BY <1>7 DEF Close, Go
  <2>2. ~FromStdin /\ todo # <<>>
    BY <1>1, <1>7 DEF Removes
  <2>3. TypeOK'
    BY <1>2, <1>5, <1>6, <2>1, <2>2 DEF TypeInv, TypeOK, DiskOK
  <2>4. OfItsMode'
    BY <1>1, <1>2, <1>7, <2>1, <2>2 DEF TypeInv, OfItsMode, FromStdin, Removes
  <2> QED
    BY <1>6, <2>3, <2>4 DEF TypeInv
<1>8. CASE ~Removes /\ FromStdin
  <2>1. step' = "exit" /\ status' = "ok" /\ UNCHANGED todo
    BY <1>8 DEF Close, Exit
  <2>2. TypeOK'
    BY <1>2, <1>5, <1>6, <2>1 DEF TypeInv, TypeOK, DiskOK
  <2>3. OfItsMode'
    BY <2>1 DEF OfItsMode
  <2> QED
    BY <1>6, <2>2, <2>3 DEF TypeInv
<1>9. CASE ~Removes /\ ~FromStdin
  BY <1>1, <1>2, <1>5, <1>6, <1>9, OthersTypes DEF Close, Go
<1> QED
  BY <1>7, <1>8, <1>9

LEMMA RemoveTypes ==
  ASSUME TypeInv, RemoveInput
  PROVE  TypeInv'
<1>1. /\ ~FromStdin /\ todo # <<>> /\ DiskOK /\ stdout \in Seq(Seq(Labels))
  BY DEF RemoveInput, TypeInv, TypeOK, OfItsMode, DiskOK
<1>2. DiskOK'
  <2>1. CASE UNCHANGED disk
    BY <1>1, <2>1 DEF DiskOK
  <2>2. CASE disk' = Removed(disk, File)
    BY <1>1, <2>2, DiskRemoved
  <2> QED
    BY <2>1, <2>2 DEF RemoveInput
<1> QED
  BY <1>1, <1>2, OthersTypes DEF RemoveInput, Go, run

LEMMA InspectTypes ==
  ASSUME TypeInv, Inspect
  PROVE  TypeInv'
<1>1. /\ ~FromStdin /\ todo # <<>> /\ step = "inspect" /\ DiskOK /\ stdout \in Seq(Seq(Labels))
  BY DEF Inspect, TypeInv, TypeOK, OfItsMode, DiskOK
<1>2. UNCHANGED <<inv, before, careful, runs, disk>> /\ DiskOK'
  BY <1>1 DEF Inspect, run, DiskOK
<1>3. CASE step' = "exit" /\ status' = "error" /\ UNCHANGED <<todo, stdout>>
  <2>1. TypeOK'
    BY <1>2, <1>3 DEF TypeInv, TypeOK
  <2>2. OfItsMode'
    BY <1>3 DEF OfItsMode
  <2> QED
    BY <2>1, <2>2 DEF TypeInv
<1>4. ASSUME NEW kind \in {"pgzf", "gzip"}, stdout' = Append(stdout, <<kind>>),
             step' = "next", UNCHANGED status, todo' = Others
      PROVE  TypeInv'
  <2>1. <<kind>> \in Seq(Labels)
    BY DEF Labels
  <2>2. stdout' \in Seq(Seq(Labels))
    BY <1>1, <1>4, <2>1, AppendProperties
  <2> QED
    BY <1>1, <1>2, <1>4, <2>2, OthersTypes
<1>5. \/ step' = "exit" /\ status' = "error" /\ UNCHANGED <<todo, stdout>>
      \/ \E kind \in {"pgzf", "gzip"} :
           stdout' = Append(stdout, <<kind>>) /\ step' = "next" /\ UNCHANGED status
           /\ todo' = Others
  <2>1. CASE ~Exists(File)
    BY <2>1 DEF Inspect, Exit
  <2>2. CASE Exists(File)
    <3>1. PICK kind \in Kinds(disk[File]) :
            IF kind = "error" THEN Exit("error") /\ UNCHANGED <<todo, stdout>>
            ELSE stdout' = Append(stdout, <<kind>>) /\ Go("next") /\ todo' = Others
      BY <2>2 DEF Inspect
    <3>2. kind \in {"pgzf", "gzip", "error"}
      BY DEF Kinds
    <3> QED
      BY <3>1, <3>2 DEF Exit, Go
  <2> QED
    BY <2>1, <2>2
<1> QED
  BY <1>3, <1>4, <1>5

LEMMA TypeStep ==
  ASSUME TypeInv, [Next]_vars
  PROVE  TypeInv'
<1>1. CASE UNCHANGED vars
  <2>1. TypeOK'
    BY <1>1 DEF vars, TypeInv, TypeOK
  <2>2. OfItsMode'
    BY <1>1, SameFile DEF vars, TypeInv, OfItsMode, Exists, Removes
  <2> QED
    BY <2>1, <2>2 DEF TypeInv
<1>2. CASE Next
  BY <1>2, StartTypes, WorkTypes, CloseTypes, RemoveTypes, InspectTypes DEF Next, Work
<1> QED
  BY <1>1, <1>2

LEMMA TypeInit ==
  ASSUME Init
  PROVE  TypeInv
<1>1. TypeOK
  <2>1. \A path \in DOMAIN disk : path \in Paths /\ disk[path] \in Seq(Labels)
    BY CliConfig DEF Init
  <2>2. todo \in Seq(ToSet(inv.files)) /\ stdout \in Seq(Seq(Labels))
    BY DEF Init
  <2>3. runs \in 0..MaxRuns
    BY CliConfig DEF Init
  <2> QED
    BY <2>1, <2>2, <2>3 DEF Init, TypeOK
<1> QED
  BY <1>1 DEF Init, TypeInv, OfItsMode

LEMMA CliTypeInvariance == Spec => []TypeInv
BY TypeInit, TypeStep, PTL DEF Spec

(* Whatever the command lines, the errors and the signals, paths and       *)
(* contents are well formed, and what is to be done is of the list of      *)
(* files.                                                                  *)
THEOREM CliTypeCorrect == Spec => []TypeOK
<1>1. TypeInv => TypeOK
  BY DEF TypeInv
<1> QED
  BY <1>1, CliTypeInvariance, PTL

-----------------------------------------------------------------------------
(* Without -f.                                                             *)
Refusing == inv.mode = "compress" /\ ~inv.force /\ inv.files # <<>>
Removable(path) == ~inv.keep /\ ~inv.stdout /\ path \in ToSet(inv.files)

(* The output did not exist, neither at the start nor now, unless it is an *)
(* input that was removed.                                                 *)
OutputIsNew ==
  Refusing =>
    /\ step \in {"open", "create"} => ~Exists(Out)
    /\ step \in {"copy", "close"} => Out \notin DOMAIN before \/ Removable(Out)

ForceInv == OutputIsNew /\ OnlyInputsGo

(* The file that a step changes was not there, or is an input to be        *)
(* removed.                                                                *)
LEMMA ChangesOnlyIts ==
  ASSUME OnlyInputsGo, UNCHANGED <<inv, before>>, NEW path,
         Refusing => path \notin DOMAIN before \/ Removable(path),
         \A other \in DOMAIN disk : other # path =>
           other \in DOMAIN disk' /\ disk'[other] = disk[other]
  PROVE  OnlyInputsGo'
BY DEF OnlyInputsGo, Refusing, Removable, Exists

LEMMA ForceStart ==
  ASSUME NEW i \in Invocations, Start(i)
  PROVE  ForceInv'
BY DEF Start, ForceInv, OutputIsNew, OnlyInputsGo, Refusing, Exists

(* Steps that leave the files alone.                                       *)
LEMMA ForceSame ==
  ASSUME ForceInv, UNCHANGED <<inv, before, disk, todo>>, step' # "open",
         step' = "create" => step = "open", step' \in {"copy", "close"} => step' = step
  PROVE  ForceInv'
<1>1. Out' = Out
  BY SameFile
<1>2. OutputIsNew'
  BY <1>1 DEF ForceInv, OutputIsNew, Refusing, Removable, Exists
<1>3. OnlyInputsGo'
  BY DEF ForceInv, OnlyInputsGo, Exists
<1> QED
  BY <1>2, <1>3 DEF ForceInv

(* Steps that change the output.                                           *)
LEMMA ForceWrites ==
  ASSUME ForceInv, UNCHANGED <<inv, before, todo>>,
         NEW content, disk' = IF Out = NoPath THEN disk ELSE Written(disk, Out, content),
         step \in {"create", "copy", "close"}, step' \notin {"open", "create"}
  PROVE  ForceInv'
<1>1. Refusing => Out \notin DOMAIN before \/ Removable(Out)
  <2>1. CASE step = "create"
    BY <2>1 DEF ForceInv, OutputIsNew, OnlyInputsGo, Refusing, Removable
  <2>2. CASE step # "create"
    BY <2>2 DEF ForceInv, OutputIsNew
  <2> QED
    BY <2>1, <2>2
<1>2. \A other \in DOMAIN disk : other # Out =>
        other \in DOMAIN disk' /\ disk'[other] = disk[other]
  BY DEF Written
<1>3. OnlyInputsGo'
  BY <1>1, <1>2, ChangesOnlyIts DEF ForceInv
<1>4. Out' = Out
  BY SameFile
<1>5. OutputIsNew'
  BY <1>1, <1>4 DEF OutputIsNew, Refusing, Removable
<1> QED
  BY <1>3, <1>5 DEF ForceInv

LEMMA ForceStep ==
  ASSUME TypeInv, ForceInv, [Next]_vars
  PROVE  ForceInv'
<1>1. CASE UNCHANGED vars
  <2>1. UNCHANGED <<inv, before, disk, todo, step>> /\ Out' = Out
    BY <1>1, SameFile DEF vars
  <2>2. OutputIsNew'
    BY <2>1 DEF ForceInv, OutputIsNew, Refusing, Removable, Exists
  <2>3. OnlyInputsGo'
    BY <2>1 DEF ForceInv, OnlyInputsGo, Exists
  <2> QED
    BY <2>2, <2>3 DEF ForceInv
<1>2. CASE \E i \in Invocations : Start(i)
  BY <1>2, ForceStart
<1>3. CASE NextFile
  <2>1. UNCHANGED <<inv, before, disk, todo>> /\ Out' = Out
    BY <1>3, SameFile DEF NextFile, run
  <2>2. CASE step' # "open"
    BY <1>3, <2>1, <2>2, ForceSame DEF NextFile, Go, Exit
  <2>3. CASE step' = "open"
    <3>1. ~Refuses
      BY <1>3, <2>3 DEF NextFile, Go, Exit
    <3>2. ~Exists(NoPath)
      BY DEF TypeInv, TypeOK, Exists, Paths
    <3>3. Refusing => ~Exists(Out)
      BY <3>1, <3>2 DEF Refuses, Refusing
    <3>4. OutputIsNew'
      BY <2>1, <2>3, <3>3 DEF OutputIsNew, Refusing, Exists
    <3>5. OnlyInputsGo'
      BY <2>1 DEF ForceInv, OnlyInputsGo, Exists
    <3> QED
      BY <3>4, <3>5 DEF ForceInv
  <2> QED
    BY <2>2, <2>3
<1>4. CASE Open
  <2>1. UNCHANGED <<inv, before, disk, todo>> /\ step = "open" /\ step' \in {"create", "exit"}
    BY <1>4 DEF Open, Go, Exit, run
  <2> QED
    BY <2>1, ForceSame
<1>5. CASE Create
  BY <1>5, ForceWrites DEF Create, Go, run
<1>6. CASE Copy
  <2>1. UNCHANGED <<inv, before, todo>> /\ step = "copy" /\ step' \in {"close", "exit"}
    BY <1>6 DEF Copy, ReturnError, Go, Exit, run
  <2>2. CASE step' = "exit"
    <3>1. UNCHANGED disk
      BY <1>6, <2>2 DEF Copy, ReturnError, Go, Exit
    <3> QED
      BY <2>1, <2>2, <3>1, ForceSame
  <2>3. CASE step' = "close"
    <3>1. PICK result \in Results :
            disk' = IF Out = NoPath THEN disk ELSE Written(disk, Out, Cut(result))
      BY <1>6, <2>3 DEF Copy, ReturnError, Go, Exit
    <3> QED
      BY <2>1, <2>3, <3>1, ForceWrites
  <2> QED
    BY <2>1, <2>2, <2>3
<1>7. CASE Close
  <2>1. PICK result \in Results :
          disk' = IF Out = NoPath THEN disk ELSE Written(disk, Out, result)
    BY <1>7 DEF Close
  <2>2. UNCHANGED <<inv, before>> /\ step = "close" /\ step' \notin {"open", "create", "copy", "close"}
    BY <1>7 DEF Close, Go, Exit, run
  <2>3. Refusing => Out \notin DOMAIN before \/ Removable(Out)
    BY <2>2 DEF ForceInv, OutputIsNew
  <2>4. \A other \in DOMAIN disk : other # Out =>
          other \in DOMAIN disk' /\ disk'[other] = disk[other]
    BY <2>1 DEF Written
  <2>5. OnlyInputsGo'
    BY <2>2, <2>3, <2>4, ChangesOnlyIts DEF ForceInv
  <2>6. OutputIsNew'
    BY <2>2 DEF OutputIsNew
  <2> QED
    BY <2>5, <2>6 DEF ForceInv
<1>8. CASE RemoveInput
  <2>1. UNCHANGED <<inv, before>> /\ step' = "next"
    BY <1>8 DEF RemoveInput, Go, run
  <2>2. Removable(File)
    <3>1. Removes /\ ~FromStdin /\ todo # <<>>
      BY <1>8 DEF RemoveInput, TypeInv, TypeOK, OfItsMode
    <3> QED
      BY <3>1, FileAndOut DEF Removes, Removable, TypeInv
  <2>3. \A other \in DOMAIN disk : other # File =>
          other \in DOMAIN disk' /\ disk'[other] = disk[other]
    BY <1>8 DEF RemoveInput, Removed, Without
  <2>4. OnlyInputsGo'
    BY <2>1, <2>2, <2>3, ChangesOnlyIts DEF ForceInv
  <2>5. OutputIsNew'
    BY <2>1 DEF OutputIsNew
  <2> QED
    BY <2>4, <2>5 DEF ForceInv
<1>9. CASE Inspect \/ Stop
  <2>1. UNCHANGED <<inv, before, disk>> /\ step' \in {"exit", "next"}
    BY <1>9 DEF Inspect, Stop, Go, Exit, run
  <2>2. OnlyInputsGo'
    BY <2>1 DEF ForceInv, OnlyInputsGo, Exists
  <2>3. OutputIsNew'
    BY <2>1 DEF OutputIsNew
  <2> QED
    BY <2>2, <2>3 DEF ForceInv
<1> QED
  BY <1>1, <1>2, <1>3, <1>4, <1>5, <1>6, <1>7, <1>8, <1>9 DEF Next, Work

LEMMA ForceInvariance == Spec => []ForceInv
<1>1. Init => ForceInv
  BY DEF Init, ForceInv, OutputIsNew, OnlyInputsGo, Refusing, NoInvocation
<1> QED
  BY <1>1, ForceStep, CliTypeInvariance, PTL DEF Spec

(* Without -f, compression creates files and removes its inputs; every     *)
(* other file it found is as it was, at any step and after any failure     *)
(* (main.rs:341).                                                          *)
THEOREM NothingIsOverwritten == Spec => []OnlyInputsGo
<1>1. ForceInv => OnlyInputsGo
  BY DEF ForceInv
<1> QED
  BY <1>1, ForceInvariance, PTL

-----------------------------------------------------------------------------
(* The copies.                                                             *)
CarefulLine ==
  careful /\ inv.mode # "inspect" => (inv.part => inv.keep \/ inv.stdout) /\ OutputsDiffer(inv)

(* An input is removed when its output is a copy of all it is a copy of.   *)
Moved ==
  careful /\ step = "remove" /\ Exists(File) =>
    \A x \in Data : Intact(disk[File], x) => Exists(Out) /\ Intact(disk[Out], x)

(* No input that is left, and none that could come back, has the copy for  *)
(* its output.                                                             *)
NotInTheWay(copy) ==
  \E gone \in SUBSET ToSet(inv.files) :
    /\ gone \cap DOMAIN disk = {}
    /\ \A f \in ToSet(inv.files) : Output(inv, f) \in gone \cup {copy} => f \in gone

IsCopy(copy, x) ==
  /\ copy \in DOMAIN disk /\ Intact(disk[copy], x)
  /\ step \in {"create", "copy", "close", "remove"} => copy # Out
  /\ step # "exit" /\ FromStdin => copy # Out
  /\ step # "exit" /\ inv.mode # "inspect" /\ Overwrites(inv) => NotInTheWay(copy)

Copies(x) == \E copy \in DOMAIN disk : IsCopy(copy, x)
CopiesLeft == careful => \A x \in Data : Copies(x)

CopyInv == CarefulLine /\ Moved /\ CopiesLeft

(* What is made of a copy is a copy.                                       *)
LEMMA CompressedIntact ==
  ASSUME NEW c \in Seq(Labels), NEW x, Intact(c, x)
  PROVE  Intact(Compressed(c), x)
<1> DEFINE new == <<"pgzf">> \o c
<1>1. Len(c) \in Nat \ {0} /\ c # <<>> /\ c[Len(c)] = x
      /\ \A k \in 1 .. Len(c) - 1 : c[k] \in {"pgzf", "gzip"}
  BY EmptySeq DEF Intact, Last
<1>2. /\ Len(new) = Len(c) + 1 /\ new[1] = "pgzf"
      /\ \A k \in 2 .. Len(c) + 1 : new[k] = c[k - 1]
  <2>1. "pgzf" \in Labels /\ <<"pgzf">> \in Seq(Labels) /\ Len(<<"pgzf">>) = 1
    BY DEF Labels
  <2> QED
    BY <2>1, <1>1
<1>3. new # <<>>
  <2>1. Len(new) > 0
    BY <1>1, <1>2
  <2> QED
    BY <2>1, NotEmpty
<1>4. new[Len(new)] = x
  <2>1. Len(c) + 1 \in 2 .. Len(c) + 1 /\ (Len(c) + 1) - 1 = Len(c)
    BY <1>1
  <2> QED
    BY <1>1, <1>2, <2>1
<1>5. ASSUME NEW k \in 1 .. Len(new) - 1
      PROVE  new[k] \in {"pgzf", "gzip"}
  <2>1. CASE k = 1
    BY <1>2, <2>1
  <2>2. CASE k # 1
    <3>1. k \in 2 .. Len(c) + 1 /\ k - 1 \in 1 .. Len(c) - 1
      BY <1>1, <1>2, <2>2
    <3> QED
      BY <1>1, <1>2, <3>1
  <2> QED
    BY <2>1, <2>2
<1>6. Compressed(c) = new
  BY <1>1 DEF Compressed
<1> QED
  BY <1>3, <1>4, <1>5, <1>6 DEF Intact, Last

LEMMA TailIntact ==
  ASSUME NEW c \in Seq(Labels), NEW x \in Data, Intact(c, x), IsPgzf(c)
  PROVE  Intact(Tail(c), x)
<1>1. Len(c) \in Nat \ {0} /\ c # <<>> /\ c[Len(c)] = x /\ c[1] = "pgzf"
      /\ \A k \in 1 .. Len(c) - 1 : c[k] \in {"pgzf", "gzip"}
  BY EmptySeq DEF Intact, Last, IsPgzf
<1>2. Len(c) > 1
  <2>1. x # "pgzf"
    BY CliConfig
  <2>2. Len(c) # 1
    BY <1>1, <2>1
  <2>3. PICK n \in Nat \ {0} : n = Len(c)
    BY <1>1
  <2>4. n > 1
    BY <2>2, <2>3
  <2> QED
    BY <2>3, <2>4
<1>3. /\ Len(Tail(c)) = Len(c) - 1
      /\ \A k \in 1 .. Len(c) - 1 : Tail(c)[k] = c[k + 1]
  BY <1>1
<1>4. Tail(c) # <<>>
  <2>1. Len(Tail(c)) > 0
    BY <1>1, <1>2, <1>3
  <2> QED
    BY <2>1, NotEmpty
<1>5. Tail(c)[Len(Tail(c))] = x
  <2>1. Len(c) - 1 \in 1 .. Len(c) - 1 /\ (Len(c) - 1) + 1 = Len(c)
    BY <1>1, <1>2
  <2> QED
    BY <1>1, <1>3, <2>1
<1>6. ASSUME NEW k \in 1 .. Len(Tail(c)) - 1
      PROVE  Tail(c)[k] \in {"pgzf", "gzip"}
  <2>1. k \in 1 .. Len(c) - 1 /\ k + 1 \in 1 .. Len(c) - 1
    BY <1>1, <1>2, <1>3
  <2> QED
    BY <1>1, <1>3, <2>1
<1> QED
  BY <1>4, <1>5, <1>6 DEF Intact, Last

LEMMA NotCut ==
  ASSUME NEW c \in Seq(Labels), NEW x, Intact(c, x)
  PROVE  c # <<>> /\ ~IsCutPgzf(c)
<1>1. SUFFICES ASSUME IsCutPgzf(c) PROVE FALSE
  BY DEF Intact
<1>2. Len(c) \in Nat /\ Len(c) > 1 /\ c[1] = "cut"
  BY <1>1 DEF IsCutPgzf
<1>3. 1 \in 1 .. Len(c) - 1
  BY <1>2
<1> QED
  BY <1>2, <1>3 DEF Intact

LEMMA ResultIntact ==
  ASSUME Input \in Seq(Labels), NEW x \in Data, Intact(Input, x), ~inv.part,
         NEW result \in Results
  PROVE  Intact(result, x)
<1>1. CASE inv.mode = "compress"
  BY <1>1, CompressedIntact DEF Results
<1>2. CASE inv.mode # "compress" /\ IsPgzf(Input)
  BY <1>2, TailIntact DEF Results
<1>3. CASE inv.mode # "compress" /\ ~IsPgzf(Input)
  BY <1>3, NotCut DEF Results
<1> QED
  BY <1>1, <1>2, <1>3

(* A copy that no output can reach stays so when an output is written.     *)
LEMMA OutOfReach ==
  ASSUME TypeInv, FromStdin \/ (todo # <<>> /\ Exists(File)),
         NEW copy, NotInTheWay(copy), inv' = inv, DOMAIN disk' \subseteq DOMAIN disk \cup {Out}
  PROVE  NotInTheWay(copy)' /\ (~FromStdin => copy # Out)
<1>1. PICK gone \in SUBSET ToSet(inv.files) :
        /\ gone \cap DOMAIN disk = {}
        /\ \A f \in ToSet(inv.files) : Output(inv, f) \in gone \cup {copy} => f \in gone
  BY DEF NotInTheWay
<1>2. Out \notin gone /\ (~FromStdin => copy # Out)
  <2>1. CASE FromStdin
    BY <1>1, <2>1 DEF FromStdin, ToSet
  <2>2. CASE ~FromStdin
    <3>1. File \in ToSet(inv.files) /\ File \notin gone
      BY <1>1, <2>2, FileAndOut DEF Exists, TypeInv
    <3>2. Out \notin gone \cup {copy}
      BY <1>1, <3>1 DEF Out
    <3> QED
      BY <3>2
  <2> QED
    BY <2>1, <2>2
<1>3. gone \cap DOMAIN disk' = {}
  BY <1>1, <1>2
<1>4. \A f \in ToSet(inv.files) : Output(inv', f) \in gone \cup {copy} => f \in gone
  BY <1>1
<1> QED
  BY <1>1, <1>2, <1>3, <1>4 DEF NotInTheWay

LEMMA CopiesStart ==
  ASSUME TypeInv, CopyInv, NEW i \in Invocations, Start(i)
  PROVE  CopyInv'
<1>1. inv' = i /\ disk' = disk /\ step' \in {"exit", "open", "next"}
      /\ (careful' => careful /\ Careful(i))
      /\ (i.mode = "inspect" /\ i.files = <<>> => step' = "exit")
  BY DEF Start
<1>2. CarefulLine'
  BY <1>1 DEF CarefulLine, Careful
<1>3. Moved'
  BY <1>1 DEF Moved
<1>4. ASSUME careful', NEW x \in Data PROVE Copies(x)'
  <2>1. CASE i.mode = "inspect" \/ ~Overwrites(i)
    <3>1. PICK copy \in DOMAIN disk : Intact(disk[copy], x)
      BY <1>1, <1>4 DEF CopyInv, CopiesLeft, Copies, IsCopy
    <3>2. ~(step' # "exit" /\ FromStdin')
      BY <1>1, <2>1 DEF FromStdin, Overwrites
    <3> QED
      BY <1>1, <2>1, <3>1, <3>2 DEF Copies, IsCopy
  <2>2. CASE i.mode # "inspect" /\ Overwrites(i)
    <3>1. PICK copy \in DOMAIN disk \ Outputs(i) : Intact(disk[copy], x)
      <4>1. Safe(Without(disk, Outputs(i)))
        BY <1>1, <1>4, <2>2 DEF Careful
      <4> QED
        BY <4>1 DEF Safe, Without
    <3>2. copy \in Paths /\ copy # NoPath
      BY <3>1 DEF TypeInv, TypeOK, Paths
    <3>3. FromStdin' => copy # Out'
      BY <1>1, <3>1, <3>2 DEF FromStdin, Out, File, Outputs
    <3>4. NotInTheWay(copy)'
      <4>1. \A f \in ToSet(i.files) : Output(i, f) # copy
        <5>1. CASE i.files = <<>>
          BY <5>1 DEF ToSet
        <5>2. CASE i.files # <<>>
          BY <3>1, <3>2, <5>2 DEF Outputs
        <5> QED
          BY <5>1, <5>2
      <4>2. {} \in SUBSET ToSet(i.files) /\ {} \cap DOMAIN disk' = {}
        OBVIOUS
      <4> QED
        BY <1>1, <4>1, <4>2 DEF NotInTheWay
    <3> QED
      BY <1>1, <3>1, <3>3, <3>4 DEF Copies, IsCopy
  <2> QED
    BY <2>1, <2>2
<1> QED
  BY <1>2, <1>3, <1>4 DEF CopyInv, CopiesLeft

(* Steps that leave the files alone.                                       *)
LEMMA CopiesSame ==
  ASSUME CopyInv, UNCHANGED <<inv, disk, careful>>, step' \in {"exit", "next", "inspect", "open"},
         step # "exit",
         step' # "exit" => UNCHANGED todo \/ ~FromStdin
  PROVE  CopyInv'
<1>1. FromStdin' = FromStdin
  BY DEF FromStdin
<1>2. step' # "exit" /\ FromStdin' => Out' = Out
  BY <1>1, SameFile
<1>3. CarefulLine' /\ Moved'
  BY DEF CopyInv, CarefulLine, Moved
<1>4. ASSUME NEW copy, NEW x, IsCopy(copy, x) PROVE IsCopy(copy, x)'
  BY <1>1, <1>2, <1>4 DEF IsCopy, NotInTheWay
<1>5. CopiesLeft'
  BY <1>4 DEF CopyInv, CopiesLeft, Copies
<1> QED
  BY <1>3, <1>5 DEF CopyInv

(* The output is not a copy that anything depends on.                      *)
LEMMA CopiesOpen ==
  ASSUME TypeInv, ForceInv, CopyInv, Open, step' = "create"
  PROVE  CopyInv'
<1>1. UNCHANGED <<inv, disk, todo, careful>> /\ Out' = Out /\ FromStdin' = FromStdin
  BY SameFile DEF Open, run
<1>2. /\ inv.mode # "inspect" /\ (FromStdin \/ (todo # <<>> /\ Exists(File)))
      /\ step = "open"
  BY DEF Open, Exit, Go, TypeInv, OfItsMode
<1>3. CarefulLine' /\ Moved'
  BY <1>1 DEF CopyInv, CarefulLine, Moved
<1>4. ASSUME NEW copy, NEW x, IsCopy(copy, x) PROVE IsCopy(copy, x)'
  <2>1. CASE FromStdin
    BY <1>1, <1>2, <1>4, <2>1 DEF IsCopy, NotInTheWay
  <2>2. CASE ~FromStdin /\ Overwrites(inv)
    <3>1. copy # Out
      BY <1>1, <1>2, <1>4, <2>2, OutOfReach DEF IsCopy
    <3> QED
      BY <1>1, <1>2, <1>4, <2>2, <3>1 DEF IsCopy, NotInTheWay
  <2>3. CASE ~FromStdin /\ ~Overwrites(inv)
    <3>1. Refusing
      BY <1>2, <2>3, LineFields DEF Overwrites, Refusing, FromStdin, TypeInv
    <3>2. copy # Out
      BY <1>2, <1>4, <3>1 DEF ForceInv, OutputIsNew, IsCopy, Exists
    <3> QED
      BY <1>1, <1>2, <1>4, <2>3, <3>2 DEF IsCopy
  <2> QED
    BY <2>1, <2>2, <2>3
<1>5. CopiesLeft'
  BY <1>1, <1>4 DEF CopyInv, CopiesLeft, Copies
<1> QED
  BY <1>3, <1>5 DEF CopyInv

(* Writing the output changes nothing else.                                *)
LEMMA CopiesWritten ==
  ASSUME TypeInv, CopyInv, step \in {"create", "copy", "close"},
         NEW content, disk' = IF Out = NoPath THEN disk ELSE Written(disk, Out, content),
         UNCHANGED <<inv, careful>>,
         step' \in {"next", "exit"} \/ UNCHANGED todo, step' = "next" => ~FromStdin,
         step' \in {"next", "exit", "copy", "close", "remove"}
  PROVE  CopiesLeft'
<1>1. FromStdin' = FromStdin /\ (UNCHANGED todo => Out' = Out)
  BY SameFile DEF FromStdin
<1>2. FromStdin \/ (todo # <<>> /\ Exists(File))
  BY DEF TypeInv, OfItsMode
<1>3. /\ DOMAIN disk \subseteq DOMAIN disk' /\ DOMAIN disk' \subseteq DOMAIN disk \cup {Out}
      /\ \A p \in DOMAIN disk : p # Out => disk'[p] = disk[p]
  BY DEF Written
<1>4. ASSUME NEW copy, NEW x, IsCopy(copy, x) PROVE IsCopy(copy, x)'
  <2>1. copy \in DOMAIN disk /\ copy # Out /\ Intact(disk[copy], x)
    BY <1>4 DEF IsCopy
  <2>2. copy \in DOMAIN disk' /\ Intact(disk'[copy], x)
    BY <1>3, <2>1
  <2>3. step' # "exit" /\ inv.mode # "inspect" /\ Overwrites(inv) => NotInTheWay(copy)'
    BY <1>2, <1>3, <1>4, OutOfReach DEF IsCopy
  <2> QED
    BY <1>1, <2>1, <2>2, <2>3 DEF IsCopy
<1>5. CopiesLeft'
  BY <1>3, <1>4 DEF CopyInv, CopiesLeft, Copies, IsCopy
<1> QED
  BY <1>5

(* The input is removed behind a complete output.                          *)
LEMMA MovedClose ==
  ASSUME TypeInv, CopyInv, Close
  PROVE  Moved'
<1>1. SUFFICES ASSUME careful', step' = "remove", Exists(File)',
                      NEW x \in Data, Intact(disk'[File'], x)
               PROVE  Exists(Out)' /\ Intact(disk'[Out'], x)
  BY DEF Moved
<1>2. UNCHANGED <<inv, careful, todo>> /\ Removes /\ step = "close"
  BY <1>1 DEF Close, Go, Exit, run
<1>3. File' = File /\ Out' = Out
  BY <1>2, SameFile
<1>4. /\ ~FromStdin /\ todo # <<>> /\ Exists(File) /\ inv.mode # "inspect"
      /\ ~inv.keep /\ ~inv.stdout
  BY <1>2 DEF Removes, TypeInv, OfItsMode
<1>5. ~inv.part
  BY <1>1, <1>2, <1>4 DEF CopyInv, CarefulLine
<1>6. Out \in Paths /\ Out # NoPath
  BY <1>4, FileAndOut DEF TypeInv, Paths
<1>7. PICK result \in Results : disk' = Written(disk, Out, result)
  BY <1>6 DEF Close
<1>8. Exists(Out)' /\ disk'[Out] = result
  BY <1>3, <1>7 DEF Exists, Written
<1>9. CASE File = Out
  BY <1>1, <1>3, <1>8, <1>9
<1>10. CASE File # Out
  <2>1. Input = disk[File] /\ Intact(Input, x)
    BY <1>1, <1>3, <1>4, <1>7, <1>10 DEF Input, Written, Exists
  <2>2. Input \in Seq(Labels)
    BY <1>2, <1>4, InputType
  <2>3. Intact(result, x)
    BY <1>5, <2>1, <2>2, ResultIntact
  <2> QED
    BY <1>3, <1>8, <2>3
<1> QED
  BY <1>9, <1>10

(* When the copy is the input that goes, the output is the copy instead.   *)
LEMMA CopiesRemoved ==
  ASSUME TypeInv, CopyInv, RemoveInput
  PROVE  CopiesLeft'
<1>1. /\ UNCHANGED <<inv, careful>> /\ step' = "next" /\ step = "remove"
      /\ disk' \in {disk, Removed(disk, File)} /\ FromStdin' = FromStdin
  BY DEF RemoveInput, Go, run, FromStdin
<1>2. /\ ~FromStdin /\ todo # <<>> /\ inv.mode # "inspect" /\ ~inv.stdout
      /\ File \in ToSet(inv.files) /\ Out # NoPath
  <2>1. ~FromStdin /\ todo # <<>> /\ inv.mode # "inspect" /\ ~inv.stdout
    BY <1>1 DEF TypeInv, TypeOK, OfItsMode, Removes
  <2> QED
    BY <2>1, FileAndOut DEF TypeInv, Paths
<1>3. SUFFICES ASSUME careful, NEW x \in Data PROVE Copies(x)'
  BY <1>1 DEF CopiesLeft
<1>4. PICK copy \in DOMAIN disk : IsCopy(copy, x)
  BY <1>3 DEF CopyInv, CopiesLeft, Copies
<1>5. CASE disk' = disk
  BY <1>1, <1>2, <1>4, <1>5 DEF Copies, IsCopy, NotInTheWay
<1>6. CASE disk' = Removed(disk, File) /\ copy # File
  <2>1. copy \in DOMAIN disk' /\ disk'[copy] = disk[copy] /\ DOMAIN disk' \subseteq DOMAIN disk
    BY <1>4, <1>6, RemovedIs
  <2>2. NotInTheWay(copy) => NotInTheWay(copy)'
    BY <1>1, <2>1 DEF NotInTheWay
  <2> QED
    BY <1>1, <1>2, <1>4, <2>1, <2>2 DEF Copies, IsCopy
<1>7. CASE disk' = Removed(disk, File) /\ copy = File
  <2>1. PICK out, gz : out = Out /\ gz = File
    OBVIOUS
  <2>2. out \in DOMAIN disk /\ Intact(disk[out], x) /\ out # gz
    BY <2>1, <1>1, <1>3, <1>4, <1>7 DEF CopyInv, Moved, IsCopy, Exists
  <2>3. out \in DOMAIN disk' /\ disk'[out] = disk[out] /\ DOMAIN disk' = DOMAIN disk \ {gz}
    BY <1>7, <2>1, <2>2, RemovedIs
  <2>4. ASSUME NotInTheWay(gz) PROVE NotInTheWay(out)'
    <3>1. PICK gone \in SUBSET ToSet(inv.files) :
            /\ gone \cap DOMAIN disk = {}
            /\ \A f \in ToSet(inv.files) : Output(inv, f) \in gone \cup {gz} => f \in gone
      BY <2>4 DEF NotInTheWay
    <3>2. \A f \in ToSet(inv.files) : Output(inv, f) = out => f = gz
      BY <1>2, <1>3, <2>1 DEF CopyInv, CarefulLine, OutputsDiffer, Out
    <3>3. gz \in ToSet(inv.files)
      BY <1>2, <2>1
    <3>4. gone \cup {gz} \in SUBSET ToSet(inv.files) /\ (gone \cup {gz}) \cap DOMAIN disk' = {}
      BY <2>3, <3>1, <3>3
    <3>5. \A f \in ToSet(inv.files) :
            Output(inv, f) \in (gone \cup {gz}) \cup {out} => f \in gone \cup {gz}
      BY <3>1, <3>2
    <3> QED
      BY <1>1, <3>4, <3>5 DEF NotInTheWay
  <2> QED
    BY <1>1, <1>2, <1>4, <1>7, <2>1, <2>2, <2>3, <2>4 DEF Copies, IsCopy
<1> QED
  BY <1>1, <1>5, <1>6, <1>7

LEMMA CopiesStep ==
  ASSUME TypeInv, ForceInv, CopyInv, [Next]_vars
  PROVE  CopyInv'
<1>1. CASE UNCHANGED vars
  <2>1. UNCHANGED <<inv, disk, todo, careful, step>> /\ File' = File /\ Out' = Out
        /\ FromStdin' = FromStdin
    BY <1>1, SameFile DEF vars
  <2>2. CarefulLine' /\ Moved'
    BY <2>1 DEF CopyInv, CarefulLine, Moved, Exists
  <2>3. CopiesLeft'
    BY <2>1 DEF CopyInv, CopiesLeft, Copies, IsCopy, NotInTheWay
  <2> QED
    BY <2>2, <2>3 DEF CopyInv
<1>2. CASE \E i \in Invocations : Start(i)
  BY <1>2, CopiesStart
<1>3. CASE NextFile
  <2>1. /\ UNCHANGED <<inv, disk, careful, todo>> /\ step = "next"
        /\ step' \in {"exit", "inspect", "open"}
    BY <1>3 DEF NextFile, Go, Exit, run
  <2> QED
    BY <2>1, CopiesSame
<1>4. CASE Open
  <2>1. /\ UNCHANGED <<inv, disk, careful, todo>> /\ step = "open"
        /\ step' \in {"exit", "create"}
    BY <1>4 DEF Open, Go, Exit, run
  <2> QED
    BY <1>4, <2>1, CopiesSame, CopiesOpen
<1>5. CASE Create
  <2>1. UNCHANGED <<inv, careful, todo>> /\ step = "create" /\ step' = "copy"
        /\ disk' = IF Out = NoPath THEN disk ELSE Written(disk, Out, <<>>)
    BY <1>5 DEF Create, Go, run
  <2>2. CopiesLeft'
    BY <2>1, CopiesWritten
  <2>3. CarefulLine' /\ Moved'
    BY <2>1 DEF CopyInv, CarefulLine, Moved
  <2> QED
    BY <2>2, <2>3 DEF CopyInv
<1>6. CASE Copy
  <2>1. UNCHANGED <<inv, careful, todo>> /\ step = "copy" /\ step' \in {"close", "exit"}
    BY <1>6 DEF Copy, ReturnError, Go, Exit, run
  <2>2. CASE step' = "exit"
    <3>1. UNCHANGED disk
      BY <1>6, <2>2 DEF Copy, ReturnError, Go, Exit
    <3> QED
      BY <2>1, <2>2, <3>1, CopiesSame
  <2>3. CASE step' = "close"
    <3>1. PICK result \in Results :
            disk' = IF Out = NoPath THEN disk ELSE Written(disk, Out, Cut(result))
      BY <1>6, <2>3 DEF Copy, ReturnError, Go, Exit
    <3>2. CopiesLeft'
      BY <2>1, <2>3, <3>1, CopiesWritten
    <3>3. CarefulLine' /\ Moved'
      BY <2>1, <2>3 DEF CopyInv, CarefulLine, Moved
    <3> QED
      BY <3>2, <3>3 DEF CopyInv
  <2> QED
    BY <2>1, <2>2, <2>3
<1>7. CASE Close
  <2>1. PICK result \in Results :
          disk' = IF Out = NoPath THEN disk ELSE Written(disk, Out, result)
    BY <1>7 DEF Close
  <2>2. /\ UNCHANGED <<inv, careful>> /\ step = "close" /\ step' \in {"remove", "exit", "next"}
        /\ (step' = "remove" => UNCHANGED todo) /\ (step' = "next" => ~FromStdin)
    BY <1>7 DEF Close, Go, Exit, run
  <2>3. CopiesLeft'
    BY <2>1, <2>2, CopiesWritten
  <2>4. CarefulLine'
    BY <2>2 DEF CopyInv, CarefulLine
  <2> QED
    BY <1>7, <2>3, <2>4, MovedClose DEF CopyInv
<1>8. CASE RemoveInput
  <2>1. UNCHANGED <<inv, careful>> /\ step' = "next"
    BY <1>8 DEF RemoveInput, Go, run
  <2>2. CarefulLine' /\ Moved'
    BY <2>1 DEF CopyInv, CarefulLine, Moved
  <2> QED
    BY <1>8, <2>2, CopiesRemoved DEF CopyInv
<1>9. CASE Inspect \/ Stop
  <2>1. UNCHANGED <<inv, disk, careful>> /\ step' \in {"exit", "next"} /\ step # "exit"
        /\ (step' = "next" => ~FromStdin)
    BY <1>9 DEF Inspect, Stop, Go, Exit, run, TypeInv, OfItsMode
  <2> QED
    BY <2>1, CopiesSame
<1> QED
  BY <1>1, <1>2, <1>3, <1>4, <1>5, <1>6, <1>7, <1>8, <1>9 DEF Next, Work

LEMMA CopiesInit ==
  ASSUME Init
  PROVE  CopyInv
<1>1. CopiesLeft
  BY CliConfig DEF Init, CopiesLeft, Copies, IsCopy, Safe
<1> QED
  BY <1>1 DEF Init, CopyInv, CarefulLine, Moved, NoInvocation

LEMMA CopyInvariance == Spec => []CopyInv
BY CopiesInit, CopiesStep, ForceInvariance, CliTypeInvariance, PTL DEF Spec

(* Through any sequence of careful command lines, killed or failing at any *)
(* step, there is a whole copy of everything: an input goes only behind    *)
(* its output, and no output takes the place of the last copy              *)
(* (main.rs:311-353).                                                      *)
THEOREM NothingIsLost == Spec => []DataSurvives
<1>1. CopyInv => DataSurvives
  BY DEF CopyInv, CopiesLeft, Copies, IsCopy, DataSurvives, Safe
<1> QED
  BY <1>1, CopyInvariance, PTL

-----------------------------------------------------------------------------
(* What was worked on.                                                     *)
Finished == Len(inv.files) - Len(todo)
InTurn ==
  /\ Len(todo) <= Len(inv.files)
  /\ \A k \in DOMAIN todo : todo[k] = inv.files[Finished + k]

IsDone(k, out) ==
  IF inv.mode = "inspect" \/ out = NoPath
  THEN k \in DOMAIN stdout /\ stdout[k] = Expected(Contents[k])
  ELSE out \in DOMAIN disk /\ disk[out] = Expected(Contents[k])

ToStdout ==
  \/ inv.mode = "inspect"
  \/ inv.stdout /\ (inv.mode = "compress" \/ inv.output = NoPath)

FileDone(k) == IsDone(k, Output(inv, inv.files[k]))

(* A file that is given twice is worked on twice, to the same output.      *)
Again(k) == step \in {"copy", "close"} /\ ~ToStdout /\ inv.files[k] = File

FilesDone ==
  Proper /\ ~FromStdin /\ status \in {"none", "ok"} =>
    /\ \A f \in ToSet(inv.files) : Exists(f) => disk[f] = before[f]
    /\ ToStdout => Len(stdout) = Finished
    /\ \A k \in 1..Finished : ~Again(k) => FileDone(k)
    /\ step = "remove" => FileDone(Finished + 1)
    /\ status = "ok" => todo = <<>>

StdinDone ==
  Proper /\ FromStdin /\ inv.mode # "inspect" =>
    /\ step # "exit" => stdout = <<>>
    /\ status = "ok" => IsDone(1, Out)

DoneInv == InTurn /\ FilesDone /\ StdinDone

(* The list goes file by file.                                             *)
LEMMA TurnTypes ==
  ASSUME TypeInv, InTurn
  PROVE  /\ Len(inv.files) \in Nat /\ Len(todo) \in Nat /\ Finished \in 0..Len(inv.files)
         /\ DOMAIN inv.files = 1..Len(inv.files) /\ DOMAIN todo = 1..Len(todo)
         /\ \A k \in 1..Len(inv.files) : inv.files[k] \in ToSet(inv.files) /\ inv.files[k] \in Paths
<1>1. inv.files \in Seq(Paths) /\ todo \in Seq(ToSet(inv.files))
  BY LineFields DEF TypeInv
<1>2. /\ Len(inv.files) \in Nat /\ Len(todo) \in Nat
      /\ DOMAIN inv.files = 1..Len(inv.files) /\ DOMAIN todo = 1..Len(todo)
      /\ \A k \in 1..Len(inv.files) : inv.files[k] \in Paths
  BY <1>1
<1>3. Len(inv.files) - Len(todo) \in 0..Len(inv.files)
  BY <1>2 DEF InTurn
<1> QED
  BY <1>2, <1>3 DEF Finished, ToSet

LEMMA FileInTurn ==
  ASSUME TypeInv, InTurn, ~FromStdin, todo # <<>>
  PROVE  /\ File = inv.files[Finished + 1] /\ Finished + 1 \in 1..Len(inv.files)
<1>1. todo \in Seq(ToSet(inv.files)) /\ Len(todo) > 0
  <2>1. todo \in Seq(ToSet(inv.files))
    BY LineFields DEF TypeInv
  <2>2. Len(todo) \in Nat \ {0}
    BY <2>1, EmptySeq
  <2> QED
    BY <2>1, <2>2
<1>2. 1 \in DOMAIN todo /\ File = todo[1]
  BY <1>1 DEF File
<1>3. File = inv.files[Finished + 1]
  BY <1>2 DEF InTurn
<1>4. Finished + 1 \in 1..Len(inv.files)
  BY <1>1, TurnTypes DEF Finished, InTurn
<1> QED
  BY <1>3, <1>4

LEMMA TurnOthers ==
  ASSUME TypeInv, InTurn, todo # <<>>, inv' = inv, todo' = Others
  PROVE  InTurn' /\ Finished' = Finished + 1
<1>1. todo \in Seq(ToSet(inv.files)) /\ Len(todo) \in Nat \ {0}
  <2>1. todo \in Seq(ToSet(inv.files))
    BY LineFields DEF TypeInv
  <2> QED
    BY <2>1, EmptySeq
<1>2. /\ Len(todo') = Len(todo) - 1 /\ DOMAIN todo' = 1 .. Len(todo) - 1
      /\ \A k \in 1 .. Len(todo) - 1 : todo'[k] = todo[k + 1]
  BY <1>1 DEF Others
<1>3. Finished' = Finished + 1
  BY <1>1, <1>2, TurnTypes DEF Finished
<1>4. ASSUME NEW k \in 1 .. Len(todo) - 1 PROVE todo'[k] = inv.files[Finished' + k]
  <2>1. k + 1 \in DOMAIN todo
    BY <1>1, <1>4
  <2>2. todo[k + 1] = inv.files[Finished + (k + 1)]
    BY <2>1 DEF InTurn
  <2>3. Finished + (k + 1) = (Finished + 1) + k
    BY <1>4, TurnTypes
  <2> QED
    BY <1>2, <1>3, <2>2, <2>3
<1>5. Len(todo') <= Len(inv.files)
  BY <1>1, <1>2, TurnTypes DEF InTurn
<1> QED
  BY <1>2, <1>3, <1>4, <1>5 DEF InTurn

LEMMA TurnStep ==
  ASSUME TypeInv, InTurn, [Next]_vars
  PROVE  InTurn'
<1>1. CASE UNCHANGED <<inv, todo>>
  BY <1>1 DEF InTurn, Finished
<1>2. ASSUME NEW i \in Invocations, Start(i) PROVE InTurn'
  <2>1. inv' = i /\ todo' = i.files /\ i.files \in Seq(Paths)
    BY <1>2, CliArguments DEF Start
  <2>2. Len(i.files) \in Nat /\ DOMAIN i.files = 1..Len(i.files)
    BY <2>1
  <2>3. Finished' = 0
    BY <2>1, <2>2 DEF Finished
  <2>4. \A k \in 1..Len(i.files) : 0 + k = k
    BY <2>2
  <2> QED
    BY <2>1, <2>2, <2>3, <2>4 DEF InTurn
<1>3. CASE inv' = inv /\ todo' = Others /\ todo # <<>>
  BY <1>3, TurnOthers
<1>4. \/ UNCHANGED <<inv, todo>> \/ \E i \in Invocations : Start(i)
      \/ inv' = inv /\ todo' = Others /\ todo # <<>>
  BY DEF Next, Work, NextFile, Open, Create, Copy, Close, RemoveInput, Inspect, Stop, run, vars,
         TypeInv, TypeOK, OfItsMode
<1> QED
  BY <1>1, <1>2, <1>3, <1>4

(* What the properties of a run depend on.                                 *)
LEMMA SameTask ==
  ASSUME UNCHANGED run
  PROVE  /\ Proper' = Proper /\ Contents' = Contents /\ ToStdout' = ToStdout
         /\ \A c : Expected(c)' = Expected(c)
         /\ FromStdin' = FromStdin
BY DEF run, Proper, Contents, Suitable, Outputs, Output, ToStdout, Expected, FromStdin

LEMMA StillDone ==
  ASSUME UNCHANGED run, NEW k, FileDone(k),
         k \in DOMAIN stdout => k \in DOMAIN stdout' /\ stdout'[k] = stdout[k],
         \A out \in DOMAIN disk : out = Output(inv, inv.files[k]) =>
           out \in DOMAIN disk' /\ disk'[out] = disk[out]
  PROVE  FileDone(k)'
<1>1. PICK out : out = Output(inv, inv.files[k])
  OBVIOUS
<1>2. inv' = inv /\ Output(inv, inv.files[k])' = out
  BY <1>1 DEF run
<1>3. Expected(Contents[k])' = Expected(Contents[k])
  BY SameTask DEF Expected, run
<1> QED
  BY <1>1, <1>2, <1>3 DEF FileDone, IsDone

LEMMA WhereTo ==
  ASSUME TypeInv, ~FromStdin, NEW f \in Paths
  PROVE  inv.mode = "inspect" \/ Output(inv, f) = NoPath <=> ToStdout
<1>1. inv.output \in Paths \cup {NoPath} /\ inv.mode \in {"inspect", "compress", "decompress"}
  BY LineFields DEF TypeInv
<1>2. ~inv.stdout => Output(inv, f) # NoPath
  BY <1>1, OutputPath DEF FromStdin, Paths
<1> QED
  BY <1>1, <1>2 DEF ToStdout, Output, FromStdin

(* Of a whole file there is one result.                                    *)
LEMMA ResultExpected ==
  ASSUME Input \in Seq(Labels), Suitable(Input), ~inv.part,
         inv.mode \in {"compress", "decompress"}, NEW result \in Results
  PROVE  result = Expected(Input)
<1>1. Input # <<>> /\ ~IsCutPgzf(Input)
  BY NotCut DEF Suitable
<1>2. CASE inv.mode = "compress"
  BY <1>1, <1>2 DEF Results, Expected, Compressed
<1>3. CASE inv.mode = "decompress"
  BY <1>1, <1>3 DEF Results, Expected
<1> QED
  BY <1>2, <1>3

(* What the file in work is, and where its result goes.                    *)
LEMMA InWork ==
  ASSUME TypeInv, InTurn, FilesDone, Proper, ~FromStdin, status \in {"none", "ok"}, todo # <<>>
  PROVE  /\ File \in ToSet(inv.files) /\ File \in Paths
         /\ Contents[Finished + 1] = before[File] /\ Suitable(before[File])
         /\ File # Out /\ Exists(File) => disk[File] = before[File]
         /\ Out \notin ToSet(inv.files)
<1>1. File \in ToSet(inv.files) /\ File \in Paths
  BY FileAndOut DEF TypeInv
<1>2. File = inv.files[Finished + 1] /\ Finished + 1 \in 1..Len(inv.files) /\ Finished + 1 \in DOMAIN inv.files
  BY FileInTurn, TurnTypes
<1>3. Contents = [k \in DOMAIN inv.files |-> before[inv.files[k]]]
  BY DEF Contents
<1>4. Contents[Finished + 1] = before[File] /\ Suitable(before[File])
  BY <1>2, <1>3 DEF Proper
<1>5. Exists(File) => disk[File] = before[File]
  BY <1>1 DEF FilesDone
<1>6. Out \notin ToSet(inv.files)
  <2>1. ToSet(inv.files) \subseteq Paths
    BY LineFields DEF TypeInv
  <2>2. CASE Out = NoPath
    BY <2>1, <2>2 DEF Paths
  <2>3. CASE Out # NoPath
    <3>1. Out \in Outputs(inv)
      BY <1>1, <2>3 DEF Outputs, FromStdin, Out
    <3> QED
      BY <3>1 DEF Proper
  <2> QED
    BY <2>2, <2>3
<1> QED
  BY <1>1, <1>4, <1>5, <1>6

(* Two files have two outputs.                                             *)
LEMMA OtherOutput ==
  ASSUME CarefulLine, Proper, inv.mode # "inspect", ~FromStdin, File \in ToSet(inv.files),
         NEW f \in ToSet(inv.files), f # File, Output(inv, f) # NoPath
  PROVE  Output(inv, f) # Out
BY DEF CarefulLine, Proper, OutputsDiffer, Out

(* Steps at which an output is being written.                              *)
LEMMA FilesWritten ==
  ASSUME TypeInv, CarefulLine, InTurn, FilesDone, UNCHANGED <<run, todo, stdout, status>>,
         NEW content, disk' = IF Out = NoPath THEN disk ELSE Written(disk, Out, content),
         step \in {"create", "copy"}, step' \in {"copy", "close"}
  PROVE  FilesDone'
<1>1. SUFFICES ASSUME Proper, ~FromStdin, status \in {"none", "ok"} PROVE FilesDone'
  BY SameTask DEF FilesDone
<1>2. todo # <<>> /\ inv.mode # "inspect" /\ UNCHANGED <<inv, before>>
  BY <1>1 DEF TypeInv, OfItsMode, run
<1>3. File' = File /\ Finished' = Finished /\ ToStdout' = ToStdout
  BY <1>2, SameFile, SameTask DEF Finished
<1>4. /\ File \in ToSet(inv.files) /\ File \in Paths /\ Out \notin ToSet(inv.files)
  BY <1>1, <1>2, InWork
<1>5. \A p \in DOMAIN disk' : p # Out => p \in DOMAIN disk /\ disk'[p] = disk[p]
  BY DEF Written
<1>6. \A p \in DOMAIN disk : p # Out => p \in DOMAIN disk' /\ disk'[p] = disk[p]
  BY DEF Written
<1>7. \A f \in ToSet(inv.files) : f \in DOMAIN disk' => disk'[f] = before[f]
  BY <1>1, <1>4, <1>5 DEF FilesDone, Exists
<1>8. ASSUME NEW k \in 1..Finished, ~Again(k)' PROVE FileDone(k)'
  <2>1. inv.files[k] \in ToSet(inv.files) /\ inv.files[k] \in Paths
    BY TurnTypes
  <2>2. ToStdout \/ inv.files[k] # File
    BY <1>2, <1>3, <1>8 DEF Again
  <2>3. FileDone(k)
    BY <1>1, <2>2 DEF FilesDone, Again
  <2>4. Output(inv, inv.files[k]) = NoPath \/ Output(inv, inv.files[k]) # Out
    <3>1. CASE ToStdout
      BY <1>1, <1>2, <2>1, <3>1, WhereTo
    <3>2. CASE ~ToStdout
      BY <1>1, <1>2, <1>4, <2>1, <2>2, <3>2, OtherOutput
    <3> QED
      BY <3>1, <3>2
  <2>5. NoPath \notin DOMAIN disk
    BY DEF TypeInv, TypeOK, Paths
  <2> QED
    BY <1>6, <2>3, <2>4, <2>5, StillDone
<1>9. status' = "ok" => todo' = <<>>
  BY <1>1 DEF FilesDone
<1>10. ToStdout => Len(stdout) = Finished
  BY <1>1 DEF FilesDone
<1> QED
  BY <1>2, <1>3, <1>7, <1>8, <1>9, <1>10 DEF FilesDone, Exists

(* The result is there when the output is closed.                          *)
LEMMA FilesClose ==
  ASSUME TypeInv, CarefulLine, InTurn, FilesDone, Close
  PROVE  FilesDone'
<1>0. UNCHANGED run /\ step = "close" /\ inv' = inv /\ before' = before
  BY DEF Close, run
<1>1. SUFFICES ASSUME Proper, ~FromStdin, status' \in {"none", "ok"} PROVE FilesDone'
  BY <1>0, SameTask DEF FilesDone
<1>2. todo # <<>> /\ inv.mode # "inspect" /\ Exists(File) /\ UNCHANGED status
  BY <1>0, <1>1 DEF TypeInv, OfItsMode, Close, Go
<1>3. /\ File \in ToSet(inv.files) /\ File \in Paths /\ Out \notin ToSet(inv.files)
      /\ Contents[Finished + 1] = before[File] /\ Suitable(before[File])
      /\ disk[File] = before[File] /\ File # Out
  BY <1>1, <1>2, InWork
<1>4. PICK n \in Nat : n = Finished
  BY TurnTypes
<1>5. /\ inv.files[n + 1] = File /\ n + 1 \in 1..Len(inv.files)
      /\ \A k \in 1..n : inv.files[k] \in ToSet(inv.files) /\ inv.files[k] \in Paths
  BY <1>1, <1>2, <1>4, FileInTurn, TurnTypes
<1>6. PICK result \in Results :
        IF Out = NoPath
          THEN stdout' = Append(stdout, result) /\ UNCHANGED disk
          ELSE disk' = Written(disk, Out, result) /\ UNCHANGED stdout
  BY DEF Close
<1>7. result = Expected(Contents[n + 1]) /\ result \in Seq(Labels)
  <2>1. Input = before[File] /\ Input \in Seq(Labels)
    BY <1>0, <1>1, <1>2, <1>3, InputType DEF Input
  <2>2. inv.mode \in {"compress", "decompress"} /\ ~inv.part
    BY <1>1, <1>2, LineFields DEF TypeInv, Proper
  <2> QED
    BY <1>3, <1>4, <2>1, <2>2, ResultExpected, ResultTypes
<1>8. Contents' = Contents /\ ToStdout' = ToStdout
      /\ \A k : Expected(Contents[k])' = Expected(Contents[k])
  BY <1>0, SameTask DEF Expected
<1>9. CASE Out = NoPath
  <2>1. ToStdout /\ inv.stdout
    BY <1>1, <1>2, <1>3, <1>9, FileAndOut, WhereTo DEF Out, TypeInv, Paths
  <2>2. step' = "next" /\ todo' = Others
    BY <1>1, <2>1 DEF Close, Go, Removes
  <2>3. Finished' = n + 1
    BY <1>0, <1>2, <1>4, <2>2, TurnOthers
  <2>4. /\ stdout' = Append(stdout, result) /\ UNCHANGED disk /\ Len(stdout) = n
        /\ stdout \in Seq(Seq(Labels))
    BY <1>1, <1>2, <1>4, <1>6, <1>9, <2>1 DEF FilesDone, TypeInv, TypeOK
  <2>5. /\ Len(stdout') = n + 1 /\ DOMAIN stdout' = 1 .. n + 1 /\ DOMAIN stdout = 1..n
        /\ stdout'[n + 1] = result /\ \A k \in 1..n : stdout'[k] = stdout[k]
    BY <1>7, <2>4
  <2>6. ASSUME NEW k \in 1..n PROVE FileDone(k)'
    <3>1. FileDone(k)
      BY <1>1, <1>2, <1>4, <2>1 DEF FilesDone, Again
    <3>2. k \in DOMAIN stdout => k \in DOMAIN stdout' /\ stdout'[k] = stdout[k]
      BY <2>5
    <3> QED
      BY <1>0, <2>4, <3>1, <3>2, StillDone
  <2>7. FileDone(n + 1)'
    <3>1. Output(inv, inv.files[n + 1]) = NoPath
      BY <1>5, <1>9 DEF Out
    <3>2. n + 1 \in DOMAIN stdout'
      BY <2>5
    <3> QED
      BY <1>0, <1>7, <1>8, <2>5, <3>1, <3>2 DEF FileDone, IsDone
  <2>8. \A k \in 1 .. n + 1 : k \in 1..n \/ k = n + 1
    OBVIOUS
  <2>9. \A k \in 1..Finished' : FileDone(k)'
    BY <2>3, <2>6, <2>7, <2>8
  <2>10. \A f \in ToSet(inv.files) : Exists(f)' => disk'[f] = before[f]
    BY <1>1, <1>2, <2>4 DEF FilesDone, Exists
  <2>11. status' # "ok"
    BY <1>1, <1>2 DEF FilesDone
  <2> QED
    BY <1>0, <2>2, <2>3, <2>5, <2>9, <2>10, <2>11 DEF FilesDone
<1>10. CASE Out # NoPath
  <2>1. ~ToStdout
    BY <1>1, <1>2, <1>3, <1>10, WhereTo DEF Out
  <2>2. /\ Out \in DOMAIN disk' /\ disk'[Out] = result /\ UNCHANGED stdout
        /\ \A p \in DOMAIN disk : p # Out => p \in DOMAIN disk' /\ disk'[p] = disk[p]
        /\ \A p \in DOMAIN disk' : p # Out => p \in DOMAIN disk /\ disk'[p] = disk[p]
    BY <1>6, <1>10 DEF Written
  <2>3. ASSUME NEW k \in 1 .. n + 1, inv.files[k] = File PROVE FileDone(k)'
    <3>1. Contents[k] = Contents[n + 1]
      <4>1. k \in DOMAIN inv.files /\ n + 1 \in DOMAIN inv.files
        BY <1>4, <1>5, TurnTypes
      <4> QED
        BY <1>1, <1>5, <2>3, <4>1 DEF Contents
    <3>2. Output(inv, inv.files[k]) = Out
      BY <2>3 DEF Out
    <3> QED
      BY <1>0, <1>2, <1>7, <1>8, <1>10, <2>2, <3>1, <3>2 DEF FileDone, IsDone
  <2>4. ASSUME NEW k \in 1..n, inv.files[k] # File PROVE FileDone(k)'
    <3>1. FileDone(k)
      BY <1>1, <1>2, <1>4, <2>4 DEF FilesDone, Again
    <3>2. Output(inv, inv.files[k]) # Out
      BY <1>1, <1>2, <1>3, <1>5, <1>10, <2>4, OtherOutput
    <3> QED
      BY <1>0, <2>2, <3>1, <3>2, StillDone
  <2>5. \A k \in 1..n : k \in 1 .. n + 1
    OBVIOUS
  <2>6. \A k \in 1 .. n + 1 : FileDone(k)'
    <3>1. \A k \in 1 .. n + 1 : k \in 1..n \/ k = n + 1
      OBVIOUS
    <3> QED
      BY <1>5, <2>3, <2>4, <3>1
  <2>7. \A f \in ToSet(inv.files) : Exists(f)' => disk'[f] = before[f]
    BY <1>1, <1>2, <1>3, <2>2 DEF FilesDone, Exists
  <2>8. status' # "ok"
    BY <1>1, <1>2 DEF FilesDone
  <2>9. CASE Removes
    <3>1. step' = "remove" /\ UNCHANGED todo
      BY <2>9 DEF Close, Go
    <3>2. Finished' = n
      BY <1>0, <1>4, <3>1 DEF Finished
    <3>3. FileDone(n + 1)' /\ \A k \in 1..n : FileDone(k)'
      BY <2>5, <2>6
    <3>4. FileDone(Finished + 1)'
      BY <3>2, <3>3 DEF FileDone
    <3> QED
      BY <1>0, <1>8, <2>1, <2>7, <2>8, <3>2, <3>3, <3>4 DEF FilesDone
  <2>10. CASE ~Removes
    <3>1. step' = "next" /\ todo' = Others
      BY <1>1, <2>10 DEF Close, Go
    <3>2. Finished' = n + 1
      BY <1>0, <1>2, <1>4, <3>1, TurnOthers
    <3> QED
      BY <1>0, <1>8, <2>1, <2>6, <2>7, <2>8, <3>1, <3>2 DEF FilesDone
  <2> QED
    BY <2>9, <2>10
<1> QED
  BY <1>9, <1>10

(* An input is no output, so what is done stays when it goes.              *)
LEMMA FilesRemoved ==
  ASSUME TypeInv, InTurn, FilesDone, RemoveInput
  PROVE  FilesDone'
<1>0. /\ UNCHANGED run /\ UNCHANGED stdout /\ UNCHANGED status /\ inv' = inv /\ before' = before
      /\ step = "remove" /\ step' = "next" /\ todo' = Others
  BY DEF RemoveInput, Go, run
<1>1. SUFFICES ASSUME Proper, ~FromStdin, status \in {"none", "ok"} PROVE FilesDone'
  BY <1>0, SameTask DEF FilesDone
<1>2. todo # <<>> /\ inv.mode # "inspect" /\ ~inv.stdout
  BY <1>0 DEF TypeInv, TypeOK, OfItsMode, Removes
<1>3. File \in ToSet(inv.files)
  BY <1>1, <1>2, InWork
<1>4. PICK n \in Nat : n = Finished
  BY TurnTypes
<1>5. n + 1 \in 1..Len(inv.files) /\ \A k \in 1 .. n + 1 : inv.files[k] \in ToSet(inv.files)
  <2>1. n + 1 \in 1..Len(inv.files)
    BY <1>1, <1>2, <1>4, FileInTurn
  <2>2. \A k \in 1 .. n + 1 : k \in 1..Len(inv.files)
    BY <2>1, TurnTypes
  <2> QED
    BY <2>1, <2>2, TurnTypes
<1>6. Finished' = n + 1
  BY <1>0, <1>2, <1>4, TurnOthers
<1>7. /\ \A p \in DOMAIN disk : p # File => p \in DOMAIN disk' /\ disk'[p] = disk[p]
      /\ \A p \in DOMAIN disk' : p \in DOMAIN disk /\ disk'[p] = disk[p]
  BY DEF RemoveInput, Removed, Without
<1>8. \A k \in 1 .. n + 1 : FileDone(k)
  <2>1. \A k \in 1..n : FileDone(k)
    BY <1>0, <1>1, <1>4 DEF FilesDone, Again
  <2>2. FileDone(n + 1)
    BY <1>0, <1>1, <1>4 DEF FilesDone
  <2>3. \A k \in 1 .. n + 1 : k \in 1..n \/ k = n + 1
    OBVIOUS
  <2> QED
    BY <2>1, <2>2, <2>3
<1>9. ASSUME NEW k \in 1 .. n + 1 PROVE FileDone(k)'
  <2>1. FileDone(k)
    BY <1>8
  <2>2. Output(inv, inv.files[k]) = NoPath \/ Output(inv, inv.files[k]) \in Outputs(inv)
    BY <1>1, <1>5 DEF Outputs, FromStdin
  <2>3. NoPath \notin DOMAIN disk
    BY DEF TypeInv, TypeOK, Paths
  <2>4. \A out \in DOMAIN disk : out = Output(inv, inv.files[k]) =>
          out \in DOMAIN disk' /\ disk'[out] = disk[out]
    BY <1>1, <1>3, <1>7, <2>2, <2>3 DEF Proper
  <2> QED
    BY <1>0, <2>1, <2>4, StillDone
<1>10. \A f \in ToSet(inv.files) : Exists(f)' => disk'[f] = before[f]
  BY <1>1, <1>7 DEF FilesDone, Exists
<1>11. ~ToStdout' /\ status' # "ok"
  BY <1>0, <1>1, <1>2 DEF ToStdout, FilesDone
<1> QED
  BY <1>0, <1>6, <1>9, <1>10, <1>11 DEF FilesDone

LEMMA FilesInspected ==
  ASSUME TypeInv, InTurn, FilesDone, Inspect
  PROVE  FilesDone'
<1>0. UNCHANGED <<run, disk>> /\ step = "inspect" /\ inv' = inv /\ before' = before
  BY DEF Inspect, run
<1>1. SUFFICES ASSUME Proper, ~FromStdin, status' \in {"none", "ok"} PROVE FilesDone'
  BY <1>0, SameTask DEF FilesDone
<1>2. /\ todo # <<>> /\ inv.mode = "inspect" /\ Exists(File) /\ UNCHANGED status
      /\ step' = "next" /\ todo' = Others
  BY <1>0, <1>1 DEF TypeInv, TypeOK, OfItsMode, Inspect, Go, Exit
<1>3. /\ Contents[Finished + 1] = before[File] /\ Suitable(before[File])
      /\ disk[File] = before[File]
  <2>1. status \in {"none", "ok"}
    BY <1>1, <1>2
  <2>2. /\ File \in ToSet(inv.files) /\ Contents[Finished + 1] = before[File]
        /\ Suitable(before[File])
    BY <1>1, <1>2, <2>1, InWork
  <2>3. disk[File] = before[File]
    BY <1>1, <1>2, <2>1, <2>2 DEF FilesDone
  <2> QED
    BY <2>2, <2>3
<1>4. PICK n \in Nat : n = Finished
  BY TurnTypes
<1>5. Finished' = n + 1
  BY <1>0, <1>2, <1>4, TurnOthers
<1>6. stdout' = Append(stdout, Expected(Contents[n + 1])) /\ Expected(Contents[n + 1]) \in Seq(Labels)
  <2>1. PICK c : c = before[File] /\ c \in Seq(Labels) /\ c = disk[File]
    BY <1>2, <1>3 DEF TypeInv, TypeOK, Exists
  <2>2. c # <<>> /\ ~IsCutPgzf(c) /\ Head(c) \in {"pgzf", "gzip"}
    BY <1>2, <1>3, <2>1, NotCut DEF Suitable
  <2>3. Kinds(c) = {Head(c)}
    <3>1. Head(c) \notin Data /\ Head(c) # "cut"
      BY <2>2, CliConfig
    <3>2. ~MayFail(c) /\ ~IsCutGzip(c) /\ ~MayBeTooShort(c)
      BY <1>2, <1>3, <2>1, <3>1 DEF MayFail, IsCutGzip, Suitable
    <3>3. /\ IsPgzf(c) <=> Head(c) = "pgzf"
          /\ MayBeGzip(c) <=> Head(c) = "gzip"
      BY <2>2, <3>2 DEF IsPgzf, IsGzip, MayBeGzip
    <3> QED
      BY <2>2, <3>2, <3>3 DEF Kinds
  <2>4. stdout' = Append(stdout, <<Head(c)>>)
    <3>1. PICK kind \in Kinds(disk[File]) :
            IF kind = "error" THEN Exit("error") /\ UNCHANGED <<todo, stdout>>
            ELSE stdout' = Append(stdout, <<kind>>) /\ Go("next") /\ todo' = Others
      BY <1>2 DEF Inspect
    <3>2. kind = Head(c)
      BY <2>1, <2>3, <3>1
    <3> QED
      BY <2>2, <3>1, <3>2
  <2>5. Expected(c) = <<Head(c)>>
    BY <1>2 DEF Expected
  <2>7. Head(c) \in Labels
    BY <2>2 DEF Labels
  <2>8. Contents[n + 1] = c
    BY <1>3, <1>4, <2>1
  <2>9. <<Head(c)>> \in Seq(Labels)
    BY <2>7
  <2> QED
    BY <2>4, <2>5, <2>8, <2>9
<1>7. Len(stdout) = n /\ stdout \in Seq(Seq(Labels)) /\ ToStdout
  BY <1>1, <1>2, <1>4 DEF FilesDone, ToStdout, TypeInv, TypeOK
<1>8. /\ Len(stdout') = n + 1 /\ DOMAIN stdout' = 1 .. n + 1 /\ DOMAIN stdout = 1..n
      /\ stdout'[n + 1] = Expected(Contents[n + 1]) /\ \A k \in 1..n : stdout'[k] = stdout[k]
  BY <1>6, <1>7
<1>9. ASSUME NEW k \in 1..n PROVE FileDone(k)'
  <2>1. FileDone(k)
    BY <1>0, <1>1, <1>2, <1>4 DEF FilesDone, Again
  <2>2. k \in DOMAIN stdout => k \in DOMAIN stdout' /\ stdout'[k] = stdout[k]
    BY <1>8
  <2> QED
    BY <1>0, <2>1, <2>2, StillDone
<1>10. FileDone(n + 1)'
  <2>1. Expected(Contents[n + 1])' = Expected(Contents[n + 1])
    BY <1>0, SameTask DEF Expected
  <2>2. n + 1 \in DOMAIN stdout'
    BY <1>8
  <2> QED
    BY <1>0, <1>2, <1>8, <2>1, <2>2 DEF FileDone, IsDone
<1>11. \A k \in 1 .. n + 1 : FileDone(k)'
  <2>1. \A k \in 1 .. n + 1 : k \in 1..n \/ k = n + 1
    OBVIOUS
  <2> QED
    BY <1>9, <1>10, <2>1
<1>12. \A f \in ToSet(inv.files) : Exists(f)' => disk'[f] = before[f]
  BY <1>0, <1>1, <1>2 DEF FilesDone, Exists
<1>13. status' # "ok"
  BY <1>1, <1>2 DEF FilesDone
<1> QED
  BY <1>0, <1>2, <1>5, <1>8, <1>11, <1>12, <1>13 DEF FilesDone

(* Steps that neither write nor go on to another file.                     *)
LEMMA FilesSame ==
  ASSUME TypeInv, InTurn, FilesDone, UNCHANGED <<run, disk, todo, stdout>>,
         step \notin {"copy", "close"} \/ UNCHANGED step,
         step' # "remove" \/ UNCHANGED step,
         \/ status' \notin {"none", "ok"}
         \/ status' = status
         \/ status = "none" /\ todo = <<>>
  PROVE  FilesDone'
<1>1. SUFFICES ASSUME Proper, ~FromStdin, status' \in {"none", "ok"} PROVE FilesDone'
  BY SameTask DEF FilesDone
<1>2. inv' = inv /\ before' = before /\ Finished' = Finished /\ File' = File
      /\ ToStdout' = ToStdout /\ status \in {"none", "ok"}
  BY <1>1, SameFile, SameTask DEF run, Finished
<1>3. ASSUME NEW k, FileDone(k) PROVE FileDone(k)'
  BY <1>3, StillDone
<1>4. \A k \in 1..Finished : ~Again(k)' => ~Again(k)
  BY <1>2 DEF Again
<1>5. \A k \in 1..Finished : ~Again(k)' => FileDone(k)'
  BY <1>1, <1>2, <1>3, <1>4 DEF FilesDone
<1>6. step' = "remove" => FileDone(Finished + 1)'
  BY <1>1, <1>2, <1>3 DEF FilesDone
<1>7. status' = "ok" => todo' = <<>>
  BY <1>1, <1>2 DEF FilesDone
<1> QED
  BY <1>1, <1>2, <1>5, <1>6, <1>7 DEF FilesDone, Exists

LEMMA FilesStart ==
  ASSUME NEW i \in Invocations, Start(i)
  PROVE  FilesDone'
<1>1. /\ inv' = i /\ todo' = i.files /\ before' = disk' /\ stdout' = <<>>
      /\ step' # "remove" /\ status' # "ok"
  BY DEF Start
<1>2. Len(i.files) \in Nat
  BY CliArguments
<1>3. Finished' = 0
  BY <1>1, <1>2 DEF Finished
<1>4. Len(stdout') = 0 /\ 1..0 = {}
  BY <1>1
<1> QED
  BY <1>1, <1>3, <1>4 DEF FilesDone

LEMMA FilesStep ==
  ASSUME TypeInv, CarefulLine, InTurn, FilesDone, [Next]_vars
  PROVE  FilesDone'
<1>1. CASE UNCHANGED vars
  BY <1>1, FilesSame DEF vars, run
<1>2. CASE \E i \in Invocations : Start(i)
  BY <1>2, FilesStart
<1>3. CASE NextFile
  <2>1. status = "none"
    BY <1>3 DEF NextFile, TypeInv, OfItsMode
  <2>2. /\ UNCHANGED <<run, disk, todo, stdout>> /\ step = "next"
        /\ step' \in {"exit", "inspect", "open"}
        /\ status' = "error" \/ status' = status \/ todo = <<>>
    BY <1>3 DEF NextFile, Go, Exit
  <2> QED
    BY <2>1, <2>2, FilesSame
<1>4. CASE Open
  <2>1. /\ UNCHANGED <<run, disk, todo, stdout>> /\ step = "open"
        /\ step' \in {"exit", "create"} /\ (status' = "error" \/ status' = status)
    BY <1>4 DEF Open, Go, Exit
  <2> QED
    BY <2>1, FilesSame
<1>5. CASE Create
  BY <1>5, FilesWritten DEF Create, Go
<1>6. CASE Copy
  <2>1. UNCHANGED <<run, todo, stdout>> /\ step = "copy"
    BY <1>6 DEF Copy
  <2>2. CASE step' = "exit"
    <3>1. status' = "error"
      BY <1>6, <2>2 DEF Copy, ReturnError, Go, Exit
    <3> QED
      BY <3>1 DEF FilesDone
  <2>3. CASE step' # "exit"
    <3>1. step' = "close" /\ UNCHANGED status /\ \E result \in Results :
            disk' = IF Out = NoPath THEN disk ELSE Written(disk, Out, Cut(result))
      BY <1>6, <2>3 DEF Copy, ReturnError, Go, Exit
    <3> QED
      BY <2>1, <3>1, FilesWritten
  <2> QED
    BY <2>2, <2>3
<1>7. CASE Stop
  <2>1. status' = "stopped"
    BY <1>7 DEF Stop, Exit
  <2> QED
    BY <2>1 DEF FilesDone
<1> QED
  BY <1>1, <1>2, <1>3, <1>4, <1>5, <1>6, <1>7, FilesClose, FilesRemoved, FilesInspected
  DEF Next, Work

LEMMA StdinStep ==
  ASSUME TypeInv, StdinDone, [Next]_vars
  PROVE  StdinDone'
<1>1. CASE UNCHANGED vars
  BY <1>1, SameFile, SameTask DEF vars, run, StdinDone, IsDone, Expected
<1>2. CASE \E i \in Invocations : Start(i)
  BY <1>2 DEF Start, StdinDone
<1>3. ASSUME UNCHANGED run, ~Close, Work \/ Stop PROVE StdinDone'
  <2>1. SUFFICES ASSUME Proper, FromStdin, inv.mode # "inspect" PROVE StdinDone'
    BY <1>3, SameTask DEF StdinDone, run
  <2>2. step \in {"open", "create", "copy"} \/ Stop
    BY <1>3, <2>1 DEF Work, NextFile, Open, Create, Copy, RemoveInput, Inspect, TypeInv, OfItsMode
  <2>3. UNCHANGED stdout /\ status' # "ok" /\ step # "exit"
    BY <1>3, <2>2 DEF Work, NextFile, Open, Create, Copy, Close, RemoveInput, Inspect, Stop,
                      Go, Exit, ReturnError, TypeInv, OfItsMode
  <2> QED
    BY <2>1, <2>3 DEF StdinDone
<1>4. CASE Close
  <2>0. UNCHANGED run /\ inv' = inv /\ step = "close"
    BY <1>4 DEF Close, run
  <2>1. SUFFICES ASSUME Proper, FromStdin, inv.mode # "inspect" PROVE StdinDone'
    BY <2>0, SameTask DEF StdinDone
  <2>2. step' = "exit" /\ UNCHANGED todo /\ stdout = <<>>
    BY <1>4, <2>0, <2>1 DEF Close, Removes, Exit, StdinDone
  <2>3. Contents = <<inv.stdin>> /\ Suitable(inv.stdin) /\ Contents[1] = inv.stdin
    BY <2>1 DEF Proper, Contents
  <2>4. PICK result \in Results :
          IF Out = NoPath
            THEN stdout' = Append(stdout, result) /\ UNCHANGED disk
            ELSE disk' = Written(disk, Out, result) /\ UNCHANGED stdout
    BY <1>4 DEF Close
  <2>5. result = Expected(Contents[1]) /\ result \in Seq(Labels)
    <3>1. Input = inv.stdin /\ Input \in Seq(Labels)
      BY <2>0, <2>1, InputType DEF Input
    <3>2. inv.mode \in {"compress", "decompress"} /\ ~inv.part
      BY <2>1, LineFields DEF TypeInv, Proper
    <3> QED
      BY <2>3, <2>4, <3>1, <3>2, ResultExpected, ResultTypes
  <2>6. Out' = Out /\ Expected(Contents[1])' = Expected(Contents[1])
    BY <2>0, <2>2, SameFile, SameTask DEF Expected
  <2>7. CASE Out = NoPath
    <3>1. stdout' = Append(<<>>, result)
      BY <2>2, <2>4, <2>7
    <3>2. 1 \in DOMAIN stdout' /\ stdout'[1] = result
      BY <3>1
    <3> QED
      BY <2>0, <2>2, <2>5, <2>6, <2>7, <3>2 DEF StdinDone, IsDone
  <2>8. CASE Out # NoPath
    <3>1. Out \in DOMAIN disk' /\ disk'[Out] = result
      BY <2>4, <2>8 DEF Written
    <3> QED
      BY <2>0, <2>1, <2>2, <2>5, <2>6, <2>8, <3>1 DEF StdinDone, IsDone
  <2> QED
    BY <2>7, <2>8
<1>5. UNCHANGED vars \/ (\E i \in Invocations : Start(i)) \/ Close \/ (UNCHANGED run /\ (Work \/ Stop))
  BY DEF Next, Work, NextFile, Open, Create, Copy, RemoveInput, Inspect, Stop
<1> QED
  BY <1>1, <1>2, <1>3, <1>4, <1>5

LEMMA DoneInit ==
  ASSUME Init
  PROVE  DoneInv
<1>1. todo = <<>> /\ inv.files = <<>> /\ inv.mode = "inspect" /\ FromStdin
  BY DEF Init, NoInvocation, FromStdin
<1>2. Len(<<>>) = 0 /\ DOMAIN <<>> = {}
  OBVIOUS
<1> QED
  BY <1>1, <1>2 DEF DoneInv, InTurn, FilesDone, StdinDone

LEMMA AllDone ==
  ASSUME TypeInv, DoneInv
  PROVE  SuccessMeansDone
<1>1. SUFFICES ASSUME status = "ok", Proper, NEW k \in DOMAIN Contents
               PROVE  LET out == Output(inv, IF FromStdin THEN NoPath ELSE inv.files[k])
                      IN IsDone(k, out)
  BY DEF SuccessMeansDone, IsDone, Exists
<1>2. CASE FromStdin /\ inv.mode # "inspect"
  <2>1. Contents = <<inv.stdin>> /\ k = 1
    BY <1>1, <1>2 DEF Contents
  <2>2. IsDone(1, Out)
    BY <1>1, <1>2 DEF DoneInv, StdinDone
  <2> QED
    BY <1>2, <2>1, <2>2 DEF Out, File
<1>3. CASE FromStdin /\ inv.mode = "inspect"
  BY <1>1, <1>3 DEF Contents, FromStdin
<1>4. CASE ~FromStdin
  <2>1. k \in 1..Len(inv.files)
    BY <1>1, <1>4, TurnTypes DEF Contents, DoneInv
  <2>2. todo = <<>> /\ step = "exit"
    BY <1>1, <1>4 DEF DoneInv, FilesDone, TypeInv, OfItsMode
  <2>3. Finished = Len(inv.files)
    BY <2>2, TurnTypes DEF Finished, DoneInv
  <2>4. FileDone(k)
    BY <1>1, <1>4, <2>1, <2>2, <2>3 DEF DoneInv, FilesDone, Again
  <2> QED
    BY <1>4, <2>4 DEF FileDone
<1> QED
  BY <1>2, <1>3, <1>4

(* When the command reports success, every whole file it was given, or     *)
(* stdin, has been turned into what was asked for, in order, even when a   *)
(* file is given twice or inputs could not be removed (main.rs:284-353).   *)
THEOREM SuccessIsComplete == Spec => []SuccessMeansDone
<1>1. TypeInv /\ CopyInv /\ DoneInv /\ [Next]_vars => DoneInv'
  BY TurnStep, FilesStep, StdinStep DEF DoneInv, CopyInv
<1>2. TypeInv /\ DoneInv => SuccessMeansDone
  BY AllDone
<1> QED
  BY <1>1, <1>2, DoneInit, CopyInvariance, CliTypeInvariance, PTL DEF Spec
=============================================================================
