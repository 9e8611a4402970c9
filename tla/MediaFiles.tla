------------------------------- MODULE MediaFiles -------------------------------
(***************************************************************************)
(* Stored files and their generated variants: lazyfiles.Files writes bytes  *)
(* to a lazystorage.Filesystem and then records them in a catalog,          *)
(* lazymedia.Media opens a source file, stores what a processor makes of it *)
(* as another file, and then records the variant.  Both records are kept in *)
(* memory and in append-only JSONL logs (lazyfiles/jsonl, lazymedia/jsonl)   *)
(* that are replayed when the process starts.  Goroutines call the services *)
(* at once; a request to the disk may fail before, in the middle of or      *)
(* after its effect, a context may be cancelled, and the process may crash. *)
(***************************************************************************)
EXTENDS Naturals, Sequences, SequencesExt

CONSTANTS Caller,     \* goroutines
          Named,      \* object keys that callers choose (lazyfiles.ObjectKey)
          Content,    \* bodies, which their checksums tell apart
          MaxFiles,   \* bound: IDs that are made
          MaxLines,   \* bound: lines of the logs
          MaxFaults,  \* bound: disk requests that fail
          MaxCrashes,
          Absent

ID == 1..MaxFiles
Key == ID \cup Named
Recorded == [key: Key, sum: Content, deleted: BOOLEAN]
Variant == [status: {"ready", "failed"}, output: ID \cup {Absent}]

\* An ID is no key that a caller chooses, and what is absent is none of the others.
ASSUME MediaFilesAssumption ==
    /\ MaxFiles \in Nat \ {0} /\ MaxLines \in Nat /\ MaxFaults \in Nat /\ MaxCrashes \in Nat
    /\ Named \cap ID = {}
    /\ Absent \notin Content \cup Key \cup {0} \cup Recorded \cup Variant

VARIABLES
    up,        \* whether the process runs
    files,     \* the catalog's map of files and their locations
    variants,  \* the map of variants
    filesLog, mediaLog,   \* the lines of the logs, and whether one is cut short
    objects,   \* what the storage has under each key
    job,       \* per caller, what it is doing
    made,      \* how many IDs were made
    overwritten,   \* history: keys that more than one upload has written
    recorded,      \* history: files whose Put was answered
    faults, crashes

services == <<files, variants>>
logs == <<filesLog, mediaLog>>
storage == <<objects, overwritten>>
bounds == <<faults, crashes>>
vars == <<up, services, logs, storage, job, made, recorded, bounds>>

Idle == [pc |-> "idle", id |-> Absent, key |-> Absent, sum |-> Absent,
         large |-> FALSE, source |-> Absent]

\* A file was stored in an earlier life of the process.
Stored(sum) == [op |-> "put", id |-> 1, key |-> 1, sum |-> sum, large |-> FALSE, known |-> TRUE]

Init ==
    /\ up = TRUE
    /\ \E sum \in Content :
          /\ files = [i \in ID |-> IF i = 1 THEN [key |-> 1, sum |-> sum, deleted |-> FALSE]
                                  ELSE Absent]
          /\ filesLog = [lines |-> <<Stored(sum)>>, torn |-> FALSE]
          /\ objects = [k \in Key |-> IF k = 1 THEN sum ELSE Absent]
    /\ variants = [i \in ID |-> Absent] /\ mediaLog = [lines |-> <<>>, torn |-> FALSE]
    /\ job = [c \in Caller |-> Idle]
    /\ made = 1 /\ overwritten = {} /\ recorded = {1}
    /\ faults = 0 /\ crashes = 0

At(c, place) == up /\ job[c].pc = place
Goto(c, place) == job' = [job EXCEPT ![c].pc = place]
Return(c) == job' = [job EXCEPT ![c] = Idle]

-----------------------------------------------------------------------------
(* The logs.                                                                 *)

\* What an event does to the maps: on its way to memory, and when it is replayed.
ApplyFile(m, e) ==
    IF e.op = "put" THEN [m EXCEPT ![e.id] = [key |-> e.key, sum |-> e.sum, deleted |-> FALSE]]
    ELSE [m EXCEPT ![e.id].deleted = TRUE]
ApplyVariant(m, e) == [m EXCEPT ![e.source] = e.variant]

\* A line over the limit of bufio.Scanner ends the replay as one cut short does.
Readable(log) == ~log.torn /\ \A i \in 1..Len(log.lines) : ~log.lines[i].large

Nothing == [i \in ID |-> Absent]
ReplayFiles(lines) == FoldLeft(ApplyFile, Nothing, lines)
ReplayVariants(lines) == FoldLeft(ApplyVariant, Nothing, lines)

\* The event a caller appends; "known" is history, whether memory has it as well.
FileEvent(c) ==
    [op |-> IF job[c].pc = "delete" THEN "delete" ELSE "put", id |-> job[c].id,
     key |-> job[c].key, sum |-> job[c].sum, large |-> job[c].large, known |-> FALSE]
VariantEvent(c) ==
    [source |-> job[c].source, large |-> FALSE, known |-> FALSE,
     variant |-> CASE job[c].pc = "save" -> [status |-> "ready", output |-> job[c].id]
                   [] job[c].pc = "saveFailed" -> [status |-> "failed", output |-> Absent]
                   [] job[c].pc = "deleteVariant" -> Absent]

Extended(log, e) == [log EXCEPT !.lines = Append(@, e)]
Torn(log) == [log EXCEPT !.torn = TRUE]

\* Write and Sync succeed.
Appends(log, e) == Extended(log, [e EXCEPT !.known = TRUE])

\* Nothing is written, a part of the line is, or all of it but not synced.
Cut(log, e) == {log, Torn(log), Extended(log, e)}

Room == Len(filesLog.lines) + Len(mediaLog.lines) < MaxLines

-----------------------------------------------------------------------------
(* lazyfiles.Files.                                                          *)

\* Files.Put takes its options and makes an ID, which is the key if none is given.
Upload(c) ==
    /\ At(c, "idle") /\ made < MaxFiles
    /\ made' = made + 1
    /\ \E key \in Named \cup {made + 1}, sum \in Content, large \in BOOLEAN :
          job' = [job EXCEPT ![c] = [Idle EXCEPT !.pc = "write", !.id = made + 1,
                                     !.key = key, !.sum = sum, !.large = large]]
    /\ UNCHANGED <<up, services, logs, storage, recorded, bounds>>

\* Filesystem.Put: a temporary file is written and takes the place of the object.
Rename(c) ==
    /\ objects' = [objects EXCEPT ![job[c].key] = job[c].sum]
    /\ overwritten' = IF objects[job[c].key] = Absent THEN overwritten
                      ELSE overwritten \cup {job[c].key}

\* Mutant: an error of the storage is dropped.
WriteObjectUnseen(c) ==
    /\ At(c, "write")
    /\ Rename(c) \/ UNCHANGED storage
    /\ Goto(c, "record")
    /\ UNCHANGED <<up, services, logs, made, recorded, bounds>>

WriteObject(c) ==
    /\ At(c, "write")
    /\ Rename(c)
    /\ Goto(c, "record")
    /\ UNCHANGED <<up, services, logs, made, recorded, bounds>>

AfterRecord(c) == IF job[c].source = Absent THEN Return(c) ELSE Goto(c, "save")

\* JSONLRepository.Put: with mu held the event is appended and then applied.
Record(c) ==
    /\ At(c, "record") /\ Room
    /\ filesLog' = Appends(filesLog, FileEvent(c))
    /\ files' = ApplyFile(files, FileEvent(c))
    /\ recorded' = recorded \cup {job[c].id}
    /\ AfterRecord(c)
    /\ UNCHANGED <<up, variants, mediaLog, storage, made, bounds>>

\* Repository.Delete, of a file that somebody found.
StartDelete(c, i) ==
    /\ At(c, "idle") /\ files[i] # Absent
    /\ job' = [job EXCEPT ![c] = [Idle EXCEPT !.pc = "delete", !.id = i]]
    /\ UNCHANGED <<up, services, logs, storage, made, recorded, bounds>>

Delete(c) ==
    /\ At(c, "delete") /\ Room
    /\ filesLog' = Appends(filesLog, FileEvent(c))
    /\ files' = ApplyFile(files, FileEvent(c))
    /\ Return(c)
    /\ UNCHANGED <<up, variants, mediaLog, storage, made, recorded, bounds>>

Found(i) == files[i] # Absent /\ ~files[i].deleted

-----------------------------------------------------------------------------
(* lazymedia.Media.                                                          *)

Generates(i) == variants[i] = Absent \/ variants[i].status # "ready"

\* Media.Variant: a ready variant is opened; without one, or with Regenerate, the
\* source is.
StartVariant(c, i, regenerate) ==
    /\ At(c, "idle")
    /\ IF regenerate \/ Generates(i)
       THEN made < MaxFiles /\ job' = [job EXCEPT ![c] = [Idle EXCEPT !.pc = "open", !.source = i]]
       ELSE job' = [job EXCEPT ![c] = [Idle EXCEPT !.pc = "find", !.id = variants[i].output]]
    /\ UNCHANGED <<up, services, logs, storage, made, recorded, bounds>>

\* findFile: the output is opened and returned, or an error.
FindFile(c) ==
    /\ At(c, "find")
    /\ Return(c)
    /\ UNCHANGED <<up, services, logs, storage, made, recorded, bounds>>

OpenSource(c) ==
    /\ At(c, "open")
    /\ LET i == job[c].source IN
       IF Found(i) THEN job' = [job EXCEPT ![c].pc = "process", ![c].sum = objects[files[i].key]]
       ELSE Return(c)
    /\ UNCHANGED <<up, services, logs, storage, made, recorded, bounds>>

\* The outputs of a processor are told apart as its sources are.
Process(c) ==
    /\ At(c, "process")
    /\ \/ /\ made < MaxFiles
          /\ made' = made + 1
          /\ job' = [job EXCEPT ![c].pc = "write", ![c].id = made + 1, ![c].key = made + 1]
       \/ Goto(c, "saveFailed") /\ UNCHANGED made
    /\ UNCHANGED <<up, services, logs, storage, recorded, bounds>>

\* SaveVariant, of the ready variant or of the failure, and DeleteVariant.
SaveVariant(c) ==
    /\ At(c, "save") \/ At(c, "saveFailed") \/ At(c, "deleteVariant")
    /\ Room
    /\ mediaLog' = Appends(mediaLog, VariantEvent(c))
    /\ variants' = ApplyVariant(variants, VariantEvent(c))
    /\ Return(c)
    /\ UNCHANGED <<up, files, filesLog, storage, made, recorded, bounds>>

StartDeleteVariant(c, i) ==
    /\ At(c, "idle") /\ variants[i] # Absent
    /\ job' = [job EXCEPT ![c] = [Idle EXCEPT !.pc = "deleteVariant", !.source = i]]
    /\ UNCHANGED <<up, services, logs, storage, made, recorded, bounds>>

-----------------------------------------------------------------------------
(* Faults.                                                                   *)

AppendsFile(c) == job[c].pc \in {"record", "delete"}
AppendsVariant(c) == job[c].pc \in {"save", "saveFailed", "deleteVariant"}

\* Mutant: an append that fails has been applied.
FailsApplied(c) ==
    /\ up /\ AppendsFile(c) /\ Room /\ faults < MaxFaults
    /\ faults' = faults + 1
    /\ Return(c)
    /\ filesLog' \in Cut(filesLog, FileEvent(c))
    /\ files' = ApplyFile(files, FileEvent(c))
    /\ UNCHANGED <<up, variants, mediaLog, storage, made, recorded, crashes>>

\* A disk request fails, or the context is cancelled: the caller is told.
Fails(c) ==
    /\ up /\ job[c].pc # "idle" /\ faults < MaxFaults
    /\ faults' = faults + 1
    /\ Return(c)
    /\ \/ UNCHANGED <<logs, storage>>
       \/ job[c].pc = "write" /\ Rename(c) /\ UNCHANGED logs
       \/ /\ AppendsFile(c) /\ Room
          /\ filesLog' \in Cut(filesLog, FileEvent(c))
          /\ UNCHANGED <<mediaLog, storage>>
       \/ /\ AppendsVariant(c) /\ Room
          /\ mediaLog' \in Cut(mediaLog, VariantEvent(c))
          /\ UNCHANGED <<filesLog, storage>>
    /\ UNCHANGED <<up, services, made, recorded, crashes>>

\* The process ends, with an append to each log under way or not.
Crash ==
    /\ up /\ crashes < MaxCrashes
    /\ crashes' = crashes + 1
    /\ up' = FALSE
    /\ \/ UNCHANGED filesLog
       \/ \E c \in Caller : AppendsFile(c) /\ Room /\ filesLog' \in Cut(filesLog, FileEvent(c))
    /\ \/ UNCHANGED mediaLog
       \/ \E c \in Caller : AppendsVariant(c) /\ Room /\ mediaLog' \in Cut(mediaLog, VariantEvent(c))
    /\ job' = [c \in Caller |-> Idle]
    /\ files' = Nothing /\ variants' = Nothing
    /\ UNCHANGED <<storage, made, recorded, faults>>

Known(log) == [log EXCEPT !.lines = [i \in DOMAIN @ |-> [@[i] EXCEPT !.known = TRUE]]]

\* New of both repositories.
Reopen ==
    /\ ~up /\ Readable(filesLog) /\ Readable(mediaLog)
    /\ up' = TRUE
    /\ files' = ReplayFiles(filesLog.lines) /\ filesLog' = Known(filesLog)
    /\ variants' = ReplayVariants(mediaLog.lines) /\ mediaLog' = Known(mediaLog)
    /\ UNCHANGED <<storage, job, made, recorded, bounds>>

Next ==
    \/ \E c \in Caller :
          \/ Upload(c) \/ WriteObject(c) \/ Record(c) \/ Delete(c)
          \/ FindFile(c) \/ OpenSource(c) \/ Process(c) \/ SaveVariant(c) \/ Fails(c)
          \/ \E i \in ID :
                \/ StartDelete(c, i) \/ StartDeleteVariant(c, i)
                \/ \E regenerate \in BOOLEAN : StartVariant(c, i, regenerate)
    \/ Crash \/ Reopen

Spec == Init /\ [][Next]_vars

-----------------------------------------------------------------------------
(* Properties.                                                               *)

Job ==
    [pc: {"idle", "write", "record", "delete", "find", "open", "process", "save",
          "saveFailed", "deleteVariant"},
     id: ID \cup {Absent}, key: Key \cup {Absent}, sum: Content \cup {Absent},
     large: BOOLEAN, source: ID \cup {Absent}]

TypeOK ==
    /\ up \in BOOLEAN
    /\ files \in [ID -> Recorded \cup {Absent}] /\ variants \in [ID -> Variant \cup {Absent}]
    /\ Len(filesLog.lines) + Len(mediaLog.lines) <= MaxLines + 1
    /\ filesLog.torn \in BOOLEAN /\ mediaLog.torn \in BOOLEAN
    /\ objects \in [Key -> Content \cup {Absent}]
    /\ job \in [Caller -> Job]
    /\ made \in 0..MaxFiles /\ overwritten \subseteq Named /\ recorded \subseteq ID
    /\ faults \in 0..MaxFaults /\ crashes \in 0..MaxCrashes

Lines(log, op, i) == {n \in DOMAIN log.lines : log.lines[n].op = op /\ log.lines[n].id = i}

\* What the lines that memory has as well do to the maps.
ApplyKnownFile(m, e) == IF e.known THEN ApplyFile(m, e) ELSE m
ApplyKnownVariant(m, e) == IF e.known THEN ApplyVariant(m, e) ELSE m
KnownFiles(lines) == FoldLeft(ApplyKnownFile, Nothing, lines)
KnownVariants(lines) == FoldLeft(ApplyKnownVariant, Nothing, lines)

\* Memory is what the known lines of the logs say, although Put, Delete and
\* SaveVariant do to the maps what replay does again when the process restarts;
\* what a caller was told is stored has its line, which only a line cut short or
\* too long keeps from being read.
MemoryFollowsLogs ==
    /\ TypeOK
    /\ up => files = KnownFiles(filesLog.lines) /\ variants = KnownVariants(mediaLog.lines)
    /\ \A i \in recorded : Lines(filesLog, "put", i) # {}
    /\ up => \A i \in recorded : Found(i) \/ Lines(filesLog, "delete", i) # {}

\* A file in the catalog has its bytes in the storage, with its checksum unless
\* uploads chose the same key, and a ready variant has an output in the catalog:
\* Files.Put and Media.generate record last, on their own and at once.
FilesAreServable ==
    \A i \in ID :
        /\ files[i] # Absent =>
              objects[files[i].key] \in {files[i].sum} \cup
                  (IF files[i].key \in overwritten THEN Content ELSE {})
        /\ variants[i] # Absent /\ variants[i].status = "ready" =>
              files[variants[i].output] # Absent

-----------------------------------------------------------------------------
(* The inductive invariant.                                                  *)

FileLine ==
    [op : {"put", "delete"}, id : ID, key : Key \cup {Absent}, sum : Content \cup {Absent},
     large : BOOLEAN, known : BOOLEAN]
VariantLine ==
    [source : ID, large : BOOLEAN, known : BOOLEAN, variant : Variant \cup {Absent}]

LogsHaveLines ==
    /\ filesLog \in [lines : Seq(FileLine), torn : BOOLEAN]
    /\ mediaLog \in [lines : Seq(VariantLine), torn : BOOLEAN]

\* The object under k has this checksum, or had it before another upload chose k.
Holds(k, sum) ==
    /\ k \in Key /\ sum \in Content
    /\ objects[k] = sum \/ (objects[k] # Absent /\ k \in overwritten)

\* A line of the catalog that memory has put file i there.
Put(i) ==
    \E n \in DOMAIN filesLog.lines :
        filesLog.lines[n].op = "put" /\ filesLog.lines[n].id = i /\ filesLog.lines[n].known

\* What was put has its bytes, and only that is deleted.
DeletesFollow(lines) ==
    \A n \in DOMAIN lines : lines[n].op = "delete" =>
        \E m \in 1..(n - 1) : lines[m].op = "put" /\ lines[m].id = lines[n].id /\ lines[m].known
LinesAreTrue ==
    /\ \A n \in DOMAIN filesLog.lines :
          filesLog.lines[n].op = "put" => Holds(filesLog.lines[n].key, filesLog.lines[n].sum)
    /\ DeletesFollow(filesLog.lines)
    /\ \A i \in recorded : Put(i)

\* A variant that is ready was put before it was saved.
OutputsAreThere ==
    \A n \in DOMAIN mediaLog.lines :
        LET v == mediaLog.lines[n].variant
        IN  v # Absent /\ v.status = "ready" => v.output \in ID /\ Put(v.output)

MemoryIsKnown ==
    IF up THEN files = KnownFiles(filesLog.lines) /\ variants = KnownVariants(mediaLog.lines)
    ELSE files = Nothing /\ variants = Nothing /\ \A c \in Caller : job[c] = Idle

\* What a caller has in its hands: an ID of its own, and an object nobody else
\* writes unless its key was chosen.
JobFits(c) ==
    LET j == job[c] IN
    /\ j.pc \in {"write", "record"} =>
          /\ j.id \in 1..made /\ j.key \in Key /\ j.sum \in Content
          /\ j.key \in ID => j.key = j.id
    /\ j.pc = "write" /\ j.key \in ID => objects[j.key] = Absent
    /\ j.pc = "record" => Holds(j.key, j.sum)
    /\ j.pc = "process" => j.sum \in Content
    /\ j.pc \in {"open", "process", "save", "saveFailed", "deleteVariant"} => j.source \in ID
    /\ j.pc \in {"save", "delete"} => j.id \in ID /\ Put(j.id)

FreshIDs ==
    /\ \A i \in ID : i > made => objects[i] = Absent
    /\ \A c, d \in Caller :
          job[c].pc = "write" /\ job[d].pc = "write" /\ job[c].id = job[d].id => c = d

IndInv ==
    /\ TypeOK /\ LogsHaveLines /\ LinesAreTrue /\ OutputsAreThere /\ MemoryIsKnown
    /\ FreshIDs /\ \A c \in Caller : JobFits(c)

=============================================================================
