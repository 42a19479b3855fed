------------------------------ MODULE DurableFile ------------------------------
(***************************************************************************)
(* core/io_utils.py, the one way state reaches the disk: writers that put a *)
(* whole text under a name, with or without a backup of what was there,     *)
(* publishers that never replace, and readers.  Names are directory entries *)
(* and lead to files; a file that was not synced may come out of a crash    *)
(* cut, and a change of a name that was not synced may not have happened.   *)
(* A text is the number of its writer, 0 a cut or empty one.                *)
(***************************************************************************)
EXTENDS FiniteSets, Sequences, Naturals

CONSTANTS
    FileWriters,     \* callers, each writing one text
    MaxFileFaults    \* bound of crashes, failed calls and foreign replacements

WritingKinds == <<"pinned", "backup", "publish", "plain">>
\* A name, and the hidden one each writer has beside it.
EntryNames == ({0} \cup FileWriters) \X {"target", "bak"}
Target == <<0, "target">>
Backup == <<0, "bak">>
Foreigner == Cardinality(FileWriters) + 1
Original == Foreigner + 1

\* A writer is told by its text, and none has the text that was there.
ASSUME DurableAssumption ==
    /\ FileWriters \subseteq Nat \ {0} /\ IsFiniteSet(FileWriters)
    /\ Original \notin FileWriters

VARIABLES
    entry,      \* the file each name leads to, 0 none
    contents,   \* the text of each file
    synced,     \* files whose text is on the disk
    survivors,  \* the directories a crash may leave: every one since the last sync
    writing,    \* the call of each writer
    reading,    \* a reader: the file it has open; kept when it returned a cut text
    placed,     \* history: the files put under the target, in order
    fileFaults

durableVars == <<entry, contents, synced, survivors, writing, reading, placed, fileFaults>>

Idler(kind) == [kind |-> kind, step |-> "start", on |-> "target", previous |-> 0, made |-> 0,
                text |-> 0]
NotReading == [step |-> "none", file |-> 0]

DurableInit ==
    /\ \E there \in BOOLEAN :
          /\ entry = [n \in EntryNames |-> IF n = Target /\ there THEN 1 ELSE 0]
          /\ contents = IF there THEN <<Original>> ELSE <<>>
          /\ placed = IF there THEN <<1>> ELSE <<>>
          /\ synced = IF there THEN {1} ELSE {}
    /\ survivors = {entry}
    /\ \E kinds \in [FileWriters -> DOMAIN WritingKinds] :
          /\ \A v, w \in FileWriters : v < w => kinds[v] <= kinds[w]   \* without loss
          /\ writing = [w \in FileWriters |-> Idler(WritingKinds[kinds[w]])]
    /\ reading = NotReading /\ fileFaults = 0

Doing(w, step) == writing[w].step = step
Is(w, kinds) == writing[w].kind \in kinds
Does(w, record) == writing' = [writing EXCEPT ![w] = record]
On(w) == <<0, writing[w].on>>
Hidden(w) == <<w, writing[w].on>>
Faulty == fileFaults < MaxFileFaults /\ fileFaults' = fileFaults + 1

\* A change of the directory that is not synced; a new file under a name.
EntryChanges(names) == entry' = names /\ survivors' = survivors \cup {names}
NewFile == Len(contents) + 1
Creates(name, text) ==
    /\ contents' = Append(contents, text)
    /\ EntryChanges([entry EXCEPT ![name] = NewFile])
    /\ placed' = IF name = Target THEN Append(placed, NewFile) ELSE placed
DirectorySame == UNCHANGED <<entry, survivors, placed>>
FilesSame == UNCHANGED <<contents, synced>>

------------------------------------------------------------------------------

\* What a call writes first: with a backup the text in place, read like any reader
\* reads it, goes to the backup's name, and the rest is the same twice.
StartWrite(w) ==
    /\ Doing(w, "start")
    /\ Does(w, IF Is(w, {"backup"}) /\ entry[Target] # 0
               THEN [writing[w] EXCEPT !.step = "open", !.on = "bak",
                                       !.text = contents[entry[Target]]]
               ELSE [writing[w] EXCEPT !.text = w,
                        !.step = CASE Is(w, {"publish"}) -> "create"
                                   [] Is(w, {"plain"}) -> "copy"
                                   [] OTHER -> "open"])
    /\ DirectorySame /\ FilesSame /\ UNCHANGED <<reading, fileFaults>>

\* atomic_write_text_pinned opens what is there and writes beside it; with nothing
\* there it writes under the final name, as publish_text_no_replace does.
OpenPrevious(w) ==
    /\ Doing(w, "open")
    /\ IF entry[On(w)] = 0
       THEN /\ Does(w, [writing[w] EXCEPT !.step = "create"])
            /\ DirectorySame /\ UNCHANGED contents
       ELSE /\ Creates(Hidden(w), 0)
            /\ Does(w, [writing[w] EXCEPT !.step = "fill", !.previous = entry[On(w)],
                                          !.made = NewFile])
    /\ UNCHANGED <<synced, reading, fileFaults>>

\* O_EXCL: the name must be free.
CreateFinal(w) ==
    /\ Doing(w, "create")
    /\ IF entry[On(w)] = 0
       THEN /\ Creates(On(w), 0)
            /\ Does(w, [writing[w] EXCEPT !.step = "fill", !.made = NewFile])
       ELSE /\ Does(w, [writing[w] EXCEPT !.step = "failed"])
            /\ DirectorySame /\ UNCHANGED contents
    /\ UNCHANGED <<synced, reading, fileFaults>>

\* Mutant: the text is written and not synced.
WithoutSync(file) == synced

\* os.fsync at the end of _write_all and of the plain writer.
Synced(file) == synced \cup {file}

AfterFill(w) ==
    CASE Is(w, {"plain"}) -> "replace"
      [] writing[w].previous # 0 -> "look"
      [] OTHER -> "verify"

\* _write_all: the whole text and its sync, or a part of it and an error.
Fill(w) ==
    /\ Doing(w, "fill")
    /\ contents' = [contents EXCEPT ![writing[w].made] = writing[w].text]
    /\ synced' = Synced(writing[w].made)
    /\ Does(w, [writing[w] EXCEPT !.step = AfterFill(w)])
    /\ DirectorySame /\ UNCHANGED <<reading, fileFaults>>

FillFails(w) ==
    /\ Doing(w, "fill") /\ Faulty
    /\ Does(w, [writing[w] EXCEPT !.step = "failed"])
    /\ EntryChanges(IF Is(w, {"plain"}) THEN [entry EXCEPT ![Hidden(w)] = 0] ELSE entry)
    /\ FilesSame /\ UNCHANGED <<placed, reading>>

\* The two names looked at before the exchange.
LookAgain(w) ==
    /\ Doing(w, "look")
    /\ Does(w, [writing[w] EXCEPT
                  !.step = IF entry[On(w)] = writing[w].previous THEN "exchange" ELSE "failed"])
    /\ DirectorySame /\ FilesSame /\ UNCHANGED <<reading, fileFaults>>

\* _rename_exchange: the two names swapped at once, whatever the final one leads to
\* by now.  What was there stays under the hidden name.
Exchanged(w) == [entry EXCEPT ![On(w)] = entry[Hidden(w)], ![Hidden(w)] = entry[On(w)]]

Exchange(w) ==
    /\ Doing(w, "exchange")
    /\ IF entry[On(w)] = 0
       THEN Does(w, [writing[w] EXCEPT !.step = "failed"]) /\ DirectorySame
       ELSE /\ Does(w, [writing[w] EXCEPT !.step = "verify"])
            /\ EntryChanges(Exchanged(w))
            /\ placed' = IF On(w) = Target THEN Append(placed, writing[w].made) ELSE placed
    /\ FilesSame /\ UNCHANGED <<reading, fileFaults>>

\* The name must still lead to this call's file; a later writer's is left in place.
VerifyEntry(w) ==
    /\ Doing(w, "verify")
    /\ Does(w, [writing[w] EXCEPT
                  !.step = IF entry[On(w)] = writing[w].made THEN "sync" ELSE "failed"])
    /\ DirectorySame /\ FilesSame /\ UNCHANGED <<reading, fileFaults>>

\* os.fsync(parent_fd), and after the backup the text itself.
SyncDirectory(w) ==
    /\ Doing(w, "sync")
    /\ survivors' = {entry}
    /\ Does(w, IF On(w) = Backup
               THEN [Idler("backup") EXCEPT !.step = "open", !.text = w]
               ELSE [writing[w] EXCEPT !.step = "ok"])
    /\ FilesSame /\ UNCHANGED <<entry, placed, reading, fileFaults>>

\* atomic_write_text: shutil.copy2 over the backup, which is cut meanwhile, then a
\* temporary file, synced, and os.replace without a sync of the directory.
CopyBackup(w) ==
    /\ Doing(w, "copy")
    /\ IF entry[Target] = 0
       THEN /\ Does(w, [writing[w] EXCEPT !.step = "temporary"])
            /\ UNCHANGED contents /\ DirectorySame
       ELSE /\ Does(w, [writing[w] EXCEPT !.step = "copied"])
            /\ IF entry[Backup] = 0
               THEN Creates(Backup, 0)
               ELSE contents' = [contents EXCEPT ![entry[Backup]] = 0] /\ DirectorySame
    /\ synced' = IF entry[Target] # 0 THEN synced \ {entry[Backup]} ELSE synced
    /\ UNCHANGED <<reading, fileFaults>>

FinishCopy(w) ==
    /\ Doing(w, "copied")
    /\ Does(w, [writing[w] EXCEPT !.step = "temporary"])
    /\ \/ /\ entry[Target] # 0 /\ entry[Backup] # 0
          /\ contents' = [contents EXCEPT ![entry[Backup]] = contents[entry[Target]]]
          /\ UNCHANGED fileFaults
       \/ Faulty /\ UNCHANGED contents
    /\ DirectorySame /\ UNCHANGED <<synced, reading>>

OpenTemporary(w) ==
    /\ Doing(w, "temporary")
    /\ Creates(Hidden(w), 0)
    /\ Does(w, [writing[w] EXCEPT !.step = "fill", !.made = NewFile])
    /\ UNCHANGED <<synced, reading, fileFaults>>

Replace(w) ==
    /\ Doing(w, "replace")
    /\ EntryChanges([entry EXCEPT ![Target] = writing[w].made, ![Hidden(w)] = 0])
    /\ placed' = Append(placed, writing[w].made)
    /\ Does(w, [writing[w] EXCEPT !.step = "ok"])
    /\ FilesSame /\ UNCHANGED <<reading, fileFaults>>

\* read_text_no_follow: the text of the file that was opened, returned only when the
\* name leads to it still.  After a whole text, or a refusal, the next one reads.
OpenToRead ==
    /\ reading.step = "none" /\ entry[Target] # 0
    /\ reading' = [step |-> "open", file |-> entry[Target]]
    /\ DirectorySame /\ FilesSame /\ UNCHANGED <<writing, fileFaults>>

ReadText ==
    /\ reading.step = "open"
    /\ reading' = IF entry[Target] = reading.file /\ contents[reading.file] = 0
                  THEN [reading EXCEPT !.step = "returned"] ELSE NotReading
    /\ DirectorySame /\ FilesSame /\ UNCHANGED <<writing, fileFaults>>

\* Another program puts a whole file of its own under the name and syncs it.
ForeignFile ==
    /\ Faulty
    /\ contents' = Append(contents, Foreigner)
    /\ synced' = synced \cup {NewFile}
    /\ entry' = [entry EXCEPT ![Target] = NewFile]
    /\ survivors' = {entry'} /\ placed' = Append(placed, NewFile)
    /\ UNCHANGED <<writing, reading>>

FileCrash ==
    /\ Faulty
    /\ entry' \in survivors /\ survivors' = {entry'}
    /\ contents' = [f \in DOMAIN contents |-> IF f \in synced THEN contents[f] ELSE 0]
    /\ synced' = DOMAIN contents
    /\ writing' = [w \in FileWriters |->
                     IF Doing(w, "ok") THEN writing[w] ELSE [writing[w] EXCEPT !.step = "failed"]]
    /\ reading' = IF reading.step = "returned" THEN reading ELSE NotReading
    /\ UNCHANGED placed

DurableNext ==
    \/ \E w \in FileWriters :
          \/ StartWrite(w) \/ OpenPrevious(w) \/ CreateFinal(w) \/ Fill(w) \/ FillFails(w)
          \/ LookAgain(w) \/ Exchange(w) \/ VerifyEntry(w) \/ SyncDirectory(w)
          \/ CopyBackup(w) \/ FinishCopy(w) \/ OpenTemporary(w) \/ Replace(w)
    \/ OpenToRead \/ ReadText \/ ForeignFile \/ FileCrash

DurableSpec == DurableInit /\ [][DurableNext]_durableVars

------------------------------------------------------------------------------

WholeText(name) == entry[name] # 0 /\ contents[entry[name]] # 0
WasThere == Len(contents) > 0 /\ contents[1] = Original
PlaceOf(file) == Cardinality({i \in DOMAIN placed : file \in {placed[j] : j \in i..Len(placed)}})
Acknowledged == {w \in FileWriters : Doing(w, "ok") /\ ~Is(w, {"plain"})}

\* A text that was in place is replaced by another whole one or not at all, whatever
\* crashes, fails or is written at the same time.
NeverCut == WasThere => WholeText(Target)

\* A write that was acknowledged after its directory was synced is never undone, by
\* a crash or by an older write: what is in place is its file or a later one.
AcknowledgedStays ==
    \A w \in Acknowledged : WholeText(Target) /\ PlaceOf(entry[Target]) >= PlaceOf(writing[w].made)

\* A reader gets a cut text only of a file that is being made for the first time.
ReadersGetWholeTexts == reading.step = "returned" => ~WasThere

\* What the files promise their callers.
FilesKept == NeverCut /\ AcknowledgedStays /\ ReadersGetWholeTexts
================================================================================
