-------------------------------- MODULE Lifecycle --------------------------------
(***************************************************************************)
(* The maintenance of old recordings in security/lifecycle.py: the WAV of a *)
(* meeting compressed to FLAC and removed, and the audio of a cold meeting  *)
(* removed.  Another process of the same user may put files in place of     *)
(* these at any moment, so every step looks again at what it acts on, and   *)
(* only the moment between the last look and the unlink stays open.  The    *)
(* automatic run classifies and changes no file.                            *)
(***************************************************************************)
EXTENDS FiniteSets, Naturals

CONSTANTS
    AudioNames,       \* the audio entries of a meeting directory
    Wav, Flac,        \* two of them: the WAV and the FLAC made of it
    MaxReplacements,  \* bound of what the other process does
    MaxMaintenance    \* bound of the calls

ASSUME LifecycleAssumption ==
    Wav \in AudioNames /\ Flac \in AudioNames /\ Wav # Flac

VARIABLES
    entries,       \* [object, stamp, sound] of each name
    directory,     \* object that is the meeting directory
    upkeep,        \* the call that runs: what it does and what it has seen
    objects,       \* files made so far
    exposed,       \* history: changed between the last look and the unlink
    gone,          \* history: what the calls removed: 
                   \* [how, exposed, mine, listed, kept]
    replacements, maintenance

lifecycleVars == <<entries, directory, upkeep, objects, exposed, gone,
                   replacements, maintenance>>

NoAudio == [object |-> 0, stamp |-> 0, sound |-> 0]
Present(n) == entries[n] # NoAudio

\* A sound is the number of the file it was first recorded in, 0 nothing yet;
\* Cut is a beginning of one.
Cut == 100

NoUpkeep ==
    [step |-> "none", seen |-> [n \in AudioNames |-> NoAudio], made |-> 0, input |-> 0,
     inherited |-> FALSE, directory |-> 0, left |-> {}, target |-> Wav]

LifecycleInit ==
    /\ entries \in {[n \in AudioNames |->
                        IF n = Flac THEN flac ELSE [object |-> 1, stamp |-> 1, sound |-> 1]] :
                       flac \in {NoAudio} \cup
                          {[object |-> 2, stamp |-> 1, sound |-> s] : s \in {1, 2, Cut}}}
    /\ directory = 1
    /\ upkeep = NoUpkeep
    /\ objects = 2
    /\ exposed = FALSE /\ gone = {}
    /\ replacements = 0 /\ maintenance = 0

Upkeep(step) == upkeep.step = step
Steps(record) == upkeep' = record
Stops == upkeep' = NoUpkeep
Begun == maintenance < MaxMaintenance /\ maintenance' = maintenance + 1 /\ exposed' = FALSE
Unmoved == UNCHANGED <<directory, exposed, replacements, maintenance>>

\* _file_identity against _file_object_identity
SameFile(n) == entries[n] = upkeep.seen[n]
SameObject(n, object) == Present(n) /\ entries[n].object = object

Sees(n) == [upkeep.seen EXCEPT ![n] = entries[n]]

------------------------------------------------------------------------------

\* compress_to_flac: what is in place at its start.
StartCompress ==
    /\ Upkeep("none") /\ Begun
    /\ IF Present(Flac)
       THEN Steps([NoUpkeep EXCEPT !.step = "decode", !.inherited = TRUE])
       ELSE /\ Present(Wav)
            /\ Steps([NoUpkeep EXCEPT !.step = "create", !.seen = [@ EXCEPT ![Wav] = entries[Wav]]])
    /\ UNCHANGED <<entries, directory, objects, gone, replacements>>

\* _create_flac_output_entry: a new file, or a refusal.
CreateFlac ==
    /\ Upkeep("create")
    /\ IF Present(Flac)
       THEN Stops /\ UNCHANGED <<entries, objects>>
       ELSE /\ objects' = objects + 1
            /\ entries' = [entries EXCEPT ![Flac] = [object |-> objects + 1, stamp |-> 1, sound |-> 0]]
            /\ Steps([upkeep EXCEPT !.step = "open", !.made = objects + 1])
    /\ UNCHANGED gone /\ Unmoved

\* _open_regular_file_entry: the WAV that was seen, by its descriptor.
OpenWav ==
    /\ Upkeep("open")
    /\ Steps(IF SameFile(Wav)
             THEN [upkeep EXCEPT !.step = "convert", !.input = entries[Wav].sound]
             ELSE [upkeep EXCEPT !.step = "cleanup"])
    /\ UNCHANGED <<entries, objects, gone>> /\ Unmoved

\* ffmpeg writes into the file this call made, wherever its name went.
Written(sound) ==
    entries' = IF SameObject(Flac, upkeep.made)
               THEN [entries EXCEPT ![Flac].sound = sound, ![Flac].stamp = @ + 1]
               ELSE entries

Convert ==
    /\ Upkeep("convert")
    /\ \/ Written(upkeep.input) /\ Steps([upkeep EXCEPT !.step = "decode"])
       \/ Written(Cut) /\ Steps([upkeep EXCEPT !.step = "cleanup"])
    /\ UNCHANGED <<objects, gone>> /\ Unmoved

\* A cut file may decode to its end all the same.
Decodes(entry) == entry.sound # 0

\* Mutant: any FLAC of that name will do.
AnyFlac == Present(Flac)

\* The FLAC that is decoded: the one this call made, or the one it found.
RightFlac == Present(Flac) /\ (upkeep.made # 0 => SameObject(Flac, upkeep.made))

\* _validate_flac_integrity_at, and the WAV looked at again.
DecodeFlac ==
    /\ Upkeep("decode")
    /\ \/ /\ RightFlac /\ Decodes(entries[Flac])
          /\ Steps([upkeep EXCEPT !.step = "decoded", !.seen = Sees(Flac)])
       \/ Steps([upkeep EXCEPT !.step = "cleanup"])
    /\ UNCHANGED <<entries, objects, gone>> /\ Unmoved

\* Mutant: the WAV is not compared with the one that was converted.
FlacUnchanged == Present(Wav) /\ SameFile(Flac)

\* Both files are what they were; an inherited FLAC meets any WAV.
BothUnchanged ==
    Present(Wav) /\ SameFile(Flac) /\ (upkeep.inherited \/ SameFile(Wav))

LastLook ==
    /\ Upkeep("decoded")
    /\ IF BothUnchanged
       THEN Steps([upkeep EXCEPT !.step = "unlink"])
       ELSE Steps([upkeep EXCEPT !.step = "cleanup"])
    /\ UNCHANGED <<entries, objects, gone>> /\ Unmoved

Removes(n, how) ==
    /\ entries' = [entries EXCEPT ![n] = NoAudio]
    /\ gone' = IF Present(n)
               THEN gone \cup {[how |-> how, exposed |-> exposed,
                                mine |-> SameObject(n, upkeep.made), listed |-> SameFile(n),
                                kept |-> entries[Flac].sound = entries[n].sound]}
               ELSE gone

\* The WAV is unlinked, or it cannot be.
UnlinkWav ==
    /\ Upkeep("unlink")
    /\ \/ Removes(Wav, IF upkeep.inherited THEN "inherited" ELSE "compressed") /\ Stops
       \/ Steps([upkeep EXCEPT !.step = "cleanup"]) /\ UNCHANGED <<entries, gone>>
    /\ UNCHANGED objects /\ Unmoved

\* Mutant: a failed call clears the name, whoever made the file.
RemovesAny == Removes(Flac, "cleanup")

\* _unlink_created_flac
RemovesMade ==
    IF SameObject(Flac, upkeep.made) THEN Removes(Flac, "cleanup") ELSE UNCHANGED <<entries, gone>>

CleanUp ==
    /\ Upkeep("cleanup")
    /\ IF upkeep.made = 0 THEN UNCHANGED <<entries, gone>> ELSE RemovesMade
    /\ Stops
    /\ UNCHANGED objects /\ Unmoved

------------------------------------------------------------------------------

\* scan_meetings and _open_pinned_meeting: the directory is the one scanned.
StartDelete ==
    /\ Upkeep("none") /\ Begun
    /\ Steps([NoUpkeep EXCEPT !.step = "list", !.directory = directory])
    /\ UNCHANGED <<entries, directory, objects, gone, replacements>>

\* _verify_pinned_meeting
Pinned == upkeep.directory = directory

\* _find_audio_files
AudioFiles == {n \in AudioNames : Present(n)}

ListAudio ==
    /\ Upkeep("list")
    /\ IF Pinned
       THEN Steps([upkeep EXCEPT !.step = "delete", !.seen = entries, !.left = AudioFiles])
       ELSE Stops
    /\ UNCHANGED <<entries, objects, gone>> /\ Unmoved

\* _delete_audio_files_at: a file that is not the one listed ends the call.
CheckAudio ==
    /\ Upkeep("delete")
    /\ \/ upkeep.left = {} /\ Stops
       \/ \E n \in upkeep.left :
             IF Pinned /\ SameFile(n)
             THEN Steps([upkeep EXCEPT !.step = "remove", !.left = @ \ {n}, !.target = n])
             ELSE Stops
    /\ UNCHANGED <<entries, objects, gone>> /\ Unmoved

RemoveAudio ==
    /\ Upkeep("remove")
    /\ \/ Removes(upkeep.target, "cold") /\ Steps([upkeep EXCEPT !.step = "delete"])
       \/ Stops /\ UNCHANGED <<entries, gone>>
    /\ UNCHANGED objects /\ Unmoved

------------------------------------------------------------------------------

Foreign ==
    /\ replacements < MaxReplacements /\ replacements' = replacements + 1
    /\ exposed' = (exposed \/ upkeep.step \in {"unlink", "remove"})
    /\ UNCHANGED <<upkeep, gone, maintenance>>

\* The other process replaces or removes a file, records on in one that is not
\* the FLAC, or replaces the directory.
ReplaceAudio ==
    /\ Foreign
    /\ objects' = objects + 1
    /\ \E n \in AudioNames :
          \/ entries' = [entries EXCEPT ![n] =
                            [object |-> objects + 1, stamp |-> 1, sound |-> objects + 1]]
          \/ /\ n # Flac /\ Present(n)
             /\ entries' = [entries EXCEPT ![n].stamp = @ + 1, ![n].sound = objects + 1]
          \/ Present(n) /\ entries' = [entries EXCEPT ![n] = NoAudio]
    /\ UNCHANGED directory

ReplaceDirectory ==
    /\ Foreign
    /\ directory' = directory + 1 /\ UNCHANGED <<entries, objects>>

\* A crash: an unfinished FLAC stays.
CrashUpkeep ==
    /\ ~Upkeep("none") /\ Stops
    /\ UNCHANGED <<entries, objects, gone>> /\ Unmoved

LifecycleNext ==
    \/ StartCompress \/ CreateFlac \/ OpenWav \/ Convert \/ DecodeFlac \/ LastLook
    \/ UnlinkWav \/ CleanUp
    \/ StartDelete \/ ListAudio \/ CheckAudio \/ RemoveAudio
    \/ ReplaceAudio \/ ReplaceDirectory \/ CrashUpkeep

LifecycleSpec == LifecycleInit /\ [][LifecycleNext]_lifecycleVars

------------------------------------------------------------------------------

\* Whatever the other process does, short of acting between the last look and
\* the unlink: a compression that made its FLAC removes only a WAV whose sound
\* is whole in that FLAC, a failed one removes no file it did not make, and a
\* cold meeting loses only files that were listed.
SoundIsKept ==
    \A g \in gone :
        g.exposed \/ /\ g.how = "compressed" => g.kept
                     /\ g.how = "cleanup" => g.mine
                     /\ g.how = "cold" => g.listed
================================================================================
