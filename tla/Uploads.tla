-------------------------------- MODULE Uploads --------------------------------
(***************************************************************************)
(* api/routers/uploads.py: requests write a hidden temporary file in the    *)
(* input directory and publish it under the first free name by a hard link. *)
(* The handlers interleave at each chunk; another process (the recorder, a   *)
(* user, the watcher moving a file away) may change the directory at any     *)
(* time.  An entry is the inode it names: an upload's, or a foreign one.     *)
(***************************************************************************)
EXTENDS Naturals

CONSTANTS
    Uploaders,     \* concurrent requests, all with the same file name
    MaxChunks,     \* chunks of a body
    MaxForeign     \* bound of changes by other processes

ASSUME UploadBounds == MaxChunks \in Nat \ {0} /\ MaxForeign \in Nat

\* An upload's inode is neither a free name nor somebody else's inode.
ASSUME UploaderAssumption == Uploaders \cap {"none", "foreign"} = {}

VARIABLES
    names,         \* candidate name -> inode ("none" if free), 0 is "name.ext"
    temps,         \* entry of each request's temporary name
    written,       \* chunks in each request's inode
    upPc,          \* where each request is
    upName,        \* the name a request published
    foreign        \* changes left

uploadVars == <<names, temps, written, upPc, upName, foreign>>

NoEntry == "none"
Candidates == 0..1
Incomplete(u) == written[u] < MaxChunks

UploadInit ==
    /\ names \in [Candidates -> {NoEntry, "foreign"}]
    /\ temps = [u \in Uploaders |-> NoEntry]
    /\ written = [u \in Uploaders |-> 0]
    /\ upPc = [u \in Uploaders |-> "new"]
    /\ upName = [u \in Uploaders |-> 0]
    /\ foreign = MaxForeign

UpGo(u, pc) == upPc' = [upPc EXCEPT ![u] = pc]

CreateTemp(u) ==
    /\ upPc[u] = "new"
    /\ temps' = [temps EXCEPT ![u] = u]
    /\ UpGo(u, "stream")
    /\ UNCHANGED <<names, written, upName, foreign>>

Chunk(u) ==
    /\ upPc[u] = "stream" /\ Incomplete(u)
    /\ written' = [written EXCEPT ![u] = @ + 1]
    /\ UNCHANGED <<names, temps, upPc, upName, foreign>>

\* The body ends; or it is empty or too large, the client disconnects, the
\* request is cancelled or a write fails.
StreamEnds(u) ==
    /\ upPc[u] = "stream"
    /\ \/ ~Incomplete(u) /\ UpGo(u, "link")
       \/ UpGo(u, "cleanup")
    /\ UNCHANGED <<names, temps, written, upName, foreign>>

\* Mutant: the publish replaces what has the name, as os.replace would.
LinksOver(u) ==
    /\ upPc[u] = "link"
    /\ names' = [names EXCEPT ![0] = temps[u]]
    /\ upName' = [upName EXCEPT ![u] = 0]
    /\ UpGo(u, "verify")
    /\ UNCHANGED <<temps, written, foreign>>

\* The temporary entry must still be the request's own inode; link refuses a
\* name that exists, and 409 is returned when all of them do.
Link(u) ==
    /\ upPc[u] = "link"
    /\ IF temps[u] = u /\ \E n \in Candidates : names[n] = NoEntry
       THEN LET n == CHOOSE n \in Candidates :
                         /\ names[n] = NoEntry
                         /\ \A k \in Candidates : k < n => names[k] # NoEntry
            IN names' = [names EXCEPT ![n] = u] /\ upName' = [upName EXCEPT ![u] = n]
                 /\ UpGo(u, "verify")
       ELSE UpGo(u, "cleanup") /\ UNCHANGED <<names, upName>>
    /\ UNCHANGED <<temps, written, foreign>>

\* The final entry is read back, the directory is made durable and the
\* temporary name goes; a published file stays if any of it fails.
Verify(u) ==
    /\ upPc[u] = "verify"
    /\ IF names[upName[u]] = u /\ temps[u] \in {u, NoEntry}
       THEN temps' = [temps EXCEPT ![u] = NoEntry] /\ UpGo(u, "created")
       ELSE UpGo(u, "cleanup") /\ UNCHANGED temps
    /\ UNCHANGED <<names, written, upName, foreign>>

\* Mutant: the cleanup removes the name whoever has it by now.
RemovesAnyTemp(u) ==
    /\ upPc[u] = "cleanup"
    /\ temps' = [temps EXCEPT ![u] = NoEntry]
    /\ UpGo(u, "failed")
    /\ UNCHANGED <<names, written, upName, foreign>>

\* _cleanup_upload_temp: only the inode this request created.
CleanUp(u) ==
    /\ upPc[u] = "cleanup"
    /\ temps' = [temps EXCEPT ![u] = IF @ = u THEN NoEntry ELSE @]
    /\ UpGo(u, "failed")
    /\ UNCHANGED <<names, written, upName, foreign>>

\* Another process creates, replaces or removes an entry.
ForeignChange ==
    /\ foreign > 0
    /\ foreign' = foreign - 1
    /\ \/ \E n \in Candidates, e \in {NoEntry, "foreign"} : names' = [names EXCEPT ![n] = e]
            /\ UNCHANGED temps
       \/ \E u \in Uploaders, e \in {NoEntry, "foreign"} :
             upPc[u] # "new" /\ temps' = [temps EXCEPT ![u] = e] /\ UNCHANGED names
    /\ UNCHANGED <<written, upPc, upName>>

UploadStep(u) ==
    CreateTemp(u) \/ Chunk(u) \/ StreamEnds(u) \/ Link(u) \/ Verify(u) \/ CleanUp(u)

UploadNext == ForeignChange \/ \E u \in Uploaders : UploadStep(u)

------------------------------------------------------------------------------

\* A request only ever adds a complete file under a free name: it takes no name
\* from another upload or process, not even when it cleans up after itself, and
\* leaves no temporary file of its own behind.
UploadsTakeNothing ==
    [][foreign' = foreign =>
          /\ \A n \in Candidates :
                names'[n] # names[n] => names[n] = NoEntry /\ ~Incomplete(names'[n])
          /\ \A u \in Uploaders :
                /\ temps'[u] # temps[u] => temps[u] \in {u, NoEntry}
                /\ upPc'[u] \in {"created", "failed"} => temps'[u] # u]_uploadVars
==============================================================================
