------------------------------- MODULE FsActor ------------------------------
(***************************************************************************)
(* The file system task of fs.rs and its clients: requests over the        *)
(* channel REQ, the handle tables, lazy mounting, the unmount when the     *)
(* card is gone, shutdown, and the close that dropping a handle sends.     *)
(* The task handles one request at a time, so a request is one action.     *)
(* That an answer reaches its client is module ReplyPool's subject; here   *)
(* it arrives with the step that produces it.                              *)
(*                                                                         *)
(* An open file is [id, dirty]: which open made it, and whether it has     *)
(* changes not yet flushed.                                                *)
(***************************************************************************)
EXTENDS Integers, Sequences, FiniteSets

CONSTANTS Clients,
          ReqCapacity,   \* capacity of REQ
          HandleCount,   \* number of handle values (2^32 in the code)
          MaxOpens,      \* bound on the opens of a behaviour
          DeviceFaults   \* may the device fail, or the card be pulled?

ASSUME FsActorAssumption ==
  /\ ReqCapacity \in Nat \ {0} /\ HandleCount \in Nat \ {0}
  /\ MaxOpens \in Nat /\ DeviceFaults \in BOOLEAN

VARIABLES mounted,      \* FsManager: is file_system set, or dev?
          files,        \* Handles<File>
          dirs,         \* Handles<DirectoryIterator>
          REQ,
          client,       \* per client: pc, the handle it has and its open's id
          opens,        \* how many opens there were: the next id
          unsaved,      \* ghost: ids with an acknowledged write not on the card
          excused,      \* ghost: ids whose file was lost with the card or an error
          last          \* the last answer ("down" for the Ok of a shutdown)

vars == <<mounted, files, dirs, REQ, client, opens, unsaved, excused, last>>
tables == <<mounted, files, dirs>>
ghosts == <<unsaved, excused>>

(* Operations on a handle.  A path request stands for ReadToString, Read,  *)
(* Exists, RemoveFile, CreateDirectory, Copy, Rename, RemoveDir and Write, *)
(* which leave no file open.  Metadata, SeekFile and the other reads are   *)
(* ReadFile.                                                               *)
FileOps == {"ReadFile", "WriteFile", "FlushFile", "CloseFile"}
DirOps == {"DirectoryNextEntry", "CloseDirectory"}

Request(op, c, h) == [op |-> op, from |-> c, handle |-> h.handle, id |-> h.id]
NoHandle == [kind |-> "none", handle |-> 0, id |-> 0]

-----------------------------------------------------------------------------
(* Handles                                                                 *)

NoItems == [h \in {} |-> 0]
Handles_new == [handles |-> NoItems, next_handle |-> 0]
Numbers(t) == DOMAIN t.handles
Ids(t) == {t.handles[h].id : h \in Numbers(t)}

(* add: the next value that is not in the table, with wrap.                *)
NextHandle(t) ==
  LET free == {k \in 1 .. HandleCount : (t.next_handle + k) % HandleCount \notin Numbers(t)}
  IN  (t.next_handle + CHOOSE k \in free : \A j \in free : k <= j) % HandleCount
add(t, id) ==
  [handles |-> [h \in Numbers(t) \cup {NextHandle(t)} |->
                  IF h = NextHandle(t) THEN [id |-> id, dirty |-> FALSE] ELSE t.handles[h]],
   next_handle |-> NextHandle(t)]

remove(t, h) == [t EXCEPT !.handles = [g \in Numbers(t) \ {h} |-> t.handles[g]]]

(* Mutant of clear: the handles start again from the first one.            *)
clear_resets(t) == Handles_new

(* Mutant of clear: the files stay in the table.                           *)
clear_nothing(t) == t

(* clear keeps next_handle: there may be old handles out there.            *)
clear(t) == [t EXCEPT !.handles = NoItems]

-----------------------------------------------------------------------------
(* A client sends a request and waits; close gives up the handle.          *)
Send(c, r) ==
  /\ client[c].pc = "idle" /\ Len(REQ) < ReqCapacity
  /\ REQ' = Append(REQ, r)
  /\ client' = [client EXCEPT ![c].pc = IF r.op = "CloseFile" THEN "closing" ELSE "wait"]
  /\ UNCHANGED <<tables, opens, ghosts, last>>

Open(c, op) == /\ client[c].own = NoHandle /\ opens < MaxOpens
               /\ Send(c, Request(op, c, NoHandle))
UseFile(c, op) == client[c].own.kind = "file" /\ Send(c, Request(op, c, client[c].own))
NextEntry(c) == /\ client[c].own.kind = "dir"
                /\ Send(c, Request("DirectoryNextEntry", c, client[c].own))
Path(c) == Send(c, Request("Path", c, NoHandle))
Shutdown(c) == Send(c, Request("Shutdown", c, NoHandle))

(* Drop for FileHandle and DirectoryHandle: a close without an answer, if  *)
(* there is room.  A handle consumed by close is dropped when close returns.*)
DropHandle(c) ==
  LET op == IF client[c].own.kind = "file" THEN "CloseFile" ELSE "CloseDirectory" IN
  /\ client[c].own # NoHandle /\ client[c].pc \in {"idle", "dropping"}
  /\ REQ' = IF Len(REQ) < ReqCapacity
            THEN Append(REQ, Request(op, "none", client[c].own)) ELSE REQ
  /\ client' = [client EXCEPT ![c] = [pc |-> "idle", own |-> NoHandle]]
  /\ UNCHANGED <<tables, opens, ghosts, last>>

-----------------------------------------------------------------------------
req == Head(REQ)

(* Mounting empties the tables if there was nothing mounted.               *)
Files == IF mounted THEN files ELSE clear(files)
Dirs == IF mounted THEN dirs ELSE clear(dirs)
Known == \/ req.op \in FileOps /\ req.handle \in Numbers(Files)
         \/ req.op \in DirOps /\ req.handle \in Numbers(Dirs)
TheFile == files.handles[req.handle]

(* Every request but Shutdown mounts first.                                *)
Mounted(op) == REQ # <<>> /\ req.op = op /\ mounted' = TRUE

(* The request is done and its client, if it waits, goes on.               *)
Reply(answer, own) ==
  /\ REQ' = Tail(REQ)
  /\ last' = answer
  /\ client' = [c \in Clients |->
                  IF c # req.from THEN client[c]
                  ELSE [pc |-> IF client[c].pc = "closing" THEN "dropping" ELSE "idle",
                        own |-> own]]
Own == IF req.from \in Clients THEN client[req.from].own ELSE NoHandle

OpenFileReq ==
  /\ Mounted("OpenFile") /\ Cardinality(Numbers(Files)) < HandleCount
  /\ files' = add(Files, opens + 1) /\ dirs' = Dirs /\ opens' = opens + 1
  /\ Reply("ok", [kind |-> "file", handle |-> NextHandle(Files), id |-> opens + 1])
  /\ UNCHANGED ghosts

OpenDirectoryReq ==
  /\ Mounted("OpenDirectory") /\ Cardinality(Numbers(Dirs)) < HandleCount
  /\ dirs' = add(Dirs, opens + 1) /\ files' = Files /\ opens' = opens + 1
  /\ Reply("ok", [kind |-> "dir", handle |-> NextHandle(Dirs), id |-> opens + 1])
  /\ UNCHANGED ghosts

(* Mutant of InvalidHandleReq: the error is not sent to the client.        *)
InvalidHandleReq_silent(op) ==
  /\ Mounted(op) /\ ~Known
  /\ REQ' = Tail(REQ) /\ files' = Files /\ dirs' = Dirs
  /\ UNCHANGED <<opens, ghosts, client, last>>

(* Handles::get or remove fails: InvalidFileHandle.                        *)
InvalidHandleReq(op) ==
  /\ Mounted(op) /\ ~Known
  /\ files' = Files /\ dirs' = Dirs
  /\ Reply("InvalidFileHandle", Own)
  /\ UNCHANGED <<opens, ghosts>>

(* Cursors of files and of listings are the subject of File and Directory. *)
ReadReq(op) ==
  /\ Mounted(op) /\ Known
  /\ files' = Files /\ dirs' = Dirs
  /\ Reply("ok", Own)
  /\ UNCHANGED <<opens, ghosts>>

PathReq ==
  /\ Mounted("Path")
  /\ files' = Files /\ dirs' = Dirs
  /\ Reply("ok", Own)
  /\ UNCHANGED <<opens, ghosts>>

WriteFileReq ==
  /\ Mounted("WriteFile") /\ Known
  /\ files' = [files EXCEPT !.handles[req.handle].dirty = TRUE]
  /\ unsaved' = unsaved \cup {TheFile.id}
  /\ Reply("ok", Own)
  /\ UNCHANGED <<dirs, opens, excused>>

FlushFileReq ==
  /\ Mounted("FlushFile") /\ Known
  /\ files' = [files EXCEPT !.handles[req.handle].dirty = FALSE]
  /\ unsaved' = unsaved \ {TheFile.id}
  /\ Reply("ok", Own)
  /\ UNCHANGED <<dirs, opens, excused>>


CloseFileReq ==
  /\ Mounted("CloseFile") /\ Known
  /\ files' = remove(files, req.handle)
  /\ unsaved' = unsaved \ {TheFile.id}
  /\ Reply("ok", Own)
  /\ UNCHANGED <<dirs, opens, excused>>

CloseDirectoryReq ==
  /\ Mounted("CloseDirectory") /\ Known
  /\ dirs' = remove(dirs, req.handle)
  /\ Reply("ok", Own)
  /\ UNCHANGED <<files, opens, ghosts>>

-----------------------------------------------------------------------------
(* The request gets to the device, once mounted: an unknown handle is      *)
(* refused, and a listing closed, without it.                              *)
Reached == \/ req.op \in {"OpenFile", "OpenDirectory", "Path"}
           \/ Known /\ req.op # "CloseDirectory"

(* FsManager::mount fails and the device is taken back.                    *)
MountFailsReq ==
  /\ DeviceFaults /\ REQ # <<>> /\ req.op # "Shutdown" /\ ~mounted
  /\ Reply("Io", Own)
  /\ UNCHANGED <<tables, opens, ghosts>>

(* The operation fails: a close has removed the file by then.              *)
FailedReq ==
  /\ DeviceFaults /\ REQ # <<>> /\ Reached
  /\ IF req.op = "CloseFile"
     THEN files' = remove(Files, req.handle) /\ excused' = excused \cup {TheFile.id}
     ELSE files' = Files /\ excused' = excused
  /\ mounted' = TRUE /\ dirs' = Dirs
  /\ Reply("Io", Own)
  /\ UNCHANGED <<opens, unsaved>>

(* FsManager::unmount                                                      *)
unmount == mounted' = FALSE /\ files' = clear(files) /\ dirs' = clear(dirs)

(* There is no card: the task unmounts and forgets every file.             *)
NoCardReq ==
  /\ DeviceFaults /\ REQ # <<>> /\ req.op # "Shutdown"
  /\ ~mounted \/ Reached
  /\ unmount
  /\ excused' = excused \cup Ids(files)
  /\ Reply("NoCard", Own)
  /\ UNCHANGED <<opens, unsaved>>

(* Mutant of ShutdownReq: the volume is unmounted under the open files.    *)
ShutdownReq_unmounts ==
  /\ REQ # <<>> /\ req.op = "Shutdown"
  /\ unmount
  /\ Reply("down", Own)
  /\ UNCHANGED <<opens, ghosts>>

(* FsManager::shutdown: every file is closed, whichever of them fail, then *)
(* the volume is unmounted; the answer is Ok if none failed.               *)
ShutdownReq ==
  /\ REQ # <<>> /\ req.op = "Shutdown"
  /\ unmount
  /\ \E bad \in SUBSET (IF DeviceFaults THEN Ids(files) ELSE {}) :
       /\ unsaved' = unsaved \ (Ids(files) \ bad)
       /\ excused' = excused \cup bad
       /\ Reply(IF bad = {} THEN "down" ELSE "Io", Own)
  /\ UNCHANGED opens

-----------------------------------------------------------------------------
Init ==
  /\ mounted = FALSE /\ files = Handles_new /\ dirs = Handles_new
  /\ REQ = <<>> /\ opens = 0 /\ unsaved = {} /\ excused = {} /\ last = "none"
  /\ client = [c \in Clients |-> [pc |-> "idle", own |-> NoHandle]]

Call == \E c \in Clients :
          \/ Path(c) \/ Shutdown(c) \/ DropHandle(c) \/ NextEntry(c)
          \/ \E op \in {"OpenFile", "OpenDirectory"} : Open(c, op)
          \/ \E op \in FileOps : UseFile(c, op)

Serve == \/ OpenFileReq \/ OpenDirectoryReq \/ PathReq
         \/ \E op \in {"ReadFile", "DirectoryNextEntry"} : ReadReq(op)
         \/ \E op \in FileOps \cup DirOps : InvalidHandleReq(op)
         \/ WriteFileReq \/ FlushFileReq \/ CloseFileReq \/ CloseDirectoryReq
         \/ MountFailsReq \/ FailedReq \/ NoCardReq \/ ShutdownReq

Next == Call \/ Serve

Spec == Init /\ [][Next]_vars

(* The file system task keeps running.                                     *)
FairSpec == Spec /\ WF_vars(Serve)

-----------------------------------------------------------------------------
(* The tables and the channel stay within their types and bounds, and      *)
(* while nothing is mounted no handle is valid.                            *)
TypeOK ==
  /\ mounted \in BOOLEAN
  /\ \A t \in {files, dirs} :
       /\ t.next_handle \in 0 .. HandleCount - 1
       /\ Numbers(t) \subseteq 0 .. HandleCount - 1
       /\ \A h \in Numbers(t) :
            t.handles[h] \in [id : 1 .. MaxOpens + Cardinality(Clients), dirty : BOOLEAN]
       /\ ~mounted => t.handles = NoItems
  /\ Len(REQ) <= ReqCapacity
  /\ \A c \in Clients : client[c].pc \in {"idle", "wait", "closing", "dropping"}

(* What handle h, given out for open id, reaches in table t, if anything.  *)
Reaches(t, h, id) == h \in Numbers(t) /\ id # 0 => t.handles[h].id = id

(* A handle never reaches a file or listing it was not given for: not      *)
(* after the card was pulled or shutdown emptied the tables, not by the    *)
(* second close that dropping a closed handle sends, not by a close that   *)
(* waited in the channel while the tables changed, not by the number it    *)
(* shares with a handle of the other table.                                *)
OwnFileOnly ==
  /\ \A c \in Clients : LET own == client[c].own IN
       Reaches(IF own.kind = "file" THEN files ELSE dirs, own.handle, own.id)
  /\ \A i \in DOMAIN REQ :
       Reaches(IF REQ[i].op \in FileOps THEN files ELSE dirs, REQ[i].handle, REQ[i].id)


(* When shutdown has answered Ok nothing that could be saved is unsaved.   *)
ShutdownSaves ==
  last = "down" =>
    unsaved \subseteq excused /\ files.handles = NoItems

(* Every request is answered, however many closes fill the channel.        *)
EveryRequestAnswered ==
  \A c \in Clients : client[c].pc \in {"wait", "closing"} ~> client[c].pc \in {"idle", "dropping"}
=============================================================================
