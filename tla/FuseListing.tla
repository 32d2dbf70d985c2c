---------------------------- MODULE FuseListing ----------------------------
(***************************************************************************)
(* Listing a directory of the FUSE/virtiofs filesystem (castore            *)
(* fs/mod.rs): opendir, the readdir calls of the kernel until one returns  *)
(* nothing, releasedir.  The root is listed from a channel that a          *)
(* background task fills; any other directory from its populated children  *)
(* and the offset the kernel passes.  Entries are their positions.         *)
(***************************************************************************)
EXTENDS Integers, Sequences

CONSTANTS
    MaxEntries,      \* the longest listing considered
    ChannelSize,     \* ROOT_NODES_BUFFER_SIZE
    ReplyCapacity    \* how many entries fit into one reply buffer

ASSUME ListingAssumption ==
    MaxEntries \in Nat /\ ChannelSize \in Nat \ {0} /\ ReplyCapacity \in Nat \ {0}

VARIABLES
    kind,      \* "root" or "directory"
    count,     \* the number of entries
    faulty,    \* the position at which list() gives an error, 0 if it does not
    handle,    \* "none", "open", "released"
    queue,      \* the entries in the channel
    produced,  \* how many entries the background task has taken from list()
    task,      \* "none", "running", "ended"
    call,      \* "none" between calls, else "reading"
    offset,    \* the offset of the call, then of its last entry
    reply,     \* entries in the reply of the current call
    listed,    \* entries the kernel received
    atEnd      \* a call returned no entry

lvars == <<kind, count, handle, queue, produced, task, call, offset, reply, listed, atEnd, faulty>>

ListingInit ==
    /\ kind \in {"root", "directory"} /\ count \in 0 .. MaxEntries /\ faulty \in 0 .. count
    /\ handle = "none" /\ task = "none" /\ call = "none"
    /\ queue = <<>> /\ produced = 0 /\ offset = 0 /\ reply = <<>> /\ listed = <<>>
    /\ atEnd = FALSE

-----------------------------------------------------------------------------
Opendir ==
    /\ handle = "none"
    /\ handle' = "open"
    /\ task' = IF kind = "root" THEN "running" ELSE "none"
    /\ UNCHANGED <<kind, count, queue, produced, call, offset, reply, listed, atEnd, faulty>>

(* The background task: tx.send waits for room and fails once the receiver *)
(* is gone.                                                                *)
Produce ==
    /\ task = "running" /\ produced < count /\ handle = "open" /\ Len(queue) < ChannelSize
    /\ queue' = Append(queue, produced + 1)
    /\ produced' = produced + 1
    /\ UNCHANGED <<kind, count, handle, task, call, offset, reply, listed, atEnd, faulty>>

TaskEnds ==
    /\ task = "running"
    /\ produced = count \/ handle = "released"
    /\ task' = "ended"
    /\ UNCHANGED <<kind, count, handle, queue, produced, call, offset, reply, listed, atEnd, faulty>>

-----------------------------------------------------------------------------
ReaddirCall ==
    /\ handle = "open" /\ call = "none" /\ ~ atEnd
    /\ call' = "reading" /\ reply' = <<>>
    /\ UNCHANGED <<kind, count, handle, queue, produced, task, offset, listed, atEnd, faulty>>

EndCall ==
    /\ call' = "none" /\ atEnd' = (reply = <<>>)
    /\ listed' = listed \o reply
    /\ offset' = IF reply = <<>> THEN offset ELSE offset + reply[Len(reply)]
    /\ UNCHANGED <<kind, count, handle, produced, task, reply, faulty>>

(* The root: blocking_recv, then add_entry, which writes nothing when the  *)
(* buffer is full.  The entry was received all the same.                   *)
RootEntry ==
    /\ kind = "root" /\ call = "reading" /\ queue # <<>> /\ Head(queue) # faulty
    /\ queue' = Tail(queue)
    /\ IF Len(reply) < ReplyCapacity
       THEN /\ reply' = Append(reply, Head(queue))
            /\ UNCHANGED <<kind, count, handle, produced, task, call, offset, listed, atEnd, faulty>>
       ELSE EndCall

\* list() gave an error: EIO, and the entries of this reply are not sent.
RootFails ==
    /\ kind = "root" /\ call = "reading" /\ queue # <<>> /\ Head(queue) = faulty
    /\ queue' = Tail(queue)
    /\ call' = "none"
    /\ UNCHANGED <<kind, count, handle, produced, task, offset, reply, listed, atEnd, faulty>>

RootEnds ==
    /\ kind = "root" /\ call = "reading" /\ queue = <<>> /\ task = "ended"
    /\ EndCall /\ UNCHANGED queue

(* Other directories: skip(offset), then one entry after the other; the    *)
(* offset of the last entry written is passed to the next call.            *)
DirectoryEntries_skipsOne ==
    /\ kind = "directory" /\ call = "reading"
    /\ LET last == IF count < offset + ReplyCapacity THEN count ELSE offset + ReplyCapacity IN
          /\ listed' = listed \o [i \in 1 .. last - offset |-> offset + i]
          /\ atEnd' = (last <= offset)
          /\ offset' = last + 1
    /\ call' = "none"
    /\ UNCHANGED <<kind, count, handle, queue, produced, task, reply, faulty>>

DirectoryEntries ==
    /\ kind = "directory" /\ call = "reading"
    /\ LET last == IF count < offset + ReplyCapacity THEN count ELSE offset + ReplyCapacity IN
          /\ listed' = listed \o [i \in 1 .. last - offset |-> offset + i]
          /\ atEnd' = (last = offset)
          /\ offset' = last
    /\ call' = "none"
    /\ UNCHANGED <<kind, count, handle, queue, produced, task, reply, faulty>>

\* The kernel may close the directory before it has read all of it.
Releasedir ==
    /\ handle = "open" /\ call = "none"
    /\ handle' = "released"
    /\ queue' = <<>>
    /\ UNCHANGED <<kind, count, produced, task, call, offset, reply, listed, atEnd, faulty>>

-----------------------------------------------------------------------------
ListingNext == Opendir \/ Produce \/ TaskEnds \/ ReaddirCall \/ RootEntry \/ RootFails \/ RootEnds
        \/ DirectoryEntries \/ Releasedir

ListingSpec == ListingInit /\ [][ListingNext]_lvars

(* The background task is scheduled and a readdir call in progress runs;   *)
(* the kernel need not call anything.                                      *)
TaskStep == Produce \/ TaskEnds
CallStep == RootEntry \/ RootFails \/ RootEnds \/ DirectoryEntries

-----------------------------------------------------------------------------
(* A directory below the root that was read to its end was listed exactly: *)
(* every entry once, in order, however many calls it took.  The listing of *)
(* the root never repeats or reorders entries; each time a reply fills up  *)
(* it loses the entry that was already received, and nothing else.         *)
ListingRight ==
    /\ kind = "directory" /\ atEnd => listed = [i \in 1 .. count |-> i]
    /\ \A i, j \in DOMAIN listed : i < j => listed[i] < listed[j]
    /\ kind = "root" /\ faulty = 0 /\ atEnd => count - Len(listed) <= Len(listed) \div ReplyCapacity
=============================================================================
