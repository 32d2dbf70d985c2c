---------------------------- MODULE DirectoryGrpc ----------------------------
(***************************************************************************)
(* A directory service served over gRPC: clients upload closures           *)
(* (DirectoryGrpcPut) while others download from the same backend.         *)
(*                                                                         *)
(* Downloading is GRPCDirectoryService::get_recursive                      *)
(* (directoryservice/grpc.rs) on the client, and the server's get handler  *)
(* (proto/grpc_directoryservice_wrapper.rs), which streams a traversal of  *)
(* its backend (DirectoryService).  The readers of the backend are the     *)
(* handlers of the clients.                                                *)
(***************************************************************************)
EXTENDS DirectoryGrpcPut, Functions

VARIABLES
    cget,      \* cget[c]: the client's stream
    down,      \* down[c]: directories sent by the server and not yet read
    expected,  \* expected[c]: expected_directory_digests
    received   \* received[c]: received_directory_digests

dvars == <<cget, down, expected, received>>

DownloadInit ==
    /\ cget = [c \in Readers |-> "idle"]
    /\ down = [c \in Readers |-> <<>>]
    /\ expected = [c \in Readers |-> {}]
    /\ received = [c \in Readers |-> {}]

-----------------------------------------------------------------------------
(* The request, and the server's traversal sending what it finds.          *)
Request(c) ==
    /\ cget[c] = "idle"
    /\ Traverse(c)
    /\ cget' = [cget EXCEPT ![c] = "receiving"]
    /\ expected' = [expected EXCEPT ![c] = {root[c]}]
    /\ UNCHANGED <<down, received>>

ServerSends(c, d) ==
    /\ TraverseStep(c, d)
    /\ down' = [down EXCEPT ![c] = IF d \in db THEN Append(@, d) ELSE @]
    /\ UNCHANGED <<cget, expected, received>>

ServerFails(c) ==
    /\ LookupFails(c)
    /\ UNCHANGED dvars

(* One message: it must be expected; its children are expected from then   *)
(* on, also those that were received already.                              *)
ClientReceives(c) ==
    /\ cget[c] = "receiving" /\ down[c] # <<>>
    /\ LET d == Head(down[c]) IN
          IF d \in expected[c]
          THEN /\ expected' = [expected EXCEPT ![c] = (@ \ {d}) \cup Refs(d)]
               /\ received' = [received EXCEPT ![c] = @ \cup {d}]
               /\ UNCHANGED cget
          ELSE /\ cget' = [cget EXCEPT ![c] = "unexpected"]
               /\ UNCHANGED <<expected, received>>
    /\ down' = [down EXCEPT ![c] = Tail(@)]
    /\ UNCHANGED vars

(* The end of the stream.  Directories referred to again after they were   *)
(* received stay in expected, hence the difference.                        *)
ClientEnds_noDifference(c) ==
    /\ cget[c] = "receiving" /\ down[c] = <<>> /\ rpc[c] = "done"
    /\ cget' = [cget EXCEPT ![c] =
                  CASE expected[c] = {root[c]} -> "empty"
                    [] expected[c] = {} -> "complete"
                    [] OTHER -> "premature"]
    /\ UNCHANGED <<down, expected, received>>
    /\ UNCHANGED vars

ClientEnds_waitsForRoot(c) ==
    /\ cget[c] = "receiving" /\ down[c] = <<>> /\ rpc[c] = "done"
    /\ expected[c] \ received[c] = {}
    /\ cget' = [cget EXCEPT ![c] = "complete"]
    /\ UNCHANGED <<down, expected, received>>
    /\ UNCHANGED vars

ClientEnds(c) ==
    /\ cget[c] = "receiving" /\ down[c] = <<>> /\ rpc[c] = "done"
    /\ cget' = [cget EXCEPT ![c] =
                  IF expected[c] = {root[c]} THEN "empty"
                  ELSE IF expected[c] \ received[c] = {} THEN "complete" ELSE "premature"]
    /\ UNCHANGED <<down, expected, received>>
    /\ UNCHANGED vars

(* The server's error, or a broken connection, after the messages before it.*)
ClientFails(c) ==
    /\ cget[c] = "receiving"
    /\ rpc[c] \in {"error", "failed"} => down[c] = <<>>
    /\ cget' = [cget EXCEPT ![c] = "error"]
    /\ UNCHANGED <<down, expected, received>>
    /\ UNCHANGED vars

-----------------------------------------------------------------------------
DownloadStep(c) ==
    \/ Request(c) \/ ClientReceives(c) \/ ClientEnds(c) \/ ClientFails(c) \/ ServerFails(c)
    \/ \E d \in Dirs : ServerSends(c, d)

-----------------------------------------------------------------------------
(* Server and client agree on what a closure stream is: with shared        *)
(* directories, and with putters writing while it runs, the client never   *)
(* meets a directory it did not expect, nor an end that comes too early;   *)
(* what a stream that ended well delivered is the whole closure of the     *)
(* root, or nothing.                                                       *)
DownloadComplete ==
    \A c \in Readers :
       /\ cget[c] \notin {"unexpected", "premature"}
       /\ cget[c] = "complete" => /\ root[c] \in received[c]
                                  /\ \A d \in received[c] : Refs(d) \subseteq received[c]
       /\ cget[c] = "empty" => received[c] = {}

-----------------------------------------------------------------------------
(* Uploads and downloads together.                                         *)
VARIABLE promised   \* promised[r]: the closure of root[r] was acknowledged before r asked

allvars == <<vars, uvars, dvars, promised>>

GrpcInit ==
    /\ Init /\ UploadInit /\ DownloadInit
    /\ promised = [r \in Readers |-> FALSE]

Acknowledged(d) == \E c \in Uploaders : cput[c] = "closed_ok" /\ d \in Range(accepted[c])

Uploads(c) == UploadStep(c) /\ UNCHANGED <<dvars, promised>>

Downloads(r) ==
    /\ DownloadStep(r) /\ UNCHANGED uvars
    /\ promised' = IF cget[r] = "idle" THEN [promised EXCEPT ![r] = Acknowledged(root[r])] ELSE promised

GrpcNext == (\E c \in Uploaders : Uploads(c)) \/ (\E r \in Readers : Downloads(r))

GrpcSpec == GrpcInit /\ [][GrpcNext]_allvars

-----------------------------------------------------------------------------
(* What close() acknowledged is served: a download that starts after the   *)
(* upload of its root was acknowledged is never answered with "not found". *)
AcknowledgedIsServed == \A r \in Readers : promised[r] => cget[r] # "empty"
=============================================================================
